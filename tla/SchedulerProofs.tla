--------------------------- MODULE SchedulerProofs ----------------------------
(***************************************************************************)
(* Proofs about the scheduler, for every set of threads, every switching   *)
(* period and every longest sleep, and about the linked list that holds    *)
(* its threads, for every set of nodes and of elements.                    *)
(*                                                                         *)
(* The handler saves and resumes contexts through currentThread, so that   *)
(* FramesResumable is not inductive without CurrentIsRunning, and that the *)
(* handler always finds a thread needs IdleReady: a thread can be blocked  *)
(* or stopped only once every immortal one is in the list.                 *)
(*                                                                         *)
(* That the loops of scheduler.cpp make the choice At(Chosen) follows from *)
(* IInv alone: removing the thread the search stopped at leaves the others *)
(* in the order in which the next search comes to them.                    *)
(***************************************************************************)
EXTENDS Scheduler, Queue, NatFacts, SequenceTheorems, TLAPS

IdleReady ==
  /\ \A t \in Immortal : thr[t].state \in {"Absent", "Ready"}
  /\ (\E t \in Threads : thr[t].state \in {"Blocked", "Stopped"}) => Immortal \subseteq Listed

IInv ==
  /\ TypeOK
  /\ TickBelowSwitch
  /\ CurrentIsRunning
  /\ FramesResumable
  /\ IdleReady
  /\ IdleThreadPreventsHalt

Thread == [state : States, blockedState : {"Unknown", "SleepMS", "ReceiveIPC"},
           timeDelta : 0 .. MaxSleep]

-----------------------------------------------------------------------------
(* k is the function Without builds, up to position n of the list.         *)
Keeps(k, l, gone, n) ==
  k = [i \in 0 .. n |-> IF i = 0 THEN <<>>
                        ELSE IF l[i] \in gone THEN k[i - 1] ELSE Append(k[i - 1], l[i])]

(* The recursion in Without has a solution.                                *)
LEMMA KeepsExists ==
  ASSUME NEW l, NEW gone, NEW N \in Nat
  PROVE  \E k : Keeps(k, l, gone, N)
<1> DEFINE Bad == {n \in 0 .. N : ~ \E k : Keeps(k, l, gone, n)}
<1>1. SUFFICES ASSUME Bad # {} PROVE FALSE
  OBVIOUS
<1>2. PICK n \in Bad : \A m \in Bad : n <= m
  <2>1. Bad \subseteq Nat
    OBVIOUS
  <2> HIDE DEF Bad
  <2> QED
    BY <1>1, <2>1, LeastNat
<1>3. Keeps([i \in 0 .. 0 |-> <<>>], l, gone, 0)
  BY DEF Keeps
<1>4. n \in Nat \ {0} /\ n - 1 \in (0 .. N) \ Bad
  BY <1>2, <1>3
<1>5. PICK k : Keeps(k, l, gone, n - 1)
  BY <1>4
<1> DEFINE last == IF l[n] \in gone THEN k[n - 1] ELSE Append(k[n - 1], l[n])
           g == [i \in 0 .. n |-> IF i = n THEN last ELSE k[i]]
<1>6. Keeps(g, l, gone, n)
  <2>1. ASSUME NEW i \in 0 .. n
        PROVE  g[i] = IF i = 0 THEN <<>>
                      ELSE IF l[i] \in gone THEN g[i - 1] ELSE Append(g[i - 1], l[i])
    <3>1. CASE i = n
      BY <3>1, <1>4
    <3>2. CASE i # n
      <4>1. /\ i \in 0 .. (n - 1) /\ g[i] = k[i]
            /\ i # 0 => i - 1 \in 0 .. (n - 1) /\ g[i - 1] = k[i - 1]
        BY <3>2, <1>4
      <4> HIDE DEF g
      <4> QED
        BY <4>1, <1>5 DEF Keeps
    <3> QED
      BY <3>1, <3>2
  <2>2. g = [i \in 0 .. n |-> g[i]]
    OBVIOUS
  <2> HIDE DEF g
  <2> QED
    BY <2>1, <2>2 DEF Keeps
<1> QED
  BY <1>2, <1>6

Members(l) == {l[i] : i \in 1 .. Len(l)}
Once(l) == \A i, j \in 1 .. Len(l) : l[i] = l[j] => i = j

(* Removing threads from the list leaves the others, each of them once.    *)
LEMMA WithoutKeeps ==
  ASSUME NEW E, NEW l \in Seq(E), Once(l), NEW gone
  PROVE  /\ Without(l, gone) \in Seq(E)
         /\ Members(Without(l, gone)) = Members(l) \ gone
         /\ Once(Without(l, gone))
<1> DEFINE N == Len(l)
           k == CHOOSE f : Keeps(f, l, gone, N)
<1>1. N \in Nat
  OBVIOUS
<1>2. Keeps(k, l, gone, N)
  BY <1>1, KeepsExists
<1>3. Without(l, gone) = k[N]
  BY Zenon DEF Without, Keeps
<1> DEFINE Good(n) == /\ k[n] \in Seq(E)
                      /\ Members(k[n]) = {l[i] : i \in 1 .. n} \ gone
                      /\ Once(k[n])
           Bad == {n \in 0 .. N : ~ Good(n)}
<1> HIDE DEF k
<1>4. SUFFICES ASSUME Bad # {} PROVE FALSE
  <2>1. SUFFICES Good(N)
    BY <1>3 DEF Members
  <2>2. N \in 0 .. N
    BY <1>1
  <2> HIDE DEF Good, N
  <2> QED
    BY <2>2
<1>5. PICK n \in Bad : \A m \in Bad : n <= m
  <2>1. Bad \subseteq Nat
    BY <1>1
  <2> HIDE DEF Bad
  <2> QED
    BY <1>4, <2>1, LeastNat
<1>6. Good(0)
  <2>1. k[0] = <<>>
    BY <1>1, <1>2 DEF Keeps
  <2> QED
    BY <2>1 DEF Members, Once
<1>7. n \in Nat \ {0} /\ n \in 1 .. N /\ Good(n - 1)
  <2> HIDE DEF Good, N
  <2>1. n \in 1 .. N
    BY <1>1, <1>5, <1>6
  <2> QED
    BY <2>1, <1>1, <1>5
<1>8. k[n] = IF l[n] \in gone THEN k[n - 1] ELSE Append(k[n - 1], l[n])
  <2>1. n \in 0 .. N /\ n # 0
    BY <1>7
  <2> HIDE DEF Good, Bad, N
  <2> QED BY <2>1, <1>2 DEF Keeps
<1>9. {l[i] : i \in 1 .. n} = {l[i] : i \in 1 .. (n - 1)} \cup {l[n]}
  <2>1. n \in Nat \ {0}
    BY <1>7
  <2>2. \A i : i \in 1 .. n <=> i \in 1 .. (n - 1) \/ i = n
    BY <2>1
  <2> HIDE DEF Good, Bad, N
  <2> QED BY <2>2
<1>10. l[n] \notin {l[i] : i \in 1 .. (n - 1)} /\ l[n] \in E
  BY <1>7 DEF Once
<1>11. Good(n)
  <2>1. CASE l[n] \in gone
    BY <2>1, <1>7, <1>8, <1>9
  <2>2. CASE l[n] \notin gone
    <3> DEFINE before == k[n - 1]
    <3>1. before \in Seq(E) /\ k[n] = Append(before, l[n])
      BY <2>2, <1>7, <1>8
    <3>2. /\ k[n] \in Seq(E) /\ Len(k[n]) = Len(before) + 1
          /\ k[n][Len(before) + 1] = l[n]
          /\ \A i \in 1 .. Len(before) : k[n][i] = before[i]
      BY <3>1, <1>10
    <3>3. Members(k[n]) = Members(before) \cup {l[n]}
      BY <3>1, <3>2 DEF Members
    <3>4. Once(k[n])
      <4>1. Once(before) /\ l[n] \notin Members(before)
        BY <1>7, <1>10
      <4> QED
        BY <3>1, <3>2, <4>1 DEF Once, Members
    <3> QED
      BY <2>2, <3>2, <3>3, <3>4, <1>7, <1>9
  <2> QED
    BY <2>1, <2>2
<1> QED
  BY <1>5, <1>11

-----------------------------------------------------------------------------
(* The list index of Start + k, wrapped round once.                        *)
LEMMA WrapOnce ==
  ASSUME NEW n \in Nat \ {0}, NEW a \in 0 .. (2 * n - 1)
  PROVE  a % n = IF a < n THEN a ELSE a - n
<1>1. a % n \in 0 .. (n - 1) /\ a = n * (a \div n) + (a % n)
  OBVIOUS
<1>2. CASE a < n
  BY <1>2
<1>3. CASE a >= n
  <2>1. (a - n) % n = a - n
    BY <1>3
  <2>2. a = (a - n) + n
    OBVIOUS
  <2> QED
    BY <2>1, <2>2, <1>3, <1>1
<1> QED
  BY <1>2, <1>3

(* The search begins inside the list, stays in it and reaches all of it.   *)
LEMMA SearchCoversList ==
  ASSUME list \in Seq(Threads), Len(list) > 0
  PROVE  /\ Start \in 1 .. Len(list)
         /\ \A k \in 0 .. (Len(list) - 1) : At(k) \in Listed
         /\ \A t \in Listed : \E k \in 0 .. (Len(list) - 1) : At(k) = t
<1> DEFINE n == Len(list)
<1>1. n \in Nat \ {0}
  OBVIOUS
<1>2. Start \in 1 .. n
  <2>1. CASE cur = None \/ cur \notin Listed
    BY <2>1, <1>1 DEF Start
  <2>2. CASE cur # None /\ cur \in Listed
    <3> DEFINE j == CHOOSE i \in 1 .. Len(list) : list[i] = cur
    <3>1. j \in 1 .. n
      BY <2>2 DEF Listed
    <3>2. Start = IF 1 + j > Len(list) THEN 1 ELSE 1 + j
      BY <2>2 DEF Start
    <3> HIDE DEF j
    <3> QED
      BY <3>1, <3>2, <1>1
  <2> QED
    BY <2>1, <2>2
<1>3. ASSUME NEW k \in 0 .. (n - 1)
      PROVE  At(k) \in Listed
  <2>1. Start - 1 + k \in Nat
    BY <1>1, <1>2
  <2>2. (Start - 1 + k) % n \in 0 .. (n - 1)
    BY <2>1, <1>1
  <2> QED
    BY <2>2, <1>1 DEF At, Listed
<1>4. ASSUME NEW t \in Listed
      PROVE  \E k \in 0 .. (n - 1) : At(k) = t
  <2>1. PICK i \in 1 .. n : list[i] = t
    BY DEF Listed
  <2> DEFINE k == IF i >= Start THEN i - Start ELSE i - Start + n
  <2>2. k \in 0 .. (n - 1)
    BY <1>1, <1>2
  <2>3. Start - 1 + k \in 0 .. (2 * n - 1)
    BY <1>1, <1>2
  <2>4. (Start - 1 + k) % n = i - 1
    <3> DEFINE a == Start - 1 + k
    <3>1. a = i - 1 \/ a = i - 1 + n
      BY <1>1, <1>2
    <3> HIDE DEF a, k, n
    <3>2. a % n = IF a < n THEN a ELSE a - n
      BY <2>3, <1>1, WrapOnce DEF a
    <3>3. a % n = i - 1
      BY <3>1, <3>2, <1>1
    <3> QED
      BY <3>3 DEF a
  <2>5. At(k) = list[(i - 1) + 1]
    BY <2>4 DEF At
  <2> QED
    BY <2>1, <2>2, <2>5
<1> QED
  BY <1>2, <1>3, <1>4

(* If some listed thread can run, the search settles on such a thread.     *)
LEMMA ChosenCanRun ==
  ASSUME list \in Seq(Threads), Len(list) > 0, NEW th
  PROVE  /\ Candidates(th) = {} => \A t \in Listed : ~CanRun(t, th)
         /\ Candidates(th) # {} =>
              /\ Chosen(th) \in 0 .. (Len(list) - 1)
              /\ At(Chosen(th)) \in Listed
              /\ CanRun(At(Chosen(th)), th)
<1>1. Candidates(th) = {} => \A t \in Listed : ~CanRun(t, th)
  BY SearchCoversList DEF Candidates
<1>2. ASSUME Candidates(th) # {}
      PROVE  Chosen(th) \in Candidates(th)
  <2>1. Candidates(th) \subseteq Nat
    BY DEF Candidates
  <2>2. \E k \in Candidates(th) : \A j \in Candidates(th) : k <= j
    BY <1>2, <2>1, LeastNat
  <2> QED
    BY <2>2 DEF Chosen
<1>3. ASSUME Chosen(th) \in Candidates(th)
      PROVE  /\ Chosen(th) \in 0 .. (Len(list) - 1)
             /\ At(Chosen(th)) \in Listed
             /\ CanRun(At(Chosen(th)), th)
  BY <1>3, SearchCoversList DEF Candidates
<1> QED
  BY <1>1, <1>2, <1>3

-----------------------------------------------------------------------------
(* What a tick does to the sleepers: types stay, some blocked threads      *)
(* become ready, nothing else changes its state.                           *)
LEMMA TickTouchesSleepersOnly ==
  ASSUME TypeOK
  PROVE  /\ ProcessSleepingThreads \in [Threads -> Thread]
         /\ \A t \in Threads :
              \/ ProcessSleepingThreads[t].state = thr[t].state
              \/ /\ thr[t].state = "Blocked"
                 /\ ProcessSleepingThreads[t].state = "Ready"
<1>1. thr \in [Threads -> Thread]
  BY DEF TypeOK, Thread
<1>2. ASSUME NEW t \in Threads
      PROVE  /\ Woken(thr[t]) \in Thread
             /\ \/ Woken(thr[t]).state = thr[t].state
                \/ thr[t].state = "Blocked" /\ Woken(thr[t]).state = "Ready"
  <2>1. thr[t] \in Thread
    BY <1>1
  <2> QED
    BY <2>1, SchedulerAssumption DEF Woken, Thread, States
<1> QED
  BY <1>1, <1>2 DEF ProcessSleepingThreads

-----------------------------------------------------------------------------
(* The list as SchedulerManager finds it: empty.                           *)
LEMMA InitIInv == Init => IInv
<1> SUFFICES ASSUME Init PROVE IInv
  OBVIOUS
<1>1. TypeOK
  <2>1. thr \in [Threads -> Thread]
    BY SchedulerAssumption DEF Init, Absent, States, Thread
  <2>2. list \in Seq(Threads) /\ tick \in Nat
    BY DEF Init
  <2>3. forced \in BOOLEAN /\ enabled \in BOOLEAN /\ intr \in BOOLEAN
    BY DEF Init
  <2>4. frame \in [Threads -> {"on", "off", "stale"}]
    BY DEF Init
  <2>5. pc \in [Contexts -> {"run", "force", "enable", "count", "int"}]
    BY DEF Init
  <2>6. /\ cur \in Threads \cup {None} /\ cpu \in Contexts
        /\ tss \in Threads \cup {None} /\ cr3 \in Users \cup {Boot}
        /\ halted \in {"no", "spinning", "null"}
    BY DEF Init, Contexts
  <2> QED
    BY <2>1, <2>2, <2>3, <2>4, <2>5, <2>6 DEF TypeOK, Thread
<1>2. Listed = {}
  BY DEF Init, Listed
<1>3. TickBelowSwitch
  BY SchedulerAssumption DEF Init, TickBelowSwitch
<1>4. CurrentIsRunning
  BY <1>2 DEF Init, CurrentIsRunning, Absent
<1>5. FramesResumable
  BY <1>2 DEF FramesResumable
<1>6. IdleReady /\ IdleThreadPreventsHalt
  BY SchedulerAssumption DEF Init, IdleReady, IdleThreadPreventsHalt, Absent
<1> QED
  BY <1>1, <1>3, <1>4, <1>5, <1>6 DEF IInv

(* The state of the threads that HandleInterrupt works with.               *)
Seen == IF forced THEN thr ELSE ProcessSleepingThreads

(* What a tick sees when it starts.                                        *)
LEMMA SeenFacts ==
  ASSUME TypeOK
  PROVE  /\ Seen \in [Threads -> Thread]
         /\ \A t \in Threads :
              \/ Seen[t].state = thr[t].state
              \/ thr[t].state = "Blocked" /\ Seen[t].state = "Ready"
BY TickTouchesSleepersOnly DEF Seen, TypeOK, Thread

(* A switch removes stopped threads only, and resumes a thread it keeps.   *)
LEMMA ReapedAreStopped ==
  ASSUME IInv, Len(list) > 0, NEW th, Candidates(th) # {}
  PROVE  /\ Reaped(th) \subseteq Listed
         /\ \A t \in Reaped(th) : th[t].state = "Stopped"
         /\ At(Chosen(th)) \in Listed \ Reaped(th)
<1>1. list \in Seq(Threads) /\ (cur # None => cur \in Listed)
  BY DEF IInv, TypeOK, CurrentIsRunning
<1>2. /\ Chosen(th) \in 0 .. (Len(list) - 1)
      /\ At(Chosen(th)) \in Listed
      /\ CanRun(At(Chosen(th)), th)
  BY <1>1, ChosenCanRun
<1>3. \A k \in 0 .. (Chosen(th) - 1) : At(k) \in Listed
  BY <1>1, <1>2, SearchCoversList
<1>4. /\ Reaped(th) \subseteq Listed
      /\ \A t \in Reaped(th) : th[t].state = "Stopped"
  BY <1>1, <1>3 DEF Reaped
<1> QED
  BY <1>2, <1>4 DEF CanRun

(* The interrupt handler, from a tick or from ForceSwitch, in each of its  *)
(* three outcomes: a switch, no thread to run, or just the count.          *)
LEMMA HandleInterruptIInv ==
  ASSUME IInv, HandleInterrupt, halted = "no",
         pc' \in [Contexts -> {"run", "force", "enable", "count", "int"}]
  PROVE  IInv'
<1> DEFINE th == Seen
           next == At(Chosen(th))
           gone == Reaped(th)
<1>1. /\ TypeOK /\ TickBelowSwitch /\ CurrentIsRunning /\ FramesResumable
      /\ IdleReady /\ IdleThreadPreventsHalt
  BY DEF IInv
<1>2. /\ th \in [Threads -> Thread]
      /\ \A t \in Threads :
           \/ th[t].state = thr[t].state
           \/ thr[t].state = "Blocked" /\ th[t].state = "Ready"
  BY <1>1, SeenFacts
<1>3. /\ tick' \in Nat /\ TickBelowSwitch'
      /\ forced' \in BOOLEAN /\ enabled' \in BOOLEAN
  <2>1. /\ forced' = FALSE /\ enabled' = enabled
        /\ tick' = IF tick + 1 = SwitchTicks THEN 0 ELSE tick + 1
    BY DEF HandleInterrupt, ForcedAfterTick
  <2>2. tick \in Nat /\ enabled \in BOOLEAN /\ tick < SwitchTicks
    BY <1>1 DEF TypeOK, TickBelowSwitch
  <2>3. tick' \in Nat /\ tick' < SwitchTicks
    BY <2>1, <2>2, SchedulerAssumption
  <2> QED
    BY <2>1, <2>2, <2>3 DEF TickBelowSwitch
<1>4. list \in Seq(Threads) /\ Listed \subseteq Threads
  BY <1>1 DEF TypeOK, Listed
<1>5. CASE /\ tick + 1 = SwitchTicks /\ Len(list) > 0 /\ enabled
           /\ Candidates(th) # {}
  <2>1. SwitchTo(next, gone, th)
    BY <1>5 DEF HandleInterrupt, Seen
  <2>2. /\ gone \subseteq Listed
        /\ \A t \in gone : th[t].state = "Stopped"
        /\ next \in Listed \ gone
    BY <1>5, ReapedAreStopped
  <2>3. /\ list' \in Seq(Threads)
        /\ Listed' = Listed \ gone
        /\ \A i, j \in 1 .. Len(list') : list'[i] = list'[j] => i = j
    <3>1. list' = Without(list, gone)
      BY <2>1 DEF SwitchTo
    <3>2. Once(list)
      BY <1>1 DEF CurrentIsRunning, Once
    <3> HIDE DEF gone
    <3>3. list' \in Seq(Threads) /\ Members(list') = Members(list) \ gone /\ Once(list')
      BY <3>1, <3>2, <1>4, WithoutKeeps
    <3> QED
      BY <3>3 DEF Members, Once, Listed
  <2> HIDE DEF th, next, gone
  <2>4. /\ cur' = next /\ cpu' = next /\ tss' = next
        /\ cr3' = IF next \in Users THEN next ELSE cr3
        /\ halted' = "no"
        /\ thr' = [t \in Threads |-> IF t \in gone THEN Absent ELSE th[t]]
    BY <2>1 DEF SwitchTo, Installs
  <2>5. thr' \in [Threads -> Thread]
    BY <2>4, <1>2, SchedulerAssumption DEF Absent, Thread, States
  <2> DEFINE saved == IF Saves(gone) THEN [frame EXCEPT ![cur] = IF intr THEN "on" ELSE "off"]
                      ELSE frame
  <2>6. intr' = (saved[next] = "on") /\ frame' = [saved EXCEPT ![next] = "stale"]
    BY <2>1 DEF SwitchTo
  <2>7. /\ saved \in [Threads -> {"on", "off", "stale"}]
        /\ \A t \in Listed \ gone : saved[t] # "stale"
    <3>1. CASE Saves(gone)
      BY <3>1, <1>1, <1>4 DEF Saves, TypeOK, CurrentIsRunning, FramesResumable
    <3>2. CASE ~Saves(gone)
      BY <3>2, <1>1, <1>4, SchedulerAssumption
         DEF Saves, TypeOK, CurrentIsRunning, FramesResumable
    <3> QED
      BY <3>1, <3>2
  <2> HIDE DEF saved
  <2>8. frame' \in [Threads -> {"on", "off", "stale"}] /\ intr' \in BOOLEAN
    BY <2>6, <2>7
  <2>9. TypeOK'
    BY <1>1, <1>3, <1>4, <2>2, <2>3, <2>4, <2>5, <2>8 DEF TypeOK, Contexts, Thread
  <2>10. CurrentIsRunning'
    <3>1. \A t \in Threads : t \in Listed' <=> thr'[t].state # "Absent"
      BY <1>1, <1>2, <2>2, <2>3, <2>4 DEF CurrentIsRunning, Absent
    <3> QED
      BY <3>1, <1>4, <2>2, <2>3, <2>4, SchedulerAssumption DEF CurrentIsRunning
  <2>11. FramesResumable'
    BY <1>4, <2>2, <2>3, <2>4, <2>6, <2>7 DEF FramesResumable
  <2>12. IdleReady'
    <3>1. \A t \in Immortal : thr'[t].state \in {"Absent", "Ready"} /\ t \notin gone
      BY <1>1, <1>2, <1>4, <2>2, <2>4, SchedulerAssumption DEF IdleReady, Absent
    <3>2. ASSUME NEW t \in Threads, thr'[t].state \in {"Blocked", "Stopped"}
          PROVE  thr[t].state \in {"Blocked", "Stopped"}
      BY <3>2, <1>2, <2>4 DEF Absent
    <3> QED
      BY <3>1, <3>2, <1>1, <2>3 DEF IdleReady
  <2>13. IdleThreadPreventsHalt'
    BY <2>4 DEF IdleThreadPreventsHalt
  <2> QED
    BY <1>3, <2>9, <2>10, <2>11, <2>12, <2>13 DEF IInv
<1>6. ASSUME /\ thr' = th
             /\ UNCHANGED <<list, cur, frame, cpu, intr, tss, cr3>>
             /\ halted' \in {"no", "spinning", "null"}
             /\ IdleThreadPreventsHalt'
      PROVE  IInv'
  <2> HIDE DEF th
  <2>1. Listed' = Listed
    BY <1>6 DEF Listed
  <2>2. TypeOK'
    BY <1>1, <1>2, <1>3, <1>6 DEF TypeOK, Thread
  <2>3. CurrentIsRunning'
    BY <1>1, <1>2, <1>6, <2>1 DEF CurrentIsRunning
  <2>4. FramesResumable'
    BY <1>1, <1>6, <2>1 DEF FramesResumable
  <2>5. IdleReady'
    BY <1>1, <1>2, <1>6, <2>1, SchedulerAssumption DEF IdleReady
  <2> QED
    BY <1>3, <1>6, <2>2, <2>3, <2>4, <2>5 DEF IInv
<1>7. CASE /\ tick + 1 = SwitchTicks /\ Len(list) > 0 /\ enabled
           /\ Candidates(th) = {}
  <2>1. NothingToRun(th)
    BY <1>7 DEF HandleInterrupt, Seen
  <2>2. \A t \in Listed : ~CanRun(t, th)
    BY <1>4, <1>7, ChosenCanRun
  <2>3. list[1] \in Listed
    BY <1>4, <1>7 DEF Listed
  <2> HIDE DEF th
  <2>4. \A t \in Listed : thr[t].state \in {"Blocked", "Stopped"}
    BY <1>1, <1>2, <1>4, <2>2 DEF CanRun, CurrentIsRunning, Thread, States
  <2>5. Immortal \subseteq Listed
    BY <1>1, <1>4, <2>3, <2>4 DEF IdleReady
  <2>6. Immortal = {}
    BY <1>1, <2>4, <2>5 DEF IdleReady
  <2> QED
    BY <1>6, <2>1, <2>6 DEF NothingToRun, IdleThreadPreventsHalt
<1>8. CASE ~(tick + 1 = SwitchTicks /\ Len(list) > 0 /\ enabled)
  <2>1. thr' = th /\ UNCHANGED <<list, cur, frame, cpu, intr, tss, cr3, halted>>
    BY <1>8 DEF HandleInterrupt, Seen
  <2> QED
    BY <1>6, <2>1 DEF IdleThreadPreventsHalt
<1> QED
  BY <1>5, <1>7, <1>8

PcType(f) == f \in [Contexts -> {"run", "force", "enable", "count", "int"}]

(* Steps that change the flags, the count or a program counter only.       *)
LEMMA QuietStepIInv ==
  ASSUME IInv, UNCHANGED <<list, cur, thr, frame, cpu, tss, cr3, halted>>,
         tick' \in Nat, tick' < SwitchTicks,
         forced' \in BOOLEAN, enabled' \in BOOLEAN, intr' \in BOOLEAN, PcType(pc')
  PROVE  IInv'
<1>1. Listed' = Listed
  BY DEF Listed
<1>2. TypeOK' /\ TickBelowSwitch'
  BY DEF IInv, TypeOK, TickBelowSwitch, PcType
<1>3. CurrentIsRunning' /\ FramesResumable'
  BY <1>1 DEF IInv, CurrentIsRunning, FramesResumable
<1>4. IdleReady' /\ IdleThreadPreventsHalt'
  BY <1>1 DEF IInv, IdleReady, IdleThreadPreventsHalt
<1> QED
  BY <1>2, <1>3, <1>4 DEF IInv

(* Steps that change the state of listed threads, and leave them listed.   *)
LEMMA StateStepIInv ==
  ASSUME IInv, UNCHANGED <<list, cur, switching, frame, hardware>>, PcType(pc'),
         thr' \in [Threads -> Thread],
         \A t \in Threads : thr'[t].state = "Absent" <=> thr[t].state = "Absent",
         IdleReady'
  PROVE  IInv'
<1>1. Listed' = Listed
  BY DEF Listed
<1>2. TypeOK' /\ TickBelowSwitch'
  BY DEF IInv, TypeOK, TickBelowSwitch, PcType, Thread, switching, hardware
<1>3. CurrentIsRunning' /\ FramesResumable'
  BY <1>1 DEF IInv, CurrentIsRunning, FramesResumable, hardware
<1>4. IdleThreadPreventsHalt'
  BY DEF IInv, IdleThreadPreventsHalt, hardware
<1> QED
  BY <1>2, <1>3, <1>4 DEF IInv

(* AddThread and AddUserThread put a new, ready thread into the list; the  *)
(* processor stays where it is or goes on with the new thread.             *)
LEMMA NewThreadIInv ==
  ASSUME IInv, NEW t \in Threads, Create(t), list' = Append(list, t),
         UNCHANGED <<tick, forced, halted>>, PcType(pc'),
         enabled' \in BOOLEAN, intr' \in BOOLEAN,
         \/ UNCHANGED <<cur, cpu, tss, cr3>> /\ frame' = [frame EXCEPT ![t] = "off"]
         \/ /\ cur' = t /\ cpu' = t /\ Installs(t) /\ cur = None
            /\ frame' = [frame EXCEPT ![t] = "stale"]
  PROVE  IInv'
<1>1. /\ TypeOK /\ TickBelowSwitch /\ CurrentIsRunning /\ FramesResumable
      /\ IdleReady /\ IdleThreadPreventsHalt
  BY DEF IInv
<1>2. list \in Seq(Threads) /\ Listed \subseteq Threads
  BY <1>1 DEF TypeOK, Listed
<1>3. /\ list' \in Seq(Threads) /\ Len(list') = Len(list) + 1
      /\ list'[Len(list) + 1] = t
      /\ \A i \in 1 .. Len(list) : list'[i] = list[i]
  BY <1>2
<1>4. Listed' = Listed \cup {t}
  BY <1>2, <1>3 DEF Listed
<1>5. t \notin Listed /\ thr[t].state = "Absent"
  BY <1>1 DEF Create, Absent, CurrentIsRunning
<1>6. /\ thr' \in [Threads -> Thread] /\ thr'[t].state = "Ready"
      /\ \A u \in Threads \ {t} : thr'[u] = thr[u]
  <2>1. thr \in [Threads -> Thread]
    BY <1>1 DEF TypeOK, Thread
  <2>2. [Absent EXCEPT !.state = "Ready"] \in Thread
    BY SchedulerAssumption DEF Absent, Thread, States
  <2> QED
    BY <2>1, <2>2 DEF Create, Absent
<1>7. TypeOK'
  <2>1. frame' \in [Threads -> {"on", "off", "stale"}]
    BY <1>1 DEF TypeOK
  <2>2. /\ cur' \in Threads \cup {None} /\ cpu' \in Contexts
        /\ tss' \in Threads \cup {None} /\ cr3' \in Users \cup {Boot}
    BY <1>1 DEF TypeOK, Installs, Contexts
  <2> QED
    BY <1>1, <1>3, <1>6, <2>1, <2>2 DEF TypeOK, Thread, PcType
<1>8. TickBelowSwitch' /\ IdleThreadPreventsHalt'
  BY <1>1 DEF TickBelowSwitch, IdleThreadPreventsHalt
<1>9. CurrentIsRunning'
  <2>1. cpu' = IF cur' = None THEN Boot ELSE cur'
    BY <1>1, SchedulerAssumption DEF CurrentIsRunning
  <2>2. cur' # None => cur' \in Listed'
    BY <1>1, <1>4 DEF CurrentIsRunning
  <2>3. \A u \in Threads : u \in Listed' <=> thr'[u].state # "Absent"
    BY <1>1, <1>4, <1>6 DEF CurrentIsRunning
  <2>4. \A i, j \in 1 .. Len(list') : list'[i] = list'[j] => i = j
    <3>1. \A i \in 1 .. Len(list) : list[i] # t
      BY <1>5 DEF Listed
    <3>2. \A i, j \in 1 .. Len(list) : list[i] = list[j] => i = j
      BY <1>1 DEF CurrentIsRunning
    <3> QED
      BY <1>2, <1>3, <3>1, <3>2
  <2> QED
    BY <2>1, <2>2, <2>3, <2>4 DEF CurrentIsRunning
<1>10. FramesResumable'
  <2>1. frame \in [Threads -> {"on", "off", "stale"}]
    BY <1>1 DEF TypeOK
  <2>2. t # cpu /\ (cur = None => cpu \notin Listed)
    BY <1>1, <1>2, <1>5, SchedulerAssumption DEF CurrentIsRunning
  <2> QED
    BY <1>1, <1>2, <1>4, <1>5, <2>1, <2>2 DEF FramesResumable
<1>11. IdleReady'
  <2>1. ASSUME NEW u \in Threads, thr'[u].state \in {"Blocked", "Stopped"}
        PROVE  thr[u].state \in {"Blocked", "Stopped"}
    BY <2>1, <1>6
  <2>2. \A u \in Immortal : thr'[u].state \in {"Absent", "Ready"}
    BY <1>1, <1>6, SchedulerAssumption DEF IdleReady
  <2> QED
    BY <2>1, <2>2, <1>1, <1>4 DEF IdleReady
<1> QED
  BY <1>7, <1>8, <1>9, <1>10, <1>11 DEF IInv

-----------------------------------------------------------------------------
(* IInv is inductive: every step of the handler and of the running context *)
(* keeps it.                                                               *)
LEMMA NextIInv == IInv /\ [Next]_vars => IInv'
<1> SUFFICES ASSUME IInv, [Next]_vars PROVE IInv'
  OBVIOUS
<1>1. /\ TypeOK /\ TickBelowSwitch /\ CurrentIsRunning /\ IdleReady
      /\ PcType(pc) /\ thr \in [Threads -> Thread]
      /\ tick \in Nat /\ tick < SwitchTicks
      /\ forced \in BOOLEAN /\ enabled \in BOOLEAN /\ intr \in BOOLEAN
      /\ list \in Seq(Threads) /\ Listed \subseteq Threads
      /\ cpu \in Contexts
  BY DEF IInv, TypeOK, TickBelowSwitch, PcType, Thread, Listed
<1>2. ASSUME NEW s \in {"run", "force", "enable", "count", "int"}
      PROVE  PcType([pc EXCEPT ![cpu] = s])
  BY <1>1 DEF PcType
<1>3. CASE Tick
  BY <1>1, <1>3, HandleInterruptIInv DEF Tick, PcType
<1>4. CASE Sti \/ Cli
  BY <1>1, <1>4, QuietStepIInv DEF Sti, Cli, switching
<1>5. ASSUME NEW t \in Threads, AddThread(t, TRUE) \/ AddThread(t, FALSE)
      PROVE  IInv'
  <2>1. PICK force \in BOOLEAN : AddThread(t, force)
    BY <1>5
  <2>2. PcType(pc')
    BY <2>1, <1>1 DEF AddThread, PcType, Contexts
  <2> QED
    BY <2>1, <2>2, <1>1, NewThreadIInv DEF AddThread, switching, hardware
<1>6. ASSUME NEW t \in Threads, AddUserThread(t)
      PROVE  IInv'
  <2>1. PcType(pc')
    BY <1>6, <1>1 DEF AddUserThread, PcType, Contexts
  <2>2. cur = None
    BY <1>6, <1>1, SchedulerAssumption DEF AddUserThread, CurrentIsRunning, TypeOK
  <2> QED
    BY <1>6, <2>1, <2>2, <1>1, NewThreadIInv DEF AddUserThread, InitialThreadUserJump
<1>7. CASE ForceSwitch \/ ForceSet \/ ForceEnable
  BY <1>1, <1>2, <1>7, QuietStepIInv
     DEF ForceSwitch, ForceSet, ForceEnable, Goto, switching, hardware
<1>8. CASE ForceCount
  <2>1. tick' \in Nat /\ tick' < SwitchTicks
    BY <1>8, SchedulerAssumption DEF ForceCount
  <2> QED
    BY <1>1, <1>2, <1>8, <2>1, QuietStepIInv DEF ForceCount, Goto, hardware
<1>9. CASE ForceInterrupt
  BY <1>2, <1>9, HandleInterruptIInv DEF ForceInterrupt, Runs, Goto, PcType
<1>10. ASSUME NEW t \in Threads, Unblock(t, TRUE) \/ Unblock(t, FALSE)
       PROVE  IInv'
  <2>1. PICK force \in BOOLEAN : Unblock(t, force)
    BY <1>10
  <2>2. thr' = [thr EXCEPT ![t].state = "Ready"] /\ thr[t].state = "Blocked"
    BY <2>1 DEF Unblock
  <2>3. /\ thr' \in [Threads -> Thread]
        /\ \A u \in Threads : thr'[u].state = IF u = t THEN "Ready" ELSE thr[u].state
    BY <1>1, <2>2 DEF Thread, States
  <2>4. IdleReady'
    <3>1. Listed' = Listed
      BY <2>1 DEF Unblock, Listed
    <3> QED
      BY <1>1, <2>2, <2>3, <3>1, SchedulerAssumption DEF IdleReady
  <2>5. PcType(pc')
    BY <1>2, <2>1 DEF Unblock, Goto
  <2> QED
    BY <2>1, <2>2, <2>3, <2>4, <2>5, StateStepIInv DEF Unblock
<1>11. ASSUME NEW reason \in {"SleepMS", "ReceiveIPC"}, NEW ticks \in 0 .. MaxSleep,
              Block(reason, ticks)
       PROVE  IInv'
  <2> DEFINE waiting == [state |-> "Blocked", blockedState |-> reason, timeDelta |-> ticks]
  <2>1. /\ thr' = [thr EXCEPT ![cpu] = waiting] /\ thr[cpu].state = "Ready"
        /\ cpu \in Threads \ Immortal /\ Immortal \subseteq Listed
    BY <1>11 DEF Block
  <2>2. waiting \in Thread /\ waiting.state = "Blocked"
    BY DEF Thread, States
  <2> HIDE DEF waiting
  <2>3. /\ thr' \in [Threads -> Thread]
        /\ \A u \in Threads : thr'[u].state = IF u = cpu THEN "Blocked" ELSE thr[u].state
    BY <1>1, <2>1, <2>2
  <2>4. IdleReady'
    <3>1. Listed' = Listed
      BY <1>11 DEF Block, Listed
    <3> QED
      BY <1>1, <2>1, <2>3, <3>1, SchedulerAssumption DEF IdleReady
  <2>5. PcType(pc')
    BY <1>2, <1>11 DEF Block, Goto
  <2> QED
    BY <1>11, <2>1, <2>3, <2>4, <2>5, StateStepIInv DEF Block
<1>12. ASSUME NEW t \in Threads, RemoveThread(t)
       PROVE  IInv'
  <2>1. /\ thr' = [thr EXCEPT ![t].state = "Stopped"] /\ t \in Listed \ Immortal
        /\ Immortal \subseteq Listed
    BY <1>12 DEF RemoveThread
  <2>2. /\ thr' \in [Threads -> Thread]
        /\ \A u \in Threads : thr'[u].state = IF u = t THEN "Stopped" ELSE thr[u].state
    BY <1>1, <2>1 DEF Thread, States
  <2>3. thr[t].state # "Absent"
    BY <1>1, <2>1 DEF CurrentIsRunning
  <2>4. IdleReady'
    <3>1. Listed' = Listed
      BY <1>12 DEF RemoveThread, Listed
    <3> QED
      BY <1>1, <2>1, <2>2, <3>1, SchedulerAssumption DEF IdleReady
  <2> QED
    BY <1>1, <1>12, <2>1, <2>2, <2>3, <2>4, StateStepIInv DEF RemoveThread
<1>13. CASE UNCHANGED vars
  BY <1>1, <1>13, QuietStepIInv DEF vars
<1>14. CASE Sleep \/ Wait
  BY <1>11, <1>14, SchedulerAssumption DEF Sleep, Wait
<1> QED
  BY <1>3, <1>4, <1>5, <1>6, <1>7, <1>8, <1>9, <1>10, <1>12, <1>13, <1>14 DEF Next

-----------------------------------------------------------------------------
(* The invariant that the results below rest on holds through every        *)
(* interleaving of threads, ticks and system calls.                        *)
THEOREM SchedulerInvariant == Spec => []IInv
BY InitIInv, NextIInv, PTL DEF Spec

(* The count of ticks never reaches the period outside the handler, so the *)
(* test for equality in HandleInterrupt fires once in every period.        *)
THEOREM TickStaysBelowSwitch == Spec => []TickBelowSwitch
<1>1. IInv => TickBelowSwitch
  BY DEF IInv
<1> QED
  BY <1>1, SchedulerInvariant, PTL

(* currentThread is the running thread and exists: HandleInterrupt never   *)
(* saves a context through a deleted thread.                               *)
THEOREM CurrentThreadRuns == Spec => []CurrentIsRunning
<1>1. IInv => CurrentIsRunning
  BY DEF IInv
<1> QED
  BY <1>1, SchedulerInvariant, PTL

(* Every listed thread that is not running can be resumed from its frame,  *)
(* and the running one has none: no switch restarts a thread from          *)
(* registers it has outrun.                                                *)
THEOREM FramesStayResumable == Spec => []FramesResumable
<1>1. IInv => FramesResumable
  BY DEF IInv
<1> QED
  BY <1>1, SchedulerInvariant, PTL

(* With one idle thread the search in GetNextReadyThread always ends.      *)
THEOREM IdleThreadKeepsKernelRunning == Spec => []IdleThreadPreventsHalt
<1>1. IInv => IdleThreadPreventsHalt
  BY DEF IInv
<1> QED
  BY <1>1, SchedulerInvariant, PTL

-----------------------------------------------------------------------------
(* switchForced is set only while the running context is behind the store  *)
(* of its own ForceSwitch: every switch away from there clears it.         *)
FlagInside == forced => InForceSwitch(cpu)

(* What each step does to the flag, to the processor and to the places in  *)
(* ForceSwitch.                                                            *)
LEMMA FlagStep ==
  ASSUME IInv, FlagInside, [Next]_vars
  PROVE  FlagInside'
<1>1. /\ pc \in [Contexts -> {"run", "force", "enable", "count", "int"}] /\ cpu \in Contexts
      /\ CurrentIsRunning
  BY DEF IInv, TypeOK
<1>2. CASE Tick \/ ForceInterrupt
  BY <1>2 DEF Tick, ForceInterrupt, HandleInterrupt, ForcedAfterTick, FlagInside
<1>3. CASE Sti \/ Cli \/ (\E t \in Threads : RemoveThread(t)) \/ UNCHANGED vars
  BY <1>3 DEF Sti, Cli, RemoveThread, switching, hardware, vars, FlagInside, InForceSwitch
<1>4. CASE ForceSet \/ ForceEnable \/ ForceCount
  BY <1>1, <1>4 DEF ForceSet, ForceEnable, ForceCount, Goto, hardware, FlagInside, InForceSwitch
<1>5. ASSUME Runs("run"), forced' = forced
      PROVE  FlagInside'
  BY <1>5 DEF Runs, FlagInside, InForceSwitch
<1>6. CASE \/ ForceSwitch \/ Sleep \/ Wait
           \/ \E t \in Threads : \/ AddThread(t, TRUE) \/ AddThread(t, FALSE) \/ AddUserThread(t)
                                 \/ Unblock(t, TRUE) \/ Unblock(t, FALSE)
  BY <1>5, <1>6 DEF ForceSwitch, Sleep, Wait, Block, AddThread, AddUserThread, Unblock, switching
<1> QED
  BY <1>2, <1>3, <1>4, <1>6 DEF Next

(* A call of the handler counts for the sleepers unless the flag is set.   *)
LEMMA HandlerCounts ==
  ASSUME IInv, HandleInterrupt, NEW t \in Threads, Sleeping(t)
  PROVE  thr'[t].timeDelta < thr[t].timeDelta <=> ~forced
<1>1. thr \in [Threads -> Thread] /\ list \in Seq(Threads) /\ TypeOK /\ CurrentIsRunning
  BY DEF IInv, TypeOK, Thread
<1>2. Seen[t].timeDelta = IF forced THEN thr[t].timeDelta ELSE thr[t].timeDelta - 1
  BY <1>1 DEF Seen, ProcessSleepingThreads, Woken, Sleeping
<1>3. Seen[t].state # "Stopped"
  BY <1>1 DEF Seen, ProcessSleepingThreads, Woken, Sleeping
<1>4. thr'[t] = Seen[t]
  <2>1. CASE thr' = Seen
    BY <2>1
  <2>2. CASE Len(list) > 0 /\ Candidates(Seen) # {}
              /\ SwitchTo(At(Chosen(Seen)), Reaped(Seen), Seen)
    <3>1. t \notin Reaped(Seen)
      BY <1>1, <1>3, <2>2, ReapedAreStopped
    <3> QED
      BY <2>2, <3>1 DEF SwitchTo
  <2> QED
    BY <2>1, <2>2 DEF HandleInterrupt, NothingToRun, Seen
<1>5. thr[t].timeDelta \in Nat
  BY <1>1, SchedulerAssumption DEF Thread
<1> QED
  BY <1>2, <1>4, <1>5

(* Each step, timer tick or not, settles with the sleepers.                *)
LEMMA SleepersStep ==
  ASSUME IInv, FlagInside, Next, NEW t \in Threads, Sleeping(t)
  PROVE  thr'[t].timeDelta < thr[t].timeDelta
           <=> IF TimerTicks THEN cpu \notin Owing' \ Owing ELSE cpu \in Owing \ Owing'
<1>1. /\ pc \in [Contexts -> {"run", "force", "enable", "count", "int"}] /\ cpu \in Contexts
      /\ CurrentIsRunning /\ tick \in Nat /\ tick < SwitchTicks /\ forced \in BOOLEAN
      /\ thr \in [Threads -> Thread] /\ thr[t].timeDelta \in Nat
  BY SchedulerAssumption DEF IInv, TypeOK, TickBelowSwitch, Thread
<1>2. CASE Tick
  <2>1. /\ tick' # tick /\ forced' = FALSE
    BY <1>1, <1>2, SchedulerAssumption DEF Tick, HandleInterrupt, ForcedAfterTick
  <2>2. TimerTicks
    BY <1>2, <2>1 DEF Tick, TimerTicks
  <2>3. thr'[t].timeDelta < thr[t].timeDelta <=> ~forced
    BY <1>2, HandlerCounts DEF Tick
  <2>4. cpu \in Owing' \ Owing <=> forced
    BY <1>1, <1>2, <2>1 DEF Tick, Owing, InForceSwitch, FlagInside
  <2> QED
    BY <2>2, <2>3, <2>4
<1>3. CASE ForceInterrupt
  <2>1. /\ pc[cpu] = "int" /\ pc'[cpu] = "run" /\ HandleInterrupt
    BY <1>1, <1>3 DEF ForceInterrupt, Runs, Goto
  <2>2. ~TimerTicks
    BY <2>1 DEF TimerTicks
  <2>3. thr'[t].timeDelta < thr[t].timeDelta <=> ~forced
    BY <2>1, HandlerCounts
  <2>4. cpu \in Owing \ Owing' <=> ~forced
    BY <1>1, <2>1 DEF Owing, InForceSwitch
  <2> QED
    BY <2>2, <2>3, <2>4
<1>4. ASSUME ~TimerTicks, thr'[t].timeDelta = thr[t].timeDelta, cpu \notin Owing \ Owing'
      PROVE  thr'[t].timeDelta < thr[t].timeDelta
               <=> IF TimerTicks THEN cpu \notin Owing' \ Owing ELSE cpu \in Owing \ Owing'
  BY <1>1, <1>4
<1>5. CASE ForceSet \/ ForceEnable \/ ForceCount
  <2>1. thr' = thr /\ cpu' = cpu
    BY <1>5 DEF ForceSet, ForceEnable, ForceCount, hardware
  <2>2. pc[cpu] # pc'[cpu] /\ InForceSwitch(cpu)'
    BY <1>1, <1>5, <2>1 DEF ForceSet, ForceEnable, ForceCount, Runs, Goto, InForceSwitch
  <2>3. cpu \in Owing => ~forced'
    BY <1>1, <1>5 DEF ForceSet, ForceEnable, ForceCount, Runs, Owing, InForceSwitch
  <2> QED
    BY <1>1, <1>4, <2>1, <2>2, <2>3 DEF TimerTicks, Owing
<1>6. ASSUME Runs("run"), tick' = tick, thr'[t].timeDelta = thr[t].timeDelta
      PROVE  thr'[t].timeDelta < thr[t].timeDelta
               <=> IF TimerTicks THEN cpu \notin Owing' \ Owing ELSE cpu \in Owing \ Owing'
  BY <1>4, <1>6 DEF Runs, TimerTicks, Owing, InForceSwitch
<1>7. CASE Sti \/ Cli \/ ForceSwitch
  BY <1>6, <1>7 DEF Sti, Cli, ForceSwitch, switching
<1>8. ASSUME NEW u \in Threads, \/ AddThread(u, TRUE) \/ AddThread(u, FALSE) \/ AddUserThread(u)
      PROVE  thr'[t].timeDelta = thr[t].timeDelta /\ tick' = tick /\ Runs("run")
  <2>1. Create(u) /\ tick' = tick /\ Runs("run")
    BY <1>8 DEF AddThread, AddUserThread, switching
  <2>2. u # t
    BY <2>1 DEF Create, Sleeping, Absent
  <2> QED
    BY <1>1, <2>1, <2>2 DEF Create
<1>9. ASSUME NEW u \in Threads,
             \/ Unblock(u, TRUE) \/ Unblock(u, FALSE) \/ RemoveThread(u)
      PROVE  thr'[t].timeDelta = thr[t].timeDelta /\ tick' = tick /\ Runs("run")
  <2>1. /\ tick' = tick /\ Runs("run")
        /\ \E s \in {"Ready", "Stopped"} : thr' = [thr EXCEPT ![u].state = s]
    BY <1>9 DEF Unblock, RemoveThread, switching
  <2> QED
    BY <1>1, <2>1 DEF Thread
<1>10. ASSUME NEW reason, NEW ticks, Block(reason, ticks)
       PROVE  thr'[t].timeDelta = thr[t].timeDelta /\ tick' = tick /\ Runs("run")
  <2>1. /\ tick' = tick /\ Runs("run") /\ thr[cpu].state = "Ready"
        /\ thr' = [thr EXCEPT ![cpu] = [state |-> "Blocked", blockedState |-> reason,
                                        timeDelta |-> ticks]]
    BY <1>10 DEF Block, switching
  <2>2. cpu # t
    BY <2>1 DEF Sleeping
  <2> QED
    BY <1>1, <2>1, <2>2
<1>11. CASE Sleep \/ Wait
  BY <1>6, <1>10, <1>11 DEF Sleep, Wait
<1> QED
  BY <1>2, <1>3, <1>5, <1>6, <1>7, <1>8, <1>9, <1>11 DEF Next

(* Through every interleaving of ticks with the stores of ForceSwitch and  *)
(* with switches out of the middle of it, each tick of the timer counts    *)
(* for the sleepers once, at the tick or when the interrupted ForceSwitch  *)
(* gets to its int $0x20, and nothing else does.                           *)
THEOREM EveryTickReachesSleepers == Spec => SleepersGetEveryTick
<1>1. Init => FlagInside
  BY DEF Init, FlagInside
<1>2. IInv /\ FlagInside /\ [Next]_vars => FlagInside'
  BY FlagStep
<1>3. Spec => []FlagInside
  BY <1>1, <1>2, SchedulerInvariant, PTL DEF Spec
<1>4. IInv /\ FlagInside /\ [Next]_vars =>
        [ \A t \in Threads : Sleeping(t) =>
            (thr'[t].timeDelta < thr[t].timeDelta
               <=> IF TimerTicks THEN cpu \notin Owing' \ Owing ELSE cpu \in Owing \ Owing')
        ]_vars
  BY SleepersStep
<1> QED
  BY <1>3, <1>4, SchedulerInvariant, PTL DEF Spec, SleepersGetEveryTick

-----------------------------------------------------------------------------
(* The steps of the recursion in Without.                                  *)
LEMMA WithoutIs ==
  ASSUME NEW E, NEW l \in Seq(E), NEW gone
  PROVE  \E k : /\ Without(l, gone) = k[Len(l)] /\ k[0] = <<>>
                /\ \A i \in 1 .. Len(l) :
                     k[i] = IF l[i] \in gone THEN k[i - 1] ELSE Append(k[i - 1], l[i])
<1> DEFINE N == Len(l)
           k == CHOOSE f : Keeps(f, l, gone, N)
<1>1. N \in Nat
  OBVIOUS
<1>2. Keeps(k, l, gone, N)
  BY <1>1, KeepsExists
<1>3. Without(l, gone) = k[N]
  BY Zenon DEF Without, Keeps
<1> HIDE DEF k
<1>4. k[0] = <<>>
  BY <1>1, <1>2 DEF Keeps
<1>5. ASSUME NEW i \in 1 .. N
      PROVE  k[i] = IF l[i] \in gone THEN k[i - 1] ELSE Append(k[i - 1], l[i])
  <2>1. i \in 0 .. N /\ i # 0
    BY <1>1
  <2> QED BY <2>1, <1>2 DEF Keeps
<1> QED BY <1>3, <1>4, <1>5

(* A list that holds none of the threads to remove stays what it is.       *)
LEMMA WithoutNone ==
  ASSUME NEW E, NEW l \in Seq(E), NEW gone, \A i \in 1 .. Len(l) : l[i] \notin gone
  PROVE  Without(l, gone) = l
<1> DEFINE N == Len(l)
<1>0. N \in Nat /\ \A i \in 1 .. N : l[i] \in E
  OBVIOUS
<1>1. PICK k : /\ Without(l, gone) = k[N] /\ k[0] = <<>>
               /\ \A i \in 1 .. N :
                    k[i] = IF l[i] \in gone THEN k[i - 1] ELSE Append(k[i - 1], l[i])
  BY WithoutIs
<1> DEFINE Good(n) == k[n] \in Seq(E) /\ Len(k[n]) = n /\ \A j \in 1 .. n : k[n][j] = l[j]
           Bad == {n \in 0 .. N : ~Good(n)}
<1>2. Good(0)
  BY <1>1
<1>3. Bad = {}
  <2> SUFFICES ASSUME Bad # {} PROVE FALSE
    OBVIOUS
  <2>1. PICK n \in Bad : \A m \in Bad : n <= m
    <3>1. Bad \subseteq Nat
      BY <1>0
    <3> HIDE DEF Bad
    <3> QED BY <3>1, LeastNat
  <2>2. n \in 1 .. N /\ Good(n - 1) /\ n - 1 \in Nat /\ (n - 1) + 1 = n
    <3> HIDE DEF Good, N
    <3>1. n \in 1 .. N
      BY <1>0, <1>2, <2>1
    <3> QED BY <3>1, <2>1, <1>0
  <2> DEFINE s == k[n - 1]
             e == l[n]
  <2>3. k[n] = Append(s, e) /\ e \in E
    BY <1>0, <1>1, <2>2
  <2>4. s \in Seq(E) /\ Len(s) = n - 1 /\ \A j \in 1 .. (n - 1) : s[j] = l[j]
    BY <2>2
  <2> HIDE DEF s, e, N
  <2>5. /\ k[n] \in Seq(E) /\ Len(k[n]) = n
        /\ \A j \in 1 .. (n - 1) : k[n][j] = s[j]
        /\ k[n][n] = e
    <3>1. /\ Append(s, e) \in Seq(E) /\ Len(Append(s, e)) = (n - 1) + 1
          /\ \A j \in 1 .. (n - 1) : Append(s, e)[j] = s[j]
          /\ Append(s, e)[(n - 1) + 1] = e
      BY <2>2, <2>3, <2>4, OneMore
    <3> QED BY <3>1, <2>2, <2>3
  <2>6. ASSUME NEW j \in 1 .. n PROVE k[n][j] = l[j]
    <3>1. j = n \/ j \in 1 .. (n - 1)
      BY <2>2
    <3> QED BY <3>1, <2>4, <2>5 DEF e
  <2> QED BY <2>1, <2>5, <2>6
<1>4. Good(N)
  <2>1. N \in 0 .. N
    BY <1>0
  <2> HIDE DEF Good, N
  <2> QED BY <2>1, <1>3
<1> QED BY <1>1, <1>4, SeqEqual

(* A list without the one thread at p: those behind it move up.            *)
LEMMA WithoutOne ==
  ASSUME NEW E, NEW l \in Seq(E), Once(l), NEW p \in 1 .. Len(l)
  PROVE  LET m == Without(l, {l[p]})
         IN /\ m \in Seq(E) /\ Len(m) = Len(l) - 1
            /\ \A i \in 1 .. (Len(l) - 1) : m[i] = IF i < p THEN l[i] ELSE l[i + 1]
<1> DEFINE N == Len(l)
           gone == {l[p]}
<1>0. N \in Nat /\ \A i \in 1 .. N : l[i] \in E /\ (l[i] \in gone <=> i = p)
  BY DEF Once
<1>1. PICK k : /\ Without(l, gone) = k[N] /\ k[0] = <<>>
               /\ \A i \in 1 .. N :
                    k[i] = IF l[i] \in gone THEN k[i - 1] ELSE Append(k[i - 1], l[i])
  BY WithoutIs
<1> HIDE DEF gone
<1> DEFINE L(n) == IF n < p THEN n ELSE n - 1
           Good(n) == /\ k[n] \in Seq(E) /\ Len(k[n]) = L(n)
                      /\ \A j \in 1 .. L(n) : k[n][j] = IF j < p THEN l[j] ELSE l[j + 1]
           Bad == {n \in 0 .. N : ~Good(n)}
<1>2. Good(0)
  BY <1>1
<1>3. Bad = {}
  <2> SUFFICES ASSUME Bad # {} PROVE FALSE
    OBVIOUS
  <2>1. PICK n \in Bad : \A m \in Bad : n <= m
    <3>1. Bad \subseteq Nat
      BY <1>0
    <3> HIDE DEF Bad
    <3> QED BY <3>1, LeastNat
  <2>2. n \in 1 .. N /\ Good(n - 1) /\ n - 1 \in Nat
    <3> HIDE DEF Good, N
    <3>1. n \in 1 .. N
      BY <1>0, <1>2, <2>1
    <3> QED BY <3>1, <2>1, <1>0
  <2> DEFINE s == k[n - 1]
             e == l[n]
             a == L(n - 1)
  <2>3. /\ s \in Seq(E) /\ Len(s) = a /\ e \in E
        /\ \A j \in 1 .. a : s[j] = IF j < p THEN l[j] ELSE l[j + 1]
    BY <2>2, <1>0
  <2>4. a \in Nat
    BY <2>2
  <2>5. CASE n = p
    <3>1. k[n] = s
      BY <2>2, <2>5, <1>0, <1>1
    <3>2. L(n) = a
      BY <2>2, <2>5
    <3> HIDE DEF s, L
    <3> QED BY <3>1, <3>2, <2>1, <2>3
  <2>6. CASE n # p
    <3>1. k[n] = Append(s, e)
      BY <2>2, <2>6, <1>0, <1>1
    <3>2. L(n) = a + 1
      BY <2>2, <2>6
    <3>3. e = IF a + 1 < p THEN l[a + 1] ELSE l[(a + 1) + 1]
      BY <2>2, <2>6
    <3> HIDE DEF s, e, a, L
    <3>4. /\ k[n] \in Seq(E) /\ Len(k[n]) = a + 1
          /\ \A j \in 1 .. a : k[n][j] = s[j]
          /\ k[n][a + 1] = e
      BY <3>1, <2>3, <2>4, OneMore
    <3>5. ASSUME NEW j \in 1 .. (a + 1)
          PROVE  k[n][j] = IF j < p THEN l[j] ELSE l[j + 1]
      <4>1. j = a + 1 \/ j \in 1 .. a
        BY <2>4
      <4> QED BY <4>1, <3>3, <3>4, <2>3
    <3> QED BY <3>2, <3>4, <3>5, <2>1
  <2> QED BY <2>5, <2>6
<1>4. Good(N)
  <2>1. N \in 0 .. N
    BY <1>0
  <2> HIDE DEF Good, N
  <2> QED BY <2>1, <1>3
<1>5. L(N) = Len(l) - 1
  BY <1>0
<1> QED BY <1>1, <1>4, <1>5 DEF gone

(* Removing one thread first makes no difference to removing several.      *)
LEMMA WithoutTwice ==
  ASSUME NEW E, NEW l \in Seq(E), Once(l), NEW p \in 1 .. Len(l), NEW gone, l[p] \in gone
  PROVE  Without(Without(l, {l[p]}), gone) = Without(l, gone)
<1> DEFINE N == Len(l)
           m == Without(l, {l[p]})
<1>0. N \in Nat
  OBVIOUS
<1>1. /\ m \in Seq(E) /\ Len(m) = N - 1
      /\ \A i \in 1 .. (N - 1) : m[i] = IF i < p THEN l[i] ELSE l[i + 1]
  BY WithoutOne
<1>2. PICK k : /\ Without(l, gone) = k[N] /\ k[0] = <<>>
               /\ \A i \in 1 .. N :
                    k[i] = IF l[i] \in gone THEN k[i - 1] ELSE Append(k[i - 1], l[i])
  BY WithoutIs
<1> HIDE DEF m
<1>3. PICK h : /\ Without(m, gone) = h[N - 1] /\ h[0] = <<>>
               /\ \A i \in 1 .. (N - 1) :
                    h[i] = IF m[i] \in gone THEN h[i - 1] ELSE Append(h[i - 1], m[i])
  BY <1>1, WithoutIs
<1> DEFINE Good(n) == k[n] = h[IF n < p THEN n ELSE n - 1]
           Bad == {n \in 0 .. N : ~Good(n)}
<1>4. Good(0)
  BY <1>2, <1>3
<1>5. Bad = {}
  <2> SUFFICES ASSUME Bad # {} PROVE FALSE
    OBVIOUS
  <2>1. PICK n \in Bad : \A j \in Bad : n <= j
    <3>1. Bad \subseteq Nat
      BY <1>0
    <3> HIDE DEF Bad
    <3> QED BY <3>1, LeastNat
  <2>2. n \in 1 .. N /\ Good(n - 1) /\ n - 1 \in Nat
    <3> HIDE DEF Good, N
    <3>1. n \in 1 .. N
      BY <1>0, <1>4, <2>1
    <3> QED BY <3>1, <2>1, <1>0
  <2>3. k[n] = IF l[n] \in gone THEN k[n - 1] ELSE Append(k[n - 1], l[n])
    BY <1>2, <2>2
  <2>4. CASE n < p
    <3>1. n \in 1 .. (N - 1) /\ m[n] = l[n] /\ k[n - 1] = h[n - 1]
      BY <2>2, <2>4, <1>1
    <3>2. h[n] = IF m[n] \in gone THEN h[n - 1] ELSE Append(h[n - 1], m[n])
      BY <3>1, <1>3
    <3>3. k[n] = h[n]
      BY <3>1, <3>2, <2>3
    <3> QED BY <3>3, <2>4, <2>1
  <2>5. CASE n = p
    <3>1. k[n] = k[n - 1] /\ k[n - 1] = h[n - 1]
      BY <2>2, <2>3, <2>5
    <3> QED BY <3>1, <2>1, <2>5
  <2>6. CASE n > p
    <3>1. /\ n - 1 \in 1 .. (N - 1) /\ m[n - 1] = l[n] /\ k[n - 1] = h[(n - 1) - 1]
      BY <2>2, <2>6, <1>1
    <3>2. h[n - 1] = IF m[n - 1] \in gone THEN h[(n - 1) - 1]
                     ELSE Append(h[(n - 1) - 1], m[n - 1])
      BY <3>1, <1>3
    <3>3. k[n] = h[n - 1]
      BY <3>1, <3>2, <2>3
    <3> QED BY <3>3, <2>1, <2>6, <2>2
  <2> QED BY <2>2, <2>4, <2>5, <2>6
<1>6. Good(N)
  <2>1. N \in 0 .. N
    BY <1>0
  <2> HIDE DEF Good, N
  <2> QED BY <2>1, <1>5
<1>7. k[N] = h[N - 1]
  BY <1>6, <1>0
<1> QED BY <1>2, <1>3, <1>7 DEF m

(* The position behind which GetNextReadyThread starts, and the k-th one   *)
(* it comes to.                                                            *)
Here(l) == IF cur # None THEN IndexOf(l, cur) ELSE 1

Place(l, k) == IF Here(l) + 1 + k <= Len(l) THEN Here(l) + 1 + k
               ELSE Here(l) + 1 + k - Len(l)

Wrapped(l, i) == IF i > Len(l) THEN 1 ELSE i

(* f holds the first n + 1 values of currentThreadIndex.                   *)
Walks(f, l, n) ==
  f = [k \in 0 .. n |->
         IF k = 0 THEN Wrapped(l, Here(l) + 1)
         ELSE IF thr[l[f[k - 1]]].state = "Blocked" THEN Wrapped(l, f[k - 1] + 1)
         ELSE f[k - 1]]

(* Such an f exists.                                                       *)
LEMMA WalksExist ==
  ASSUME NEW l, NEW N \in Nat
  PROVE  \E f : Walks(f, l, N)
<1> DEFINE Bad == {n \in 0 .. N : ~ \E f : Walks(f, l, n)}
<1>1. SUFFICES ASSUME Bad # {} PROVE FALSE
  OBVIOUS
<1>2. PICK n \in Bad : \A m \in Bad : n <= m
  <2>1. Bad \subseteq Nat
    OBVIOUS
  <2> HIDE DEF Bad
  <2> QED BY <1>1, <2>1, LeastNat
<1>3. Walks([k \in 0 .. 0 |-> Wrapped(l, Here(l) + 1)], l, 0)
  BY DEF Walks
<1>4. n \in Nat \ {0} /\ n - 1 \in (0 .. N) \ Bad
  BY <1>2, <1>3
<1>5. PICK f : Walks(f, l, n - 1)
  BY <1>4
<1> DEFINE Step(i) == IF thr[l[i]].state = "Blocked" THEN Wrapped(l, i + 1) ELSE i
           g == [k \in 0 .. n |-> IF k = n THEN Step(f[n - 1]) ELSE f[k]]
<1>6. Walks(g, l, n)
  <2>1. ASSUME NEW k \in 0 .. n
        PROVE  g[k] = IF k = 0 THEN Wrapped(l, Here(l) + 1) ELSE Step(g[k - 1])
    <3>1. CASE k = n
      <4>1. g[n] = Step(f[n - 1]) /\ g[n - 1] = f[n - 1]
        BY <1>4
      <4> HIDE DEF g, Step
      <4> QED BY <3>1, <4>1, <1>4
    <3>2. CASE k # n
      <4>1. /\ k \in 0 .. (n - 1) /\ g[k] = f[k]
            /\ k # 0 => k - 1 \in 0 .. (n - 1) /\ g[k - 1] = f[k - 1]
        BY <3>2, <1>4
      <4>2. f[k] = IF k = 0 THEN Wrapped(l, Here(l) + 1) ELSE Step(f[k - 1])
        BY <4>1, <1>5 DEF Walks
      <4> HIDE DEF g, Step
      <4> QED BY <4>1, <4>2
    <3> QED BY <3>1, <3>2
  <2>2. g = [k \in 0 .. n |-> g[k]]
    OBVIOUS
  <2> HIDE DEF g
  <2> QED BY <2>1, <2>2 DEF Walks
<1> QED BY <1>2, <1>6

(* Walking on wraps round once.                                            *)
LEMMA PlaceNext ==
  ASSUME NEW l, Len(l) \in Nat, Here(l) \in 1 .. Len(l), NEW k \in 0 .. (Len(l) - 1)
  PROVE  /\ Place(l, k) \in 1 .. Len(l) /\ Place(l, 0) = Wrapped(l, Here(l) + 1)
         /\ k + 1 <= Len(l) - 1 => Place(l, k + 1) = Wrapped(l, Place(l, k) + 1)
         /\ Place(l, k) = Here(l) <=> k = Len(l) - 1
<1> DEFINE n == Len(l)
           h == Here(l)
<1>1. n \in Nat /\ h \in 1 .. n /\ k \in 0 .. (n - 1)
  OBVIOUS
<1>2. /\ Place(l, k) = IF h + 1 + k <= n THEN h + 1 + k ELSE h + 1 + k - n
      /\ Place(l, k + 1) = IF h + 1 + (k + 1) <= n THEN h + 1 + (k + 1) ELSE h + 1 + (k + 1) - n
      /\ Place(l, 0) = IF h + 1 + 0 <= n THEN h + 1 + 0 ELSE h + 1 + 0 - n
      /\ \A i : Wrapped(l, i) = IF i > n THEN 1 ELSE i
  BY DEF Place, Wrapped
<1> HIDE DEF n, h
<1>3. Place(l, k) \in 1 .. n /\ Place(l, 0) = Wrapped(l, h + 1)
  BY <1>1, <1>2
<1>4. k + 1 <= n - 1 => Place(l, k + 1) = Wrapped(l, Place(l, k) + 1)
  BY <1>1, <1>2
<1>5. Place(l, k) = h <=> k = n - 1
  BY <1>1, <1>2
<1> QED BY <1>3, <1>4, <1>5 DEF n, h

(* GetNextReadyThread passes the blocked threads and stops at the first    *)
(* that is not.                                                            *)
LEMMA WalkReaches ==
  ASSUME NEW l, Len(l) \in Nat, Here(l) \in 1 .. Len(l), NEW d \in 0 .. (Len(l) - 1),
         thr[l[Place(l, d)]].state # "Blocked",
         \A j \in 0 .. (d - 1) : thr[l[Place(l, j)]].state = "Blocked"
  PROVE  GetNextReadyThread(l) = l[Place(l, d)]
<1> DEFINE N == Len(l)
           f == CHOOSE g : Walks(g, l, N)
<1>1. N \in Nat /\ d \in 0 .. (N - 1)
  OBVIOUS
<1>2. Walks(f, l, N)
  BY <1>1, WalksExist
<1>3. GetNextReadyThread(l) = l[f[N]]
  BY Zenon DEF GetNextReadyThread, Walks, Wrapped, Here
<1> HIDE DEF f
<1>4. f[0] = Wrapped(l, Here(l) + 1)
  BY <1>1, <1>2 DEF Walks
<1>5. ASSUME NEW k \in 1 .. N
      PROVE  f[k] = IF thr[l[f[k - 1]]].state = "Blocked" THEN Wrapped(l, f[k - 1] + 1)
                    ELSE f[k - 1]
  <2>1. k \in 0 .. N /\ k # 0
    BY <1>1
  <2> QED BY <2>1, <1>2 DEF Walks
<1> DEFINE Least(k) == IF k < d THEN k ELSE d
           Good(k) == f[k] = Place(l, Least(k))
           Bad == {k \in 0 .. N : ~Good(k)}
<1>6. Good(0)
  <2>1. Least(0) = 0
    BY <1>1
  <2>2. Place(l, 0) = Wrapped(l, Here(l) + 1)
    BY <1>1, PlaceNext
  <2> HIDE DEF Least
  <2> QED BY <2>1, <2>2, <1>4
<1>7. Bad = {}
  <2> SUFFICES ASSUME Bad # {} PROVE FALSE
    OBVIOUS
  <2>1. PICK k \in Bad : \A j \in Bad : k <= j
    <3>1. Bad \subseteq Nat
      BY <1>1
    <3> HIDE DEF Bad
    <3> QED BY <3>1, LeastNat
  <2>2. k \in 1 .. N /\ Good(k - 1) /\ k - 1 \in Nat
    <3> HIDE DEF Good, N
    <3>1. k \in 1 .. N
      BY <1>1, <1>6, <2>1
    <3> QED BY <3>1, <2>1, <1>1
  <2>3. CASE k - 1 < d
    <3>1. Least(k - 1) = k - 1 /\ Least(k) = (k - 1) + 1 /\ k - 1 \in 0 .. (d - 1)
          /\ k - 1 \in 0 .. (N - 1) /\ (k - 1) + 1 <= N - 1
      BY <2>2, <2>3, <1>1
    <3>2. f[k - 1] = Place(l, k - 1)
      BY <2>2, <3>1
    <3>3. f[k] = Wrapped(l, Place(l, k - 1) + 1)
      BY <3>1, <3>2, <2>2, <1>5
    <3>4. Place(l, (k - 1) + 1) = Wrapped(l, Place(l, k - 1) + 1)
      BY <3>1, PlaceNext
    <3>5. f[k] = Place(l, Least(k))
      BY <3>1, <3>3, <3>4
    <3> QED BY <3>5, <2>1
  <2>4. CASE ~(k - 1 < d)
    <3>1. Least(k - 1) = d /\ Least(k) = d
      BY <2>2, <2>4, <1>1
    <3>2. f[k - 1] = Place(l, d)
      BY <2>2, <3>1
    <3>3. f[k] = Place(l, d)
      BY <3>2, <2>2, <1>5
    <3> QED BY <3>1, <3>3, <2>1
  <2> QED BY <2>3, <2>4
<1>8. f[N] = Place(l, d)
  <2>1. N \in 0 .. N /\ Least(N) = d
    BY <1>1
  <2>2. Good(N)
    <3> HIDE DEF Good, N
    <3> QED BY <2>1, <1>7
  <2> QED BY <2>1, <2>2
<1> QED BY <1>3, <1>8

(* The order in which At runs through the list is that of the walk.        *)
LEMMA AtIsPlace ==
  ASSUME list \in Seq(Threads), Len(list) > 0, cur # None => cur \in Listed,
         NEW k \in 0 .. (Len(list) - 1)
  PROVE  Here(list) \in 1 .. Len(list) /\ At(k) = list[Place(list, k)]
<1> DEFINE n == Len(list)
           h == Here(list)
<1>1. n \in Nat \ {0} /\ k \in 0 .. (n - 1)
  OBVIOUS
<1>2. h \in 1 .. n /\ Start = (IF h + 1 > n THEN 1 ELSE h + 1)
  <2>1. CASE cur = None
    BY <2>1, <1>1 DEF Here, Start
  <2>2. CASE cur # None
    <3>1. \E j \in 1 .. n : list[j] = cur
      BY <2>2 DEF Listed
    <3> DEFINE j == CHOOSE i \in 1 .. Len(list) : list[i] = cur
    <3>2. j \in 1 .. n /\ h = j
      BY <3>1, <2>2 DEF Here, IndexOf
    <3>3. Start = IF 1 + j > n THEN 1 ELSE 1 + j
      BY <2>2 DEF Start
    <3> HIDE DEF j, n, h
    <3> QED BY <3>2, <3>3, <1>1
  <2> QED BY <2>1, <2>2
<1>3. Place(list, k) = IF h + 1 + k <= n THEN h + 1 + k ELSE h + 1 + k - n
  BY DEF Place
<1>4. At(k) = list[((Start - 1 + k) % n) + 1]
  BY DEF At
<1> HIDE DEF n, h
<1> DEFINE a == Start - 1 + k
<1>5. a \in 0 .. (2 * n - 1) /\ Start \in 1 .. n
  BY <1>1, <1>2
<1>6. a % n = IF a < n THEN a ELSE a - n
  <2> HIDE DEF a
  <2> QED BY <1>1, <1>5, WrapOnce
<1>7. (IF a < n THEN a ELSE a - n) + 1 = Place(list, k)
  BY <1>1, <1>2, <1>3
<1> QED BY <1>2, <1>4, <1>6, <1>7 DEF n, h

(* The walk in a list that has lost the d-th thread it comes to: the same  *)
(* threads in the same order.                                              *)
LEMMA RemovalShifts ==
  ASSUME NEW l \in Seq(Threads), Once(l), Here(l) \in 1 .. Len(l), cur # None => l[Here(l)] = cur,
         NEW d \in 0 .. (Len(l) - 2), NEW m, m = Without(l, {l[Place(l, d)]})
  PROVE  /\ m \in Seq(Threads) /\ Once(m) /\ Len(m) = Len(l) - 1
         /\ Here(m) \in 1 .. Len(m) /\ (cur # None => m[Here(m)] = cur)
         /\ \A i \in 1 .. Len(m) : m[i] \in Members(l)
         /\ \A j \in 0 .. (Len(m) - 1) :
              m[Place(m, j)] = l[Place(l, IF j < d THEN j ELSE j + 1)]
<1> DEFINE n == Len(l)
           h == Here(l)
           p == Place(l, d)
           c == IF p < h THEN h - 1 ELSE h
<1>1. n \in Nat /\ h \in 1 .. n /\ d \in 0 .. (n - 2) /\ d \in 0 .. (n - 1)
  OBVIOUS
<1>2. p \in 1 .. n /\ p # h
  <2>1. d # Len(l) - 1
    BY <1>1
  <2> QED BY <2>1, <1>1, PlaceNext
<1>3. /\ m \in Seq(Threads) /\ Len(m) = n - 1
      /\ \A i \in 1 .. (n - 1) : m[i] = IF i < p THEN l[i] ELSE l[i + 1]
  BY <1>2, WithoutOne
<1>4. Once(m)
  BY WithoutKeeps
<1>5. \A k : Place(l, k) = IF h + 1 + k <= n THEN h + 1 + k ELSE h + 1 + k - n
  BY DEF Place
<1>6. /\ cur # None => l[h] = cur
      /\ cur = None => h = 1
  BY DEF Here
<1> HIDE DEF n, h, p
<1>7. c \in 1 .. (n - 1) /\ m[c] = l[h]
  <2>1. c \in 1 .. (n - 1) /\ (IF c < p THEN c ELSE c + 1) = h
    BY <1>1, <1>2
  <2> HIDE DEF c
  <2>2. m[c] = IF c < p THEN l[c] ELSE l[c + 1]
    BY <2>1, <1>3
  <2> QED BY <2>1, <2>2
<1>8. Here(m) = c
  <2>1. CASE cur = None
    <3>1. h = 1 /\ c = 1
      BY <2>1, <1>1, <1>2, <1>6
    <3> QED BY <3>1, <2>1 DEF Here
  <2>2. CASE cur # None
    <3>1. m[c] = cur /\ c \in 1 .. Len(m)
      BY <2>2, <1>3, <1>6, <1>7
    <3> HIDE DEF c
    <3>2. \A j \in 1 .. Len(m) : m[j] = cur => j = c
      BY <3>1, <1>4 DEF Once
    <3>3. IndexOf(m, cur) = c
      BY <3>1, <3>2 DEF IndexOf
    <3> QED BY <3>3, <2>2 DEF Here
  <2> QED BY <2>1, <2>2
<1>9. \A k : Place(m, k) = IF c + 1 + k <= n - 1 THEN c + 1 + k ELSE c + 1 + k - (n - 1)
  BY <1>3, <1>8 DEF Place
<1>10. ASSUME NEW j \in 0 .. (n - 2)
       PROVE  m[Place(m, j)] = l[Place(l, IF j < d THEN j ELSE j + 1)]
  <2> DEFINE q == Place(m, j)
             r == IF j < d THEN j ELSE j + 1
             z == Place(l, r)
  <2>1. q = IF c + 1 + j <= n - 1 THEN c + 1 + j ELSE c + 1 + j - (n - 1)
    BY <1>9
  <2>2. z = IF h + 1 + r <= n THEN h + 1 + r ELSE h + 1 + r - n
    BY <1>5
  <2>3. p = IF h + 1 + d <= n THEN h + 1 + d ELSE h + 1 + d - n
    BY <1>5 DEF p
  <2> HIDE DEF q, z
  <2>4. q \in 1 .. (n - 1)
    BY <2>1, <1>1, <1>2, <1>7
  <2>5. z = IF q < p THEN q ELSE q + 1
    BY <2>1, <2>2, <2>3, <1>1, <1>2
  <2>6. m[q] = IF q < p THEN l[q] ELSE l[q + 1]
    BY <2>4, <1>3
  <2> QED BY <2>5, <2>6 DEF q, z
<1>11. ASSUME NEW i \in 1 .. (n - 1) PROVE m[i] \in Members(l)
  <2>1. i \in 1 .. n /\ i + 1 \in 1 .. n
    BY <1>1
  <2>2. m[i] = IF i < p THEN l[i] ELSE l[i + 1]
    BY <1>3
  <2> QED BY <2>1, <2>2 DEF Members, n
<1>12. Len(m) - 1 = n - 2
  BY <1>1, <1>3
<1> QED BY <1>3, <1>4, <1>6, <1>7, <1>8, <1>10, <1>11, <1>12 DEF n, h, p

(* What the search removes, and how far the loop of HandleInterrupt has    *)
(* come: c is the place of the choice in what is left of the list.         *)
Gone == Reaped(thr) \ {cur}

OnTheWay(l, c) ==
  /\ l \in Seq(Threads) /\ Once(l)
  /\ Here(l) \in 1 .. Len(l) /\ (cur # None => l[Here(l)] = cur)
  /\ \A i \in 1 .. Len(l) : thr[l[i]].state \in {"Blocked", "Ready", "Stopped"}
  /\ c \in 0 .. (Len(l) - 1)
  /\ l[Place(l, c)] = At(Chosen(thr)) /\ thr[l[Place(l, c)]].state = "Ready"
  /\ \A j \in 0 .. (c - 1) : thr[l[Place(l, j)]].state # "Ready"
  /\ \A j \in 0 .. (Len(l) - 1) :
       l[Place(l, j)] \in Gone <=> j < c /\ thr[l[Place(l, j)]].state = "Stopped"
  /\ Without(l, Gone) = Without(list, Gone)

(* The next thread that is not blocked.                                    *)
LEMMA NextOnTheWay ==
  ASSUME NEW l, NEW c, OnTheWay(l, c)
  PROVE  \E d \in 0 .. c :
           /\ GetNextReadyThread(l) = l[Place(l, d)]
           /\ thr[l[Place(l, d)]].state # "Blocked"
           /\ \A j \in 0 .. (d - 1) : thr[l[Place(l, j)]].state = "Blocked"
<1>1. /\ Len(l) \in Nat /\ Here(l) \in 1 .. Len(l) /\ c \in 0 .. (Len(l) - 1)
      /\ thr[l[Place(l, c)]].state = "Ready"
  BY DEF OnTheWay
<1> DEFINE Passed(j) == thr[l[Place(l, j)]].state = "Blocked"
           Stops == {j \in 0 .. c : ~Passed(j)}
<1>2. c \in Stops /\ Stops \subseteq Nat
  BY <1>1
<1>3. PICK d \in Stops : \A j \in Stops : d <= j
  <2> HIDE DEF Stops
  <2> QED BY <1>2, LeastNat
<1> HIDE DEF Passed
<1>4. d \in 0 .. c /\ d \in 0 .. (Len(l) - 1) /\ ~Passed(d)
  BY <1>1, <1>3
<1>5. \A j \in 0 .. (d - 1) : Passed(j)
  BY <1>1, <1>3
<1>6. GetNextReadyThread(l) = l[Place(l, d)]
  BY <1>1, <1>4, <1>5, WalkReaches DEF Passed
<1> QED BY <1>4, <1>5, <1>6 DEF Passed

(* A thread that can run ends the loop: it is the choice, and everything   *)
(* that was to be removed is.                                              *)
LEMMA LoopEnds ==
  ASSUME NEW l, NEW c, OnTheWay(l, c), thr[GetNextReadyThread(l)].state # "Stopped"
  PROVE  GetNextReadyThread(l) = At(Chosen(thr)) /\ l = Without(list, Gone)
<1>1. PICK d \in 0 .. c : /\ GetNextReadyThread(l) = l[Place(l, d)]
                          /\ thr[l[Place(l, d)]].state # "Blocked"
                          /\ \A j \in 0 .. (d - 1) : thr[l[Place(l, j)]].state = "Blocked"
  BY NextOnTheWay
<1>2. /\ Len(l) \in Nat /\ Here(l) \in 1 .. Len(l) /\ c \in 0 .. (Len(l) - 1)
      /\ l \in Seq(Threads) /\ l[Place(l, c)] = At(Chosen(thr))
      /\ \A j \in 0 .. (c - 1) : thr[l[Place(l, j)]].state # "Ready"
      /\ Without(l, Gone) = Without(list, Gone)
  BY DEF OnTheWay
<1>3. d = c
  <2> SUFFICES ASSUME d # c PROVE FALSE
    OBVIOUS
  <2>1. d \in 0 .. (c - 1) /\ d \in 0 .. (Len(l) - 1)
    BY <1>2
  <2>2. Place(l, d) \in 1 .. Len(l)
    BY <2>1, <1>2, PlaceNext
  <2>3. thr[l[Place(l, d)]].state \in {"Blocked", "Ready", "Stopped"}
    BY <2>2 DEF OnTheWay
  <2> QED BY <2>1, <2>3, <1>1, <1>2
<1>4. ASSUME NEW i \in 1 .. Len(l) PROVE l[i] \notin Gone
  <2>1. PICK j \in 0 .. (Len(l) - 1) : Place(l, j) = i
    <3> DEFINE n == Len(l)
               h == Here(l)
               j == IF i > h THEN i - h - 1 ELSE i + n - h - 1
    <3>1. n \in Nat /\ h \in 1 .. n /\ i \in 1 .. n
      BY <1>2
    <3>2. Place(l, j) = IF h + 1 + j <= n THEN h + 1 + j ELSE h + 1 + j - n
      BY DEF Place
    <3> HIDE DEF n, h
    <3>3. j = IF i > h THEN i - h - 1 ELSE i + n - h - 1
      OBVIOUS
    <3> HIDE DEF j
    <3>4. j \in 0 .. (n - 1)
      BY <3>1, <3>3
    <3>5. Place(l, j) = i
      <4>1. CASE i > h
        BY <4>1, <3>1, <3>2, <3>3
      <4>2. CASE ~ (i > h)
        BY <4>2, <3>1, <3>2, <3>3
      <4> QED BY <4>1, <4>2
    <3> QED BY <3>4, <3>5 DEF n
  <2>2. l[Place(l, j)] \in Gone => j < c /\ thr[l[Place(l, j)]].state = "Stopped"
    BY DEF OnTheWay
  <2>3. j < c => thr[l[Place(l, j)]].state = "Blocked"
    BY <1>1, <1>2, <1>3
  <2> QED BY <2>1, <2>2, <2>3
<1>5. Without(l, Gone) = l
  BY <1>2, <1>4, WithoutNone
<1> QED BY <1>1, <1>2, <1>3, <1>5

(* A stopped thread is removed, and the choice moves one place up.         *)
LEMMA LoopGoesOn ==
  ASSUME NEW l, NEW c, OnTheWay(l, c), thr[GetNextReadyThread(l)].state = "Stopped"
  PROVE  LET m == Without(l, {GetNextReadyThread(l)})
         IN OnTheWay(m, c - 1) /\ Len(m) = Len(l) - 1
<1>1. PICK d \in 0 .. c : /\ GetNextReadyThread(l) = l[Place(l, d)]
                          /\ \A j \in 0 .. (d - 1) : thr[l[Place(l, j)]].state = "Blocked"
  BY NextOnTheWay
<1> DEFINE t == GetNextReadyThread(l)
           m == Without(l, {t})
           Old(j) == IF j < d THEN j ELSE j + 1
<1>2. /\ Len(l) \in Nat /\ Here(l) \in 1 .. Len(l) /\ c \in 0 .. (Len(l) - 1)
      /\ l \in Seq(Threads) /\ Once(l) /\ (cur # None => l[Here(l)] = cur)
      /\ l[Place(l, c)] = At(Chosen(thr)) /\ thr[l[Place(l, c)]].state = "Ready"
      /\ \A j \in 0 .. (c - 1) : thr[l[Place(l, j)]].state # "Ready"
      /\ \A i \in 1 .. Len(l) : thr[l[i]].state \in {"Blocked", "Ready", "Stopped"}
      /\ \A j \in 0 .. (Len(l) - 1) :
           l[Place(l, j)] \in Gone <=> j < c /\ thr[l[Place(l, j)]].state = "Stopped"
      /\ Without(l, Gone) = Without(list, Gone)
  BY DEF OnTheWay
<1>3. d \in 0 .. (c - 1) /\ d \in 0 .. (Len(l) - 2) /\ d \in 0 .. (Len(l) - 1)
  <2>1. d # c
    BY <1>1, <1>2
  <2> QED BY <2>1, <1>2
<1>4. /\ m \in Seq(Threads) /\ Once(m) /\ Len(m) = Len(l) - 1
      /\ Here(m) \in 1 .. Len(m) /\ (cur # None => m[Here(m)] = cur)
      /\ \A i \in 1 .. Len(m) : m[i] \in Members(l)
      /\ \A j \in 0 .. (Len(m) - 1) : m[Place(m, j)] = l[Place(l, Old(j))]
  <2>1. m = Without(l, {l[Place(l, d)]})
    BY <1>1
  <2>2. /\ l \in Seq(Threads) /\ Once(l) /\ Here(l) \in 1 .. Len(l)
        /\ cur # None => l[Here(l)] = cur
        /\ d \in 0 .. (Len(l) - 2)
    BY <1>2, <1>3
  <2> HIDE DEF m
  <2>3. /\ m \in Seq(Threads) /\ Once(m) /\ Len(m) = Len(l) - 1
        /\ Here(m) \in 1 .. Len(m) /\ (cur # None => m[Here(m)] = cur)
        /\ \A i \in 1 .. Len(m) : m[i] \in Members(l)
    BY <2>1, <2>2, RemovalShifts
  <2>4. \A j \in 0 .. (Len(m) - 1) :
          m[Place(m, j)] = l[Place(l, IF j < d THEN j ELSE j + 1)]
    BY <2>1, <2>2, RemovalShifts
  <2> QED BY <2>3, <2>4
<1>5. Without(m, Gone) = Without(list, Gone)
  <2> DEFINE p == Place(l, d)
  <2>1. p \in 1 .. Len(l)
    BY <1>2, <1>3, PlaceNext
  <2>2. l[p] \in Gone
    BY <1>1, <1>2, <1>3
  <2> HIDE DEF p
  <2>3. Without(Without(l, {l[p]}), Gone) = Without(l, Gone)
    BY <2>1, <2>2, <1>2, WithoutTwice
  <2> QED BY <2>3, <1>1, <1>2 DEF p
<1> HIDE DEF m, t
<1>6. c - 1 \in 0 .. (Len(m) - 1) /\ Old(c - 1) = c
  BY <1>2, <1>3, <1>4
<1>7. m[Place(m, c - 1)] = l[Place(l, c)]
  <2> HIDE DEF Old
  <2> QED BY <1>4, <1>6
<1>8. ASSUME NEW j \in 0 .. (Len(m) - 1)
      PROVE  /\ m[Place(m, j)] = l[Place(l, Old(j))] /\ Old(j) \in 0 .. (Len(l) - 1)
             /\ Old(j) < c <=> j < c - 1
  <2>1. Old(j) \in 0 .. (Len(l) - 1) /\ (Old(j) < c <=> j < c - 1)
    BY <1>2, <1>3, <1>4
  <2> HIDE DEF Old
  <2> QED BY <2>1, <1>4
<1> HIDE DEF Old
<1>9. ASSUME NEW j \in 0 .. ((c - 1) - 1) PROVE thr[m[Place(m, j)]].state # "Ready"
  <2>1. j \in 0 .. (Len(m) - 1) /\ j < c - 1
    BY <1>2, <1>4
  <2>2. Old(j) \in 0 .. (c - 1) /\ m[Place(m, j)] = l[Place(l, Old(j))]
    BY <2>1, <1>2, <1>8
  <2> QED BY <2>2, <1>2
<1>10. ASSUME NEW j \in 0 .. (Len(m) - 1)
       PROVE  m[Place(m, j)] \in Gone <=> j < c - 1 /\ thr[m[Place(m, j)]].state = "Stopped"
  BY <1>2, <1>8
<1>11. ASSUME NEW i \in 1 .. Len(m)
       PROVE  thr[m[i]].state \in {"Blocked", "Ready", "Stopped"}
  BY <1>2, <1>4 DEF Members
<1>12. OnTheWay(m, c - 1)
  BY <1>2, <1>4, <1>5, <1>6, <1>7, <1>9, <1>10, <1>11 DEF OnTheWay
<1> QED BY <1>4, <1>12 DEF m, t

(* f holds what is left of the list after each of n turns of the loop.     *)
Leaves(f, n) ==
  f = [k \in 0 .. n |->
         IF k = 0 THEN list
         ELSE IF thr[GetNextReadyThread(f[k - 1])].state = "Stopped"
              THEN Without(f[k - 1], {GetNextReadyThread(f[k - 1])})
              ELSE f[k - 1]]

(* Such an f exists.                                                       *)
LEMMA LeavesExist ==
  ASSUME NEW N \in Nat
  PROVE  \E f : Leaves(f, N)
<1> DEFINE Bad == {n \in 0 .. N : ~ \E f : Leaves(f, n)}
<1>1. SUFFICES ASSUME Bad # {} PROVE FALSE
  OBVIOUS
<1>2. PICK n \in Bad : \A m \in Bad : n <= m
  <2>1. Bad \subseteq Nat
    OBVIOUS
  <2> HIDE DEF Bad
  <2> QED BY <1>1, <2>1, LeastNat
<1>3. Leaves([k \in 0 .. 0 |-> list], 0)
  BY DEF Leaves
<1>4. n \in Nat \ {0} /\ n - 1 \in (0 .. N) \ Bad
  BY <1>2, <1>3
<1>5. PICK f : Leaves(f, n - 1)
  BY <1>4
<1> DEFINE Turn(l) == IF thr[GetNextReadyThread(l)].state = "Stopped"
                      THEN Without(l, {GetNextReadyThread(l)}) ELSE l
           g == [k \in 0 .. n |-> IF k = n THEN Turn(f[n - 1]) ELSE f[k]]
<1>6. Leaves(g, n)
  <2>1. ASSUME NEW k \in 0 .. n
        PROVE  g[k] = IF k = 0 THEN list ELSE Turn(g[k - 1])
    <3>1. CASE k = n
      <4>1. g[n] = Turn(f[n - 1]) /\ g[n - 1] = f[n - 1]
        BY <1>4
      <4> HIDE DEF g, Turn
      <4> QED BY <3>1, <4>1, <1>4
    <3>2. CASE k # n
      <4>1. /\ k \in 0 .. (n - 1) /\ g[k] = f[k]
            /\ k # 0 => k - 1 \in 0 .. (n - 1) /\ g[k - 1] = f[k - 1]
        BY <3>2, <1>4
      <4>2. f[k] = IF k = 0 THEN list ELSE Turn(f[k - 1])
        BY <4>1, <1>5 DEF Leaves
      <4> HIDE DEF g, Turn
      <4> QED BY <4>1, <4>2
    <3> QED BY <3>1, <3>2
  <2>2. g = [k \in 0 .. n |-> g[k]]
    OBVIOUS
  <2> HIDE DEF g
  <2> QED BY <2>1, <2>2 DEF Leaves
<1> QED BY <1>2, <1>6

(* Before its first turn the loop is on the way.                           *)
LEMMA LoopBegins ==
  ASSUME IInv, Candidates(thr) # {}
  PROVE  OnTheWay(list, Chosen(thr))
<1> DEFINE n == Len(list)
           c == Chosen(thr)
<1>1. /\ list \in Seq(Threads) /\ n \in Nat /\ Once(list) /\ (cur # None => cur \in Listed)
      /\ \A i \in 1 .. n : list[i] \in Threads /\ thr[list[i]].state # "Absent"
      /\ \A t \in Threads : thr[t].state \in States
  <2>1. TypeOK /\ CurrentIsRunning
    BY DEF IInv
  <2>2. list \in Seq(Threads) /\ n \in Nat /\ \A i \in 1 .. n : list[i] \in Threads
    BY <2>1 DEF TypeOK
  <2>3. Once(list) /\ (cur # None => cur \in Listed)
    BY <2>1 DEF CurrentIsRunning, Once
  <2>4. \A i \in 1 .. n : list[i] \in Listed
    BY DEF Listed
  <2>5. \A i \in 1 .. n : thr[list[i]].state # "Absent"
    BY <2>1, <2>2, <2>4 DEF CurrentIsRunning
  <2>6. \A t \in Threads : thr[t].state \in States
    BY <2>1 DEF TypeOK
  <2> QED BY <2>2, <2>3, <2>5, <2>6
<1>2. n > 0
  BY <1>1 DEF Candidates
<1>3. /\ Here(list) \in 1 .. n
      /\ \A k \in 0 .. (n - 1) : At(k) = list[Place(list, k)] /\ Place(list, k) \in 1 .. n
      /\ \A k \in 0 .. (n - 1) : Place(list, k) = Here(list) => k = n - 1
  <2>1. 0 \in 0 .. (n - 1)
    BY <1>1, <1>2
  <2>2. Here(list) \in 1 .. n
    BY <2>1, <1>1, <1>2, AtIsPlace
  <2>3. ASSUME NEW k \in 0 .. (n - 1)
        PROVE  /\ At(k) = list[Place(list, k)]
               /\ Place(list, k) \in 1 .. n /\ (Place(list, k) = Here(list) => k = n - 1)
    BY <2>2, <1>1, <1>2, AtIsPlace, PlaceNext
  <2> QED BY <2>2, <2>3
<1>4. cur # None => list[Here(list)] = cur
  <2> SUFFICES ASSUME cur # None PROVE list[Here(list)] = cur
    OBVIOUS
  <2>1. \E j \in 1 .. Len(list) : list[j] = cur
    BY <1>1 DEF Listed
  <2> QED BY <2>1 DEF Here, IndexOf
<1>5. ASSUME NEW i \in 1 .. n PROVE thr[list[i]].state \in {"Blocked", "Ready", "Stopped"}
  BY <1>1 DEF States
<1>6. c \in Candidates(thr) /\ \A j \in Candidates(thr) : c <= j
  <2>1. Candidates(thr) \subseteq Nat
    BY <1>1 DEF Candidates
  <2>2. \E k \in Candidates(thr) : \A j \in Candidates(thr) : k <= j
    BY <2>1, LeastNat
  <2> QED BY <2>2 DEF Chosen
<1>7. c \in 0 .. (n - 1) /\ CanRun(At(c), thr)
  BY <1>6 DEF Candidates
<1>8. \A j \in 0 .. (c - 1) : ~CanRun(At(j), thr)
  BY <1>1, <1>6, <1>7 DEF Candidates
<1> HIDE DEF c
<1>9. list[Place(list, c)] = At(c) /\ thr[list[Place(list, c)]].state = "Ready"
  BY <1>3, <1>5, <1>7 DEF CanRun
<1>10. ASSUME NEW j \in 0 .. (c - 1) PROVE thr[list[Place(list, j)]].state # "Ready"
  <2>1. j \in 0 .. (n - 1)
    BY <1>1, <1>7
  <2> QED BY <2>1, <1>3, <1>8 DEF CanRun
<1>11. ASSUME NEW j \in 0 .. (n - 1), NEW k \in 0 .. (n - 1), At(j) = At(k) PROVE j = k
  <2>1. Place(list, j) = Place(list, k)
    BY <1>1, <1>3, <1>11 DEF Once
  <2> DEFINE h == Here(list)
  <2>2. /\ Place(list, j) = IF h + 1 + j <= n THEN h + 1 + j ELSE h + 1 + j - n
        /\ Place(list, k) = IF h + 1 + k <= n THEN h + 1 + k ELSE h + 1 + k - n
        /\ h \in 1 .. n
    BY <1>3 DEF Place
  <2>3. n \in Nat /\ j \in 0 .. (n - 1) /\ k \in 0 .. (n - 1)
    BY <1>1
  <2> DEFINE q == Place(list, j)
             r == Place(list, k)
  <2>4. /\ q = IF h + 1 + j <= n THEN h + 1 + j ELSE h + 1 + j - n
        /\ r = IF h + 1 + k <= n THEN h + 1 + k ELSE h + 1 + k - n
        /\ h \in 1 .. n /\ q = r
    BY <2>1, <2>2
  <2> HIDE DEF h, n, q, r
  <2> QED BY <2>3, <2>4
<1>12. ASSUME NEW j \in 0 .. (n - 1)
       PROVE  list[Place(list, j)] \in Gone
                <=> j < c /\ thr[list[Place(list, j)]].state = "Stopped"
  <2>1. list[Place(list, j)] = At(j)
    BY <1>3
  <2>2. ASSUME At(j) \in Gone PROVE j < c /\ thr[At(j)].state = "Stopped"
    <3>1. At(j) # cur /\ At(j) \in Reaped(thr)
      BY <2>2 DEF Gone
    <3>2. PICK k \in 0 .. (c - 1) : At(j) = At(k) /\ thr[At(k)].state = "Stopped"
      BY <3>1 DEF Reaped, c
    <3>3. k \in 0 .. (n - 1) /\ k < c
      BY <1>1, <1>7
    <3>4. j = k
      BY <3>2, <3>3, <1>11
    <3> QED BY <3>2, <3>3, <3>4
  <2>3. ASSUME j < c, thr[At(j)].state = "Stopped" PROVE At(j) \in Gone
    <3>1. j \in 0 .. (c - 1)
      BY <2>3, <1>1, <1>7
    <3>2. At(j) \in Reaped(thr)
      BY <3>1, <2>3 DEF Reaped, c
    <3>3. At(j) # cur
      <4> SUFFICES ASSUME At(j) = cur PROVE FALSE
        OBVIOUS
      <4>1. At(j) \in Threads
        BY <2>1, <1>1, <1>3
      <4>2. cur # None
        BY <4>1, SchedulerAssumption
      <4>3. Place(list, j) = Here(list)
        BY <4>2, <2>1, <1>1, <1>3, <1>4 DEF Once
      <4>4. j = n - 1
        BY <4>3, <1>3
      <4> QED BY <4>4, <2>3, <1>1, <1>7
    <3> QED BY <3>2, <3>3 DEF Gone
  <2> QED BY <2>1, <2>2, <2>3
<1> QED BY <1>1, <1>3, <1>4, <1>5, <1>7, <1>9, <1>10, <1>12 DEF OnTheWay, c

(* The loops of HandleInterrupt and GetNextReadyThread make the choice.    *)
LEMMA LoopChooses == IInv => ChoiceIsTheLoop
<1> SUFFICES ASSUME IInv, Candidates(thr) # {}
             PROVE  /\ GetNextReadyThread(StoppedRemoved) = At(Chosen(thr))
                    /\ StoppedRemoved = Without(list, Gone)
  BY DEF ChoiceIsTheLoop, Gone
<1> DEFINE N == Len(list)
           f == CHOOSE g : Leaves(g, N)
<1>1. N \in Nat
  BY DEF IInv, TypeOK
<1>2. Leaves(f, N)
  BY <1>1, LeavesExist
<1>3. StoppedRemoved = f[N]
  BY Zenon DEF StoppedRemoved, Leaves
<1> HIDE DEF f
<1>4. f[0] = list
  BY <1>1, <1>2 DEF Leaves
<1>5. ASSUME NEW k \in 1 .. N
      PROVE  f[k] = IF thr[GetNextReadyThread(f[k - 1])].state = "Stopped"
                    THEN Without(f[k - 1], {GetNextReadyThread(f[k - 1])})
                    ELSE f[k - 1]
  <2>1. k \in 0 .. N /\ k # 0
    BY <1>1
  <2> QED BY <2>1, <1>2 DEF Leaves
<1> DEFINE Ended(k) == thr[GetNextReadyThread(f[k])].state # "Stopped"
           Good(k) == (\E c : OnTheWay(f[k], c)) /\ (Len(f[k]) = N - k \/ Ended(k))
           Bad == {k \in 0 .. N : ~Good(k)}
<1>6. Good(0)
  BY <1>1, <1>4, LoopBegins
<1>7. Bad = {}
  <2> SUFFICES ASSUME Bad # {} PROVE FALSE
    OBVIOUS
  <2>1. PICK k \in Bad : \A j \in Bad : k <= j
    <3>1. Bad \subseteq Nat
      BY <1>1
    <3> HIDE DEF Bad
    <3> QED BY <3>1, LeastNat
  <2>2. k \in 1 .. N /\ Good(k - 1) /\ k - 1 \in Nat
    <3> HIDE DEF Good, N
    <3>1. k \in 1 .. N
      BY <1>1, <1>6, <2>1
    <3> QED BY <3>1, <2>1, <1>1
  <2>3. PICK c : OnTheWay(f[k - 1], c)
    BY <2>2
  <2>4. CASE Ended(k - 1)
    <3>1. f[k] = f[k - 1]
      BY <2>2, <2>4, <1>5
    <3> QED BY <3>1, <2>1, <2>3, <2>4
  <2>5. CASE ~Ended(k - 1)
    <3> DEFINE l == f[k - 1]
               m == Without(l, {GetNextReadyThread(l)})
    <3>1. f[k] = m
      BY <2>2, <2>5, <1>5
    <3>2. OnTheWay(m, c - 1) /\ Len(m) = Len(l) - 1
      BY <2>3, <2>5, LoopGoesOn
    <3>3. Len(l) = N - (k - 1)
      BY <2>2, <2>5
    <3> HIDE DEF l, m
    <3>4. Len(m) = N - k
      BY <3>2, <3>3, <2>2, <1>1
    <3> QED BY <3>1, <3>2, <3>4, <2>1
  <2> QED BY <2>4, <2>5
<1>8. Good(N)
  <2>1. N \in 0 .. N
    BY <1>1
  <2> HIDE DEF Good, N
  <2> QED BY <2>1, <1>7
<1>9. PICK c : OnTheWay(f[N], c)
  BY <1>8
<1>10. Ended(N)
  <2>1. Here(f[N]) \in 1 .. Len(f[N])
    BY <1>9 DEF OnTheWay
  <2>2. Len(f[N]) # N - N
    BY <2>1, <1>1
  <2> QED BY <2>2, <1>8
<1>11. GetNextReadyThread(f[N]) = At(Chosen(thr)) /\ f[N] = Without(list, Gone)
  BY <1>9, <1>10, LoopEnds
<1> QED BY <1>3, <1>11

(* The closed form in which HandleInterrupt is modelled chooses the thread *)
(* that the loops of scheduler.cpp choose, and removes the ones they       *)
(* remove, for every list of threads in every state.                       *)
THEOREM ChoiceFollowsTheLoop == Spec => []ChoiceIsTheLoop
<1>1. IInv => ChoiceIsTheLoop
  BY LoopChooses
<1> QED BY <1>1, SchedulerInvariant, PTL
-----------------------------------------------------------------------------
(***************************************************************************)
(* The linked list.  LinksSound says what each node points at; it does not *)
(* say that the nodes are met in one order, each once.  The invariant      *)
(* therefore names that order: a walk W from head_ to null that next       *)
(* follows forwards and prev backwards and that meets every allocated node *)
(* exactly once.  Each operation is shown to turn the walk into another.   *)
(***************************************************************************)
(* W meets the n nodes of a list in order, and null after them.            *)
IsWalk(W, nd, h, t, n) ==
  /\ n \in Nat
  /\ DOMAIN nd \subseteq Nodes
  /\ nd \in [DOMAIN nd -> queue_node]
  /\ W \in [0 .. n -> Nodes \cup {Null}]
  /\ W[0] = h /\ W[n] = Null
  /\ t = IF n = 0 THEN Null ELSE W[n - 1]
  /\ \A i \in 0 .. (n - 1) : W[i] \in DOMAIN nd
  /\ \A i \in 0 .. (n - 1) : nd[W[i]].next = W[i + 1]
  /\ \A i \in 0 .. (n - 1) : nd[W[i]].prev = IF i = 0 THEN Null ELSE W[i - 1]
  /\ \A i, j \in 0 .. (n - 1) : W[i] = W[j] => i = j
  /\ \A m \in DOMAIN nd : \E i \in 0 .. (n - 1) : W[i] = m

Walk(W) == IsWalk(W, node, head_, tail_, size_)

Linked == size_ \in Nat /\ \E W \in [0 .. size_ -> Nodes \cup {Null}] : Walk(W)

(* What Remove(e) has established in its loop: an element met once is not  *)
(* below the index any more when it is the one to remove.                  *)
LoopOK ==
  loop.running =>
    /\ loop.i \in Nat
    /\ loop.distinct =>
         /\ \A i, j \in 0 .. (size_ - 1) : GetAt(i) = GetAt(j) => i = j
         /\ \A i \in 0 .. (size_ - 1) : i < loop.i => GetAt(i) # loop.e

QueueInv == Linked /\ LoopOK

-----------------------------------------------------------------------------
(* f is the walk of NodeFrom, up to index n.                               *)
Follows(f, nodes, first, n) ==
  f = [i \in 0 .. n |-> IF i = 0 THEN first ELSE nodes[f[i - 1]].next]

(* Following next from head_ meets the nodes of the walk.                  *)
LEMMA WalkFound ==
  ASSUME NEW W, NEW nd, NEW h, NEW t, NEW n, IsWalk(W, nd, h, t, n),
         NEW k \in 0 .. n
  PROVE  NodeFrom(nd, h, k) = W[k]
<1>1. n \in Nat /\ k \in Nat /\ k <= n /\ W[0] = h
  BY DEF IsWalk
<1>2. \A i \in 0 .. (n - 1) : nd[W[i]].next = W[i + 1]
  BY DEF IsWalk
<1> DEFINE g == [i \in 0 .. k |-> W[i]]
           f == CHOOSE x : Follows(x, nd, h, k)
<1>3. Follows(g, nd, h, k)
  <2>1. ASSUME NEW i \in 0 .. k
        PROVE  g[i] = IF i = 0 THEN h ELSE nd[g[i - 1]].next
    <3>1. CASE i = 0
      BY <3>1, <1>1
    <3>2. CASE i # 0
      <4>1. i - 1 \in 0 .. (n - 1) /\ i - 1 \in 0 .. k /\ (i - 1) + 1 = i
        BY <3>2, <1>1
      <4>2. nd[W[i - 1]].next = W[i]
        BY <4>1, <1>2
      <4> QED BY <3>2, <4>1, <4>2
    <3> QED BY <3>1, <3>2
  <2>2. g = [i \in 0 .. k |-> g[i]]
    OBVIOUS
  <2> HIDE DEF g
  <2> QED BY <2>1, <2>2 DEF Follows
<1>4. Follows(f, nd, h, k)
  <2> HIDE DEF g
  <2> QED BY <1>3
<1>5. NodeFrom(nd, h, k) = f[k]
  BY Zenon DEF NodeFrom, Follows
<1> DEFINE Bad == {i \in 0 .. k : f[i] # W[i]}
<1> HIDE DEF f
<1>6. SUFFICES ASSUME Bad # {} PROVE FALSE
  <2>1. k \in 0 .. k
    BY <1>1
  <2> QED BY <1>5, <2>1
<1>7. PICK i \in Bad : \A j \in Bad : i <= j
  <2>1. Bad \subseteq Nat
    OBVIOUS
  <2> HIDE DEF Bad
  <2> QED BY <1>6, <2>1, LeastNat
<1>8. f[0] = h
  BY <1>1, <1>4 DEF Follows
<1>9. i \in 1 .. k /\ i - 1 \in 0 .. k /\ i - 1 \notin Bad
  BY <1>7, <1>8, <1>1
<1>10. f[i] = nd[f[i - 1]].next
  BY <1>9, <1>4 DEF Follows
<1>11. f[i - 1] = W[i - 1]
  BY <1>9
<1>12. nd[W[i - 1]].next = W[i]
  <2>1. i - 1 \in 0 .. (n - 1) /\ (i - 1) + 1 = i
    BY <1>9, <1>1
  <2> QED BY <2>1, <1>2
<1> QED BY <1>7, <1>10, <1>11, <1>12

(* What the operations read of the list, in terms of the walk.             *)
LEMMA ReadsWalk ==
  ASSUME NEW W, Walk(W)
  PROVE  /\ \A k \in 0 .. size_ : NodeAt(k) = W[k]
         /\ \A k \in 0 .. size_ : GetAt(k) = node[W[k]].data
BY WalkFound DEF Walk, NodeAt, GetAt

(* The same of the list a step leaves.                                     *)
LEMMA ReadsWalkAfter ==
  ASSUME NEW W, IsWalk(W, node', head_', tail_', size_')
  PROVE  /\ \A k \in 0 .. size_' : NodeAt(k)' = W[k]
         /\ \A k \in 0 .. size_' : GetAt(k)' = node'[W[k]].data
BY WalkFound DEF NodeAt, GetAt
-----------------------------------------------------------------------------
(* What a walk says of the ends of the list.                               *)
LEMMA WalkEnds ==
  ASSUME NEW W, Walk(W)
  PROVE  /\ size_ \in Nat
         /\ Null \notin DOMAIN node
         /\ head_ = Null <=> size_ = 0
         /\ tail_ = Null <=> size_ = 0
         /\ head_ \in Nodes \cup {Null} /\ tail_ \in Nodes \cup {Null}
         /\ size_ # 0 => head_ = W[0] /\ tail_ = W[size_ - 1]
         /\ size_ # 0 => head_ \in DOMAIN node /\ tail_ \in DOMAIN node
<1>1. size_ \in Nat /\ Null \notin DOMAIN node /\ DOMAIN node \subseteq Nodes
  BY QueueAssumption DEF Walk, IsWalk
<1>2. W[0] = head_ /\ W[size_] = Null
  BY DEF Walk, IsWalk
<1>3. tail_ = IF size_ = 0 THEN Null ELSE W[size_ - 1]
  BY DEF Walk, IsWalk
<1>4. \A i \in 0 .. (size_ - 1) : W[i] \in DOMAIN node
  BY DEF Walk, IsWalk
<1>5. size_ # 0 => 0 \in 0 .. (size_ - 1) /\ size_ - 1 \in 0 .. (size_ - 1)
  BY <1>1
<1> QED BY <1>1, <1>2, <1>3, <1>4, <1>5

(* A node with typed links is a node.                                      *)
LEMMA NodeTyped ==
  ASSUME NEW d \in Elements, NEW x \in Nodes \cup {Null}, NEW p \in Nodes \cup {Null}
  PROVE  [data |-> d, next |-> x, prev |-> p] \in queue_node
BY DEF queue_node

(* The walk after e has been pushed to the back in node n.                 *)
Back(W, n) ==
  [i \in 0 .. (size_ + 1) |-> IF i < size_ THEN W[i] ELSE IF i = size_ THEN n ELSE Null]

(* push_back adds a node to the end of the walk.                           *)
LEMMA BackWalk ==
  ASSUME NEW W, Walk(W), NEW e \in Elements, NEW n \in Nodes \ DOMAIN node,
         insertInternal(e, Null, n)
  PROVE  /\ IsWalk(Back(W, n), node', head_', tail_', size_')
         /\ size_' = size_ + 1
         /\ \A i \in 0 .. size_ :
              node'[Back(W, n)[i]].data = IF i < size_ THEN node[W[i]].data ELSE e
<1> DEFINE V == Back(W, n)
           D == DOMAIN node
<1>1. /\ size_ \in Nat /\ Null \notin D /\ D \subseteq Nodes
      /\ tail_ \in Nodes \cup {Null}
      /\ tail_ # Null => tail_ \in D
      /\ tail_ = Null <=> size_ = 0
      /\ size_ # 0 => tail_ = W[size_ - 1] /\ head_ = W[0]
  BY WalkEnds DEF Walk, IsWalk
<1>2. /\ \A i \in 0 .. (size_ - 1) : W[i] \in D
      /\ \A i \in 0 .. (size_ - 1) : node[W[i]].next = W[i + 1]
      /\ \A i \in 0 .. (size_ - 1) : node[W[i]].prev = IF i = 0 THEN Null ELSE W[i - 1]
      /\ \A i, j \in 0 .. (size_ - 1) : W[i] = W[j] => i = j
      /\ \A m \in D : \E i \in 0 .. (size_ - 1) : W[i] = m
      /\ node \in [D -> queue_node]
      /\ W \in [0 .. size_ -> Nodes \cup {Null}]
  BY DEF Walk, IsWalk
<1>3. /\ node' = [m \in D \cup {n} |->
                   IF m = n THEN [data |-> e, next |-> Null, prev |-> tail_]
                   ELSE [data |-> node[m].data,
                         next |-> IF m = tail_ THEN n ELSE node[m].next,
                         prev |-> IF m = Null THEN n ELSE node[m].prev]]
      /\ tail_' = n
      /\ head_' = IF tail_ = Null THEN n ELSE head_
      /\ size_' = size_ + 1
  BY DEF insertInternal
<1>4. DOMAIN node' = D \cup {n} /\ n \notin D /\ n # Null
  BY <1>3, QueueAssumption
<1>5. /\ \A i \in 0 .. (size_ - 1) : V[i] = W[i]
      /\ V[size_] = n /\ V[size_ + 1] = Null
      /\ V \in [0 .. (size_ + 1) -> Nodes \cup {Null}]
  BY <1>1, <1>2 DEF Back
<1>6. /\ node'[n].data = e /\ node'[n].next = Null /\ node'[n].prev = tail_
      /\ \A m \in D : /\ node'[m].data = node[m].data
                      /\ node'[m].next = IF m = tail_ THEN n ELSE node[m].next
                      /\ node'[m].prev = node[m].prev
  BY <1>1, <1>3, <1>4
<1>7. node' \in [DOMAIN node' -> queue_node]
  <2>1. \A m \in D : /\ node[m].data \in Elements
                      /\ node[m].next \in Nodes \cup {Null}
                      /\ node[m].prev \in Nodes \cup {Null}
    BY <1>2 DEF queue_node
  <2>2. \A m \in D \cup {n} : node'[m] \in queue_node
    <3>1. node'[n] = [data |-> e, next |-> Null, prev |-> tail_]
      BY <1>3
    <3>2. \A m \in D : node'[m] = [data |-> node[m].data,
                                  next |-> IF m = tail_ THEN n ELSE node[m].next,
                                  prev |-> node[m].prev]
      BY <1>1, <1>3, <1>4
    <3>3. node'[n] \in queue_node
      <4>1. Null \in Nodes \cup {Null} /\ tail_ \in Nodes \cup {Null}
        BY <1>1
      <4> QED BY <3>1, <4>1, NodeTyped
    <3>4. ASSUME NEW m \in D PROVE node'[m] \in queue_node
      <4> DEFINE x == IF m = tail_ THEN n ELSE node[m].next
      <4>1. x \in Nodes \cup {Null} /\ node'[m] = [data |-> node[m].data, next |-> x,
                                                 prev |-> node[m].prev]
        BY <3>2, <2>1
      <4> HIDE DEF x, D
      <4> QED BY <4>1, <2>1, NodeTyped
    <3> HIDE DEF D
    <3> QED BY <3>3, <3>4
  <2>3. node' = [m \in D \cup {n} |-> node'[m]]
    BY <1>3
  <2> HIDE DEF D
  <2> QED BY <2>2, <2>3, <1>4
<1> HIDE DEF V, D
<1>8. \A i \in 0 .. size_ : V[i] \in DOMAIN node'
  <2>1. \A i \in 0 .. size_ : i = size_ \/ i \in 0 .. (size_ - 1)
    BY <1>1
  <2> QED BY <2>1, <1>2, <1>4, <1>5
<1>9. \A i \in 0 .. size_ : node'[V[i]].next = V[i + 1]
  <2>1. ASSUME NEW i \in 0 .. size_ PROVE node'[V[i]].next = V[i + 1]
    <3>1. CASE i = size_
      BY <3>1, <1>5, <1>6
    <3>2. CASE i = size_ - 1
      <4>1. V[i] = tail_ /\ tail_ \in D /\ i + 1 = size_
        BY <3>2, <1>1, <1>2, <1>5
      <4> QED BY <4>1, <1>5, <1>6
    <3>3. CASE i + 1 < size_
      <4>1. /\ V[i] = W[i] /\ W[i] \in D /\ W[i] # tail_ /\ V[i + 1] = W[i + 1]
            /\ node[W[i]].next = W[i + 1]
        <5>1. i \in 0 .. (size_ - 1) /\ i + 1 \in 0 .. (size_ - 1)
              /\ size_ - 1 \in 0 .. (size_ - 1) /\ i # size_ - 1 /\ size_ # 0
          BY <3>3, <1>1
        <5> QED BY <5>1, <1>1, <1>2, <1>5
      <4> QED BY <4>1, <1>6
    <3> QED BY <3>1, <3>2, <3>3, <1>1
  <2> QED BY <2>1
<1>10. \A i \in 0 .. size_ : node'[V[i]].prev = IF i = 0 THEN Null ELSE V[i - 1]
  <2>1. ASSUME NEW i \in 0 .. size_
        PROVE  node'[V[i]].prev = IF i = 0 THEN Null ELSE V[i - 1]
    <3>1. CASE i = size_
      <4>1. size_ # 0 => size_ - 1 \in 0 .. (size_ - 1)
        BY <1>1
      <4> QED BY <3>1, <4>1, <1>1, <1>5, <1>6
    <3>2. CASE i < size_
      <4>1. i \in 0 .. (size_ - 1) /\ (i # 0 => i - 1 \in 0 .. (size_ - 1))
        BY <3>2, <1>1
      <4> QED BY <4>1, <1>2, <1>5, <1>6
    <3> QED BY <3>1, <3>2, <1>1
  <2> QED BY <2>1
<1>11. \A i, j \in 0 .. size_ : V[i] = V[j] => i = j
  <2>1. \A i \in 0 .. size_ : i = size_ \/ i \in 0 .. (size_ - 1)
    BY <1>1
  <2>2. \A i \in 0 .. (size_ - 1) : V[i] \in D /\ V[i] # n
    BY <1>2, <1>4, <1>5
  <2> QED BY <2>1, <2>2, <1>2, <1>5
<1>12. \A m \in DOMAIN node' : \E i \in 0 .. size_ : V[i] = m
  <2>1. ASSUME NEW m \in D PROVE \E i \in 0 .. size_ : V[i] = m
    <3>1. PICK i \in 0 .. (size_ - 1) : W[i] = m
      BY <1>2
    <3> QED BY <3>1, <1>1, <1>5
  <2>2. size_ \in 0 .. size_
    BY <1>1
  <2> QED BY <2>1, <2>2, <1>4, <1>5
<1>13. V[0] = head_'
  <2>1. size_ # 0 => 0 \in 0 .. (size_ - 1)
    BY <1>1
  <2> QED BY <2>1, <1>1, <1>3, <1>5
<1>14. IsWalk(V, node', head_', tail_', size_')
  <2>1. size_' \in Nat /\ size_' = size_ + 1 /\ size_' - 1 = size_ /\ size_' # 0
    BY <1>1, <1>3
  <2>2. DOMAIN node' \subseteq Nodes
    BY <1>1, <1>4
  <2>3. tail_' = IF size_' = 0 THEN Null ELSE V[size_' - 1]
    BY <2>1, <1>3, <1>5
  <2> QED
    BY <2>1, <2>2, <2>3, <1>5, <1>7, <1>8, <1>9, <1>10, <1>11, <1>12, <1>13 DEF IsWalk
<1>15. ASSUME NEW i \in 0 .. size_
       PROVE  node'[V[i]].data = IF i < size_ THEN node[W[i]].data ELSE e
  <2>1. CASE i < size_
    <3>1. i \in 0 .. (size_ - 1)
      BY <2>1, <1>1
    <3> QED BY <3>1, <2>1, <1>1, <1>2, <1>5, <1>6
  <2>2. CASE i = size_
    BY <2>2, <1>1, <1>2, <1>5, <1>6
  <2>3. i < size_ \/ i = size_
    BY <1>1
  <2> QED BY <2>1, <2>2, <2>3
<1> QED BY <1>3, <1>14, <1>15 DEF V
(* The walk after e has been pushed to the front in node n.                *)
Front(W, n) == [i \in 0 .. (size_ + 1) |-> IF i = 0 THEN n ELSE W[i - 1]]

(* push_front adds a node to the beginning of the walk.                    *)
LEMMA FrontWalk ==
  ASSUME NEW W, Walk(W), NEW e \in Elements, NEW n \in Nodes \ DOMAIN node,
         insertInternal(e, head_, n)
  PROVE  /\ IsWalk(Front(W, n), node', head_', tail_', size_')
         /\ size_' = size_ + 1
         /\ \A i \in 0 .. size_ :
              node'[Front(W, n)[i]].data = IF i = 0 THEN e ELSE node[W[i - 1]].data
<1> DEFINE V == Front(W, n)
           D == DOMAIN node
<1>1. /\ size_ \in Nat /\ Null \notin D /\ D \subseteq Nodes
      /\ head_ \in Nodes \cup {Null}
      /\ head_ # Null => head_ \in D
      /\ tail_ = Null <=> size_ = 0
      /\ head_ = Null <=> size_ = 0
      /\ size_ # 0 => tail_ = W[size_ - 1] /\ head_ = W[0]
  BY WalkEnds DEF Walk, IsWalk
<1>2. /\ \A i \in 0 .. (size_ - 1) : W[i] \in D
      /\ \A i \in 0 .. (size_ - 1) : node[W[i]].next = W[i + 1]
      /\ \A i \in 0 .. (size_ - 1) : node[W[i]].prev = IF i = 0 THEN Null ELSE W[i - 1]
      /\ \A i, j \in 0 .. (size_ - 1) : W[i] = W[j] => i = j
      /\ \A m \in D : \E i \in 0 .. (size_ - 1) : W[i] = m
      /\ node \in [D -> queue_node]
      /\ W \in [0 .. size_ -> Nodes \cup {Null}]
      /\ W[0] = head_ /\ W[size_] = Null
  BY DEF Walk, IsWalk
<1>b. (IF head_ # Null THEN node[head_].prev ELSE tail_) = Null
  <2>1. size_ # 0 => 0 \in 0 .. (size_ - 1)
    BY <1>1
  <2> QED BY <2>1, <1>1, <1>2
<1>3. /\ node' = [m \in D \cup {n} |->
                   IF m = n THEN [data |-> e, next |-> head_, prev |-> Null]
                   ELSE [data |-> node[m].data,
                         next |-> IF m = Null THEN n ELSE node[m].next,
                         prev |-> IF m = head_ THEN n ELSE node[m].prev]]
      /\ tail_' = IF head_ = Null THEN n ELSE tail_
      /\ head_' = n
      /\ size_' = size_ + 1
  BY <1>b DEF insertInternal
<1>4. DOMAIN node' = D \cup {n} /\ n \notin D /\ n # Null
  BY <1>3, QueueAssumption
<1>5. /\ V[0] = n
      /\ \A i \in 0 .. size_ : V[i + 1] = W[i]
      /\ V[size_ + 1] = Null
      /\ V \in [0 .. (size_ + 1) -> Nodes \cup {Null}]
  <2>1. \A i \in 0 .. size_ : i + 1 \in 0 .. (size_ + 1) /\ (i + 1) - 1 = i /\ i + 1 # 0
    BY <1>1
  <2>2. \A i \in 0 .. size_ : V[i + 1] = W[i]
    BY <2>1 DEF Front
  <2>3. V[0] = n
    BY <1>1 DEF Front
  <2>4. \A i \in 0 .. (size_ + 1) : i = 0 \/ i - 1 \in 0 .. size_
    BY <1>1
  <2>5. V \in [0 .. (size_ + 1) -> Nodes \cup {Null}]
    BY <1>2, <2>4 DEF Front
  <2>6. size_ \in 0 .. size_
    BY <1>1
  <2> QED BY <1>2, <2>2, <2>3, <2>5, <2>6
<1>6. /\ node'[n].data = e /\ node'[n].next = head_ /\ node'[n].prev = Null
      /\ \A m \in D : /\ node'[m].data = node[m].data
                      /\ node'[m].next = node[m].next
                      /\ node'[m].prev = IF m = head_ THEN n ELSE node[m].prev
  BY <1>1, <1>3, <1>4
<1>7. node' \in [DOMAIN node' -> queue_node]
  <2>1. \A m \in D : /\ node[m].data \in Elements
                      /\ node[m].next \in Nodes \cup {Null}
                      /\ node[m].prev \in Nodes \cup {Null}
    BY <1>2 DEF queue_node
  <2>2. \A m \in D \cup {n} : node'[m] \in queue_node
    <3>1. node'[n] = [data |-> e, next |-> head_, prev |-> Null]
      BY <1>3
    <3>2. node'[n] \in queue_node
      <4>1. Null \in Nodes \cup {Null} /\ head_ \in Nodes \cup {Null}
        BY <1>1
      <4> QED BY <3>1, <4>1, NodeTyped
    <3>3. ASSUME NEW m \in D PROVE node'[m] \in queue_node
      <4> DEFINE p == IF m = head_ THEN n ELSE node[m].prev
      <4>1. node'[m] = [data |-> node[m].data, next |-> node[m].next, prev |-> p]
        BY <1>1, <1>3, <1>4
      <4>2. p \in Nodes \cup {Null}
        BY <2>1
      <4> HIDE DEF p, D
      <4> QED BY <4>1, <4>2, <2>1, NodeTyped
    <3> HIDE DEF D
    <3> QED BY <3>2, <3>3
  <2>3. node' = [m \in D \cup {n} |-> node'[m]]
    BY <1>3
  <2> HIDE DEF D
  <2> QED BY <2>2, <2>3, <1>4
<1> HIDE DEF V, D
<1>s. \A i \in 0 .. size_ : i = 0 \/ \E k \in 0 .. (size_ - 1) : i = k + 1 /\ k = i - 1
  <2>1. ASSUME NEW i \in 0 .. size_, i # 0
        PROVE  \E k \in 0 .. (size_ - 1) : i = k + 1 /\ k = i - 1
    <3>1. i - 1 \in 0 .. (size_ - 1) /\ i = (i - 1) + 1
      BY <2>1, <1>1
    <3> QED BY <3>1
  <2> QED BY <2>1
<1>t. \A k \in 0 .. (size_ - 1) : k \in 0 .. size_ /\ k + 1 \in 0 .. size_
  BY <1>1
<1>8. \A i \in 0 .. size_ : V[i] \in DOMAIN node'
  BY <1>s, <1>t, <1>2, <1>4, <1>5
<1>9. \A i \in 0 .. size_ : node'[V[i]].next = V[i + 1]
  <2>1. node'[V[0]].next = V[0 + 1]
    <3>1. 0 \in 0 .. size_
      BY <1>1
    <3> QED BY <3>1, <1>2, <1>5, <1>6
  <2>2. ASSUME NEW k \in 0 .. (size_ - 1) PROVE node'[V[k + 1]].next = V[(k + 1) + 1]
    BY <1>t, <1>2, <1>5, <1>6
  <2> QED BY <2>1, <2>2, <1>s
<1>10. \A i \in 0 .. size_ : node'[V[i]].prev = IF i = 0 THEN Null ELSE V[i - 1]
  <2>1. node'[V[0]].prev = Null
    BY <1>5, <1>6
  <2>2. ASSUME NEW k \in 0 .. (size_ - 1) PROVE node'[V[k + 1]].prev = V[k]
    <3>1. V[k + 1] = W[k] /\ W[k] \in D
      BY <1>t, <1>2, <1>5
    <3>2. CASE k = 0
      <4>1. W[k] = head_
        BY <3>2, <1>2
      <4> QED BY <3>1, <3>2, <4>1, <1>5, <1>6
    <3>3. CASE k # 0
      <4>1. 0 \in 0 .. (size_ - 1) /\ k - 1 \in 0 .. size_ /\ (k - 1) + 1 = k
        BY <3>3, <1>1
      <4>2. W[k] # head_
        BY <3>3, <4>1, <1>2
      <4>3. node[W[k]].prev = W[k - 1]
        BY <3>3, <1>2
      <4>4. V[k] = W[k - 1]
        <5>1. V[(k - 1) + 1] = W[k - 1]
          BY <4>1, <1>5
        <5> QED BY <5>1, <4>1
      <4> QED BY <3>1, <4>2, <4>3, <4>4, <1>6
    <3> QED BY <3>2, <3>3
  <2> QED BY <2>1, <2>2, <1>s
<1>11. \A i, j \in 0 .. size_ : V[i] = V[j] => i = j
  <2>1. \A k \in 0 .. (size_ - 1) : V[k + 1] = W[k] /\ W[k] \in D /\ W[k] # n
    BY <1>t, <1>2, <1>4, <1>5
  <2>2. \A k, l \in 0 .. (size_ - 1) : V[k + 1] = V[l + 1] => k = l
    BY <2>1, <1>2
  <2> QED BY <2>1, <2>2, <1>s, <1>5
<1>12. \A m \in DOMAIN node' : \E i \in 0 .. size_ : V[i] = m
  <2>1. ASSUME NEW m \in D PROVE \E i \in 0 .. size_ : V[i] = m
    <3>1. PICK k \in 0 .. (size_ - 1) : W[k] = m
      BY <1>2
    <3> QED BY <3>1, <1>t, <1>5
  <2>2. 0 \in 0 .. size_
    BY <1>1
  <2> QED BY <2>1, <2>2, <1>4, <1>5
<1>13. tail_' = V[size_]
  <2>1. CASE size_ = 0
    BY <2>1, <1>1, <1>3, <1>5
  <2>2. CASE size_ # 0
    <3>1. size_ - 1 \in 0 .. size_ /\ (size_ - 1) + 1 = size_
      BY <2>2, <1>1
    <3>2. V[(size_ - 1) + 1] = W[size_ - 1]
      BY <3>1, <1>5
    <3> QED BY <2>2, <3>1, <3>2, <1>1, <1>3
  <2> QED BY <2>1, <2>2
<1>14. IsWalk(V, node', head_', tail_', size_')
  <2>1. size_' \in Nat /\ size_' = size_ + 1 /\ size_' - 1 = size_ /\ size_' # 0
    BY <1>1, <1>3
  <2>2. DOMAIN node' \subseteq Nodes
    BY <1>1, <1>4
  <2>3. tail_' = IF size_' = 0 THEN Null ELSE V[size_' - 1]
    BY <2>1, <1>13
  <2> QED
    BY <2>1, <2>2, <2>3, <1>3, <1>5, <1>7, <1>8, <1>9, <1>10, <1>11, <1>12 DEF IsWalk
<1>15. \A i \in 0 .. size_ :
          node'[V[i]].data = IF i = 0 THEN e ELSE node[W[i - 1]].data
  <2>1. \A k \in 0 .. (size_ - 1) : V[k + 1] = W[k] /\ W[k] \in D
    BY <1>t, <1>2, <1>5
  <2> QED BY <2>1, <1>s, <1>5, <1>6
<1> QED BY <1>3, <1>14, <1>15 DEF V
(* The walk after the node at index j has been removed.                    *)
Cut(W, j) == [i \in 0 .. (size_ - 1) |-> IF i < j THEN W[i] ELSE W[i + 1]]

(* removeInternal takes one node out of the walk.                          *)
LEMMA CutWalk ==
  ASSUME NEW W, Walk(W), NEW j \in 0 .. (size_ - 1), removeInternal(W[j])
  PROVE  /\ IsWalk(Cut(W, j), node', head_', tail_', size_')
         /\ size_' = size_ - 1
         /\ \A i \in 0 .. (size_ - 2) :
              node'[Cut(W, j)[i]].data = node[W[IF i < j THEN i ELSE i + 1]].data
<1> DEFINE V == Cut(W, j)
           D == DOMAIN node
           pos == W[j]
           p == IF j = 0 THEN Null ELSE W[j - 1]
           x == W[j + 1]
<1>1. /\ size_ \in Nat /\ Null \notin D /\ D \subseteq Nodes
      /\ size_ # 0 /\ j \in Nat /\ j < size_
      /\ tail_ = W[size_ - 1] /\ head_ = W[0]
  <2>1. size_ \in Nat /\ Null \notin D /\ D \subseteq Nodes
    BY WalkEnds DEF Walk, IsWalk
  <2>2. size_ # 0 /\ j \in Nat /\ j < size_
    BY <2>1
  <2>3. tail_ = W[size_ - 1] /\ head_ = W[0]
    BY <2>2, WalkEnds
  <2> QED BY <2>1, <2>2, <2>3
<1>2. /\ \A i \in 0 .. (size_ - 1) : W[i] \in D
      /\ \A i \in 0 .. (size_ - 1) : node[W[i]].next = W[i + 1]
      /\ \A i \in 0 .. (size_ - 1) : node[W[i]].prev = IF i = 0 THEN Null ELSE W[i - 1]
      /\ \A i, k \in 0 .. (size_ - 1) : W[i] = W[k] => i = k
      /\ \A m \in D : \E i \in 0 .. (size_ - 1) : W[i] = m
      /\ node \in [D -> queue_node]
      /\ W \in [0 .. size_ -> Nodes \cup {Null}]
      /\ W[0] = head_ /\ W[size_] = Null
  BY DEF Walk, IsWalk
<1>a. /\ pos \in D /\ pos # Null
      /\ node[pos].prev = p /\ node[pos].next = x
  BY <1>1, <1>2
<1>b. p \in Nodes \cup {Null} /\ x \in Nodes \cup {Null}
  <2>1. j + 1 \in 0 .. size_ /\ (j # 0 => j - 1 \in 0 .. size_)
    BY <1>1
  <2> QED BY <2>1, <1>2
<1>3. /\ node' = [m \in D \ {pos} |->
                   [data |-> node[m].data,
                    next |-> IF m = p THEN x ELSE node[m].next,
                    prev |-> IF m = x THEN p ELSE node[m].prev]]
      /\ head_' = IF pos = head_ THEN x ELSE head_
      /\ tail_' = IF pos = tail_ THEN p ELSE tail_
      /\ size_' = size_ - 1
  <2> HIDE DEF p, x, pos
  <2>1. removeInternal(pos)
    BY DEF pos
  <2> QED BY <1>a, <2>1 DEF removeInternal
<1>4. DOMAIN node' = D \ {pos}
  BY <1>3
<1>5. /\ \A i \in 0 .. (size_ - 1) : V[i] = IF i < j THEN W[i] ELSE W[i + 1]
      /\ V \in [0 .. (size_ - 1) -> Nodes \cup {Null}]
  <2>1. \A i \in 0 .. (size_ - 1) : i \in 0 .. size_ /\ i + 1 \in 0 .. size_
    BY <1>1
  <2> QED BY <2>1, <1>2 DEF Cut
<1>6. \A m \in D \ {pos} : /\ node'[m].data = node[m].data
                           /\ node'[m].next = IF m = p THEN x ELSE node[m].next
                           /\ node'[m].prev = IF m = x THEN p ELSE node[m].prev
  <2> HIDE DEF p, x, pos, D
  <2> QED BY <1>3
<1>7. node' \in [DOMAIN node' -> queue_node]
  <2>1. \A m \in D : /\ node[m].data \in Elements
                      /\ node[m].next \in Nodes \cup {Null}
                      /\ node[m].prev \in Nodes \cup {Null}
    BY <1>2 DEF queue_node
  <2>2. ASSUME NEW m \in D \ {pos} PROVE node'[m] \in queue_node
    <3> DEFINE nx == IF m = p THEN x ELSE node[m].next
               pr == IF m = x THEN p ELSE node[m].prev
    <3> HIDE DEF p, x, pos, D
    <3>1. node'[m] = [data |-> node[m].data, next |-> nx, prev |-> pr]
      BY <1>3
    <3>2. nx \in Nodes \cup {Null} /\ pr \in Nodes \cup {Null}
      BY <2>1, <1>b
    <3> HIDE DEF nx, pr
    <3> QED BY <3>1, <3>2, <2>1, NodeTyped
  <2> HIDE DEF p, x, pos, D
  <2>3. node' = [m \in D \ {pos} |-> node'[m]]
    BY <1>3
  <2> QED BY <2>2, <2>3, <1>4
<1> HIDE DEF V, D
<1>s. ASSUME NEW i \in 0 .. (size_ - 1)
      PROVE  /\ i \in Nat
             /\ i < j => V[i] = W[i]
             /\ i >= j => V[i] = W[i + 1]
  BY <1>1, <1>5
<1>8. ASSUME NEW i \in 0 .. (size_ - 2)
      PROVE  /\ i \in 0 .. (size_ - 1) /\ i + 1 \in 0 .. (size_ - 1)
             /\ V[i] \in D \ {pos}
  <2>1. i \in 0 .. (size_ - 1) /\ i + 1 \in 0 .. (size_ - 1) /\ i \in Nat
    BY <1>1
  <2>2. CASE i < j
    <3>1. V[i] = W[i] /\ i # j
      BY <2>1, <2>2, <1>s
    <3> QED BY <2>1, <3>1, <1>2
  <2>3. CASE i >= j
    <3>1. V[i] = W[i + 1] /\ i + 1 # j
      BY <2>1, <2>3, <1>s, <1>1
    <3> QED BY <2>1, <3>1, <1>2
  <2> QED BY <2>1, <2>2, <2>3, <1>1
<1>9. \A i \in 0 .. (size_ - 2) : node'[V[i]].next = V[i + 1]
  <2>1. ASSUME NEW i \in 0 .. (size_ - 2) PROVE node'[V[i]].next = V[i + 1]
    <3>1. /\ i \in 0 .. (size_ - 1) /\ i + 1 \in 0 .. (size_ - 1)
          /\ V[i] \in D \ {pos} /\ i \in Nat
      BY <1>8
    <3>2. CASE i + 1 < j
      <4>1. V[i] = W[i] /\ V[i + 1] = W[i + 1]
        BY <3>1, <3>2, <1>s, <1>1
      <4>2. W[i] # p
        <5>1. j # 0 /\ j - 1 \in 0 .. (size_ - 1) /\ i # j - 1
          BY <3>1, <3>2, <1>1
        <5> QED BY <3>1, <5>1, <1>2
      <4>3. node[W[i]].next = W[i + 1]
        BY <3>1, <1>2
      <4> HIDE DEF p, x
      <4> QED BY <3>1, <4>1, <4>2, <4>3, <1>6
    <3>3. CASE i + 1 = j
      <4>1. V[i] = W[i] /\ V[i + 1] = W[j + 1] /\ j # 0 /\ i = j - 1
        BY <3>1, <3>3, <1>s, <1>1
      <4>2. V[i] = p /\ V[i + 1] = x
        BY <4>1
      <4> HIDE DEF p, x
      <4> QED BY <3>1, <4>2, <1>6
    <3>4. CASE i + 1 > j
      <4>1. V[i] = W[i + 1] /\ V[i + 1] = W[(i + 1) + 1]
        BY <3>1, <3>4, <1>s, <1>1
      <4>2. W[i + 1] # p
        <5>1. j # 0 => j - 1 \in 0 .. (size_ - 1) /\ i + 1 # j - 1
          BY <3>1, <3>4, <1>1
        <5> QED BY <3>1, <5>1, <1>1, <1>2
      <4>3. node[W[i + 1]].next = W[(i + 1) + 1]
        BY <3>1, <1>2
      <4> HIDE DEF p, x
      <4> QED BY <3>1, <4>1, <4>2, <4>3, <1>6
    <3> QED BY <3>1, <3>2, <3>3, <3>4, <1>1
  <2> QED BY <2>1
<1>10. \A i \in 0 .. (size_ - 2) : node'[V[i]].prev = IF i = 0 THEN Null ELSE V[i - 1]
  <2>1. ASSUME NEW i \in 0 .. (size_ - 2)
        PROVE  node'[V[i]].prev = IF i = 0 THEN Null ELSE V[i - 1]
    <3>1. /\ i \in 0 .. (size_ - 1) /\ i + 1 \in 0 .. (size_ - 1)
          /\ V[i] \in D \ {pos} /\ i \in Nat
      BY <1>8
    <3>x. x = Null \/ j + 1 \in 0 .. (size_ - 1)
      <4>1. j + 1 = size_ \/ j + 1 \in 0 .. (size_ - 1)
        BY <1>1
      <4> QED BY <4>1, <1>2
    <3>2. CASE i < j
      <4>1. V[i] = W[i] /\ (i # 0 => V[i - 1] = W[i - 1])
        BY <3>1, <3>2, <1>s, <1>1
      <4>2. W[i] # x
        <5>1. i # j + 1 /\ W[i] # Null
          BY <3>1, <3>2, <1>1, <1>2
        <5> QED BY <3>1, <3>x, <5>1, <1>2
      <4>3. node[W[i]].prev = IF i = 0 THEN Null ELSE W[i - 1]
        BY <3>1, <1>2
      <4> HIDE DEF p, x
      <4> QED BY <3>1, <4>1, <4>2, <4>3, <1>6
    <3>3. CASE i = j
      <4>1. V[i] = x /\ p = IF i = 0 THEN Null ELSE V[i - 1]
        <5>1. i # 0 => i - 1 \in 0 .. (size_ - 1) /\ i - 1 < j
          BY <3>1, <3>3, <1>1
        <5> QED BY <3>1, <3>3, <5>1, <1>s, <1>1
      <4> HIDE DEF p, x
      <4> QED BY <3>1, <4>1, <1>6
    <3>4. CASE i > j
      <4>1. i # 0 /\ i - 1 \in 0 .. (size_ - 1) /\ i - 1 >= j /\ (i - 1) + 1 = i
            /\ i >= j /\ i + 1 # 0 /\ (i + 1) - 1 = i
        BY <3>1, <3>4, <1>1
      <4>2. V[i] = W[i + 1] /\ V[i - 1] = W[i]
        <5>1. V[i - 1] = W[(i - 1) + 1]
          BY <4>1, <1>s
        <5> QED BY <3>1, <4>1, <5>1, <1>s
      <4>3. W[i + 1] # x
        <5>1. i + 1 # j + 1
          BY <3>1, <3>4, <1>1
        <5>2. W[i + 1] # Null
          BY <3>1, <1>1, <1>2
        <5> QED BY <3>1, <3>x, <5>1, <5>2, <1>2
      <4>4. node[W[i + 1]].prev = W[i]
        BY <3>1, <4>1, <1>2
      <4> HIDE DEF p, x
      <4> QED BY <3>1, <4>1, <4>2, <4>3, <4>4, <1>6
    <3> QED BY <3>1, <3>2, <3>3, <3>4, <1>1
  <2> QED BY <2>1
<1>11. \A i, k \in 0 .. (size_ - 2) : V[i] = V[k] => i = k
  <2>1. SUFFICES ASSUME NEW i \in 0 .. (size_ - 2), NEW k \in 0 .. (size_ - 2), V[i] = V[k]
                 PROVE  i = k
    OBVIOUS
  <2>2. /\ i \in 0 .. (size_ - 1) /\ i + 1 \in 0 .. (size_ - 1) /\ i \in Nat
        /\ k \in 0 .. (size_ - 1) /\ k + 1 \in 0 .. (size_ - 1) /\ k \in Nat
    BY <1>8
  <2>3. CASE i < j /\ k < j
    BY <2>1, <2>2, <2>3, <1>2, <1>s
  <2>4. CASE i < j /\ k >= j
    <3>1. W[i] = W[k + 1] /\ i # k + 1
      BY <2>1, <2>2, <2>4, <1>s, <1>1
    <3> QED BY <2>2, <3>1, <1>2
  <2>5. CASE i >= j /\ k < j
    <3>1. W[i + 1] = W[k] /\ i + 1 # k
      BY <2>1, <2>2, <2>5, <1>s, <1>1
    <3> QED BY <2>2, <3>1, <1>2
  <2>6. CASE i >= j /\ k >= j
    <3>1. W[i + 1] = W[k + 1]
      BY <2>1, <2>2, <2>6, <1>s
    <3>2. i + 1 = k + 1
      BY <2>2, <3>1, <1>2
    <3> QED BY <2>2, <3>2
  <2> QED BY <2>2, <2>3, <2>4, <2>5, <2>6, <1>1
<1>12. \A m \in DOMAIN node' : \E i \in 0 .. (size_ - 2) : V[i] = m
  <2>1. SUFFICES ASSUME NEW m \in D \ {pos} PROVE \E i \in 0 .. (size_ - 2) : V[i] = m
    BY <1>4
  <2>2. PICK k \in 0 .. (size_ - 1) : W[k] = m
    BY <1>2
  <2>3. k # j /\ k \in Nat /\ k < size_
    BY <2>2, <1>1
  <2>4. CASE k < j
    <3>1. k \in 0 .. (size_ - 2) /\ V[k] = m
      BY <2>2, <2>3, <2>4, <1>1, <1>s
    <3> QED BY <3>1
  <2>5. CASE k > j
    <3>1. k - 1 \in 0 .. (size_ - 2) /\ k - 1 >= j /\ (k - 1) + 1 = k
          /\ k - 1 \in 0 .. (size_ - 1)
      BY <2>3, <2>5, <1>1
    <3>2. V[k - 1] = W[(k - 1) + 1]
      BY <3>1, <1>s
    <3> QED BY <2>2, <3>1, <3>2
  <2> QED BY <2>3, <2>4, <2>5, <1>1
<1>13. V[0] = head_' /\ V[size_ - 1] = Null
  <2>1. 0 \in 0 .. (size_ - 1) /\ size_ - 1 \in 0 .. (size_ - 1) /\ size_ - 1 >= j
        /\ (size_ - 1) + 1 = size_
    BY <1>1
  <2>2. V[size_ - 1] = Null
    <3>1. V[size_ - 1] = W[(size_ - 1) + 1]
      BY <2>1, <1>s
    <3> QED BY <2>1, <3>1, <1>2
  <2>3. CASE j = 0
    BY <2>1, <2>2, <2>3, <1>3, <1>1, <1>s
  <2>4. CASE j # 0
    <3>1. pos # head_
      BY <2>1, <2>4, <1>1, <1>2
    <3>2. V[0] = W[0]
      BY <2>1, <2>4, <1>1, <1>s
    <3> QED BY <2>2, <3>1, <3>2, <1>1, <1>3
  <2> QED BY <2>3, <2>4
<1>14. tail_' = IF size_ - 1 = 0 THEN Null ELSE V[size_ - 2]
  <2>1. size_ - 1 \in 0 .. (size_ - 1)
    BY <1>1
  <2>2. CASE j = size_ - 1
    <3>1. pos = tail_ /\ tail_' = p
      BY <2>2, <1>1, <1>3
    <3>2. j # 0 => V[size_ - 2] = W[j - 1]
      <4>1. j # 0 => size_ - 2 \in 0 .. (size_ - 1) /\ size_ - 2 < j /\ size_ - 2 = j - 1
        BY <2>2, <1>1
      <4> QED BY <4>1, <1>s
    <3> QED BY <2>2, <3>1, <3>2
  <2>3. CASE j # size_ - 1
    <3>1. pos # tail_
      BY <2>1, <2>3, <1>1, <1>2
    <3>2. size_ - 2 \in 0 .. (size_ - 1) /\ size_ - 2 >= j /\ (size_ - 2) + 1 = size_ - 1
          /\ size_ - 1 # 0
      BY <2>3, <1>1
    <3>3. V[size_ - 2] = W[(size_ - 2) + 1]
      BY <3>2, <1>s
    <3> QED BY <3>1, <3>2, <3>3, <1>1, <1>3
  <2> QED BY <2>2, <2>3
<1>15. IsWalk(V, node', head_', tail_', size_')
  <2>1. size_' \in Nat /\ size_' = size_ - 1 /\ size_' - 1 = size_ - 2
    BY <1>1, <1>3
  <2>2. DOMAIN node' \subseteq Nodes
    BY <1>1, <1>4
  <2>3. \A i \in 0 .. (size_ - 2) : V[i] \in DOMAIN node'
    BY <1>4, <1>8
  <2> HIDE DEF p, x, pos
  <2> QED
    BY <2>1, <2>2, <2>3, <1>5, <1>7, <1>9, <1>10, <1>11, <1>12, <1>13, <1>14 DEF IsWalk
<1>16. \A i \in 0 .. (size_ - 2) :
          node'[V[i]].data = node[W[IF i < j THEN i ELSE i + 1]].data
  <2>1. ASSUME NEW i \in 0 .. (size_ - 2)
        PROVE  V[i] \in D \ {pos} /\ V[i] = W[IF i < j THEN i ELSE i + 1]
    BY <1>8, <1>5
  <2> QED BY <2>1, <1>6
<1> QED BY <1>3, <1>15, <1>16 DEF V
(* f is the recursion of Reachable.                                        *)
Collects(f, nd) ==
  f = [n \in DOMAIN nd \cup {Null} |-> IF n = Null THEN {} ELSE {n} \cup f[nd[n].next]]

(* Clear reaches, and so deletes, every node of the list.                  *)
LEMMA ReachableIsAll ==
  ASSUME NEW W, Walk(W)
  PROVE  DOMAIN node \subseteq Reachable
<1> DEFINE D == DOMAIN node
           I == 0 .. (size_ - 1)
           g == [n \in D \cup {Null} |-> {m \in D : \E i, k \in I : i <= k /\ W[i] = n /\ W[k] = m}]
           f == CHOOSE y : Collects(y, node)
<1>1. size_ \in Nat /\ Null \notin D
  BY WalkEnds
<1>2. /\ \A i \in I : W[i] \in D
      /\ \A i \in I : node[W[i]].next = W[i + 1]
      /\ \A i, k \in I : W[i] = W[k] => i = k
      /\ \A m \in D : \E i \in I : W[i] = m
      /\ W[0] = head_ /\ W[size_] = Null
  BY DEF Walk, IsWalk
<1>3. Collects(g, node)
  <2>1. g[Null] = {}
    BY <1>1, <1>2
  <2>2. ASSUME NEW i \in I PROVE g[W[i]] = {W[i]} \cup g[node[W[i]].next]
    <3>1. node[W[i]].next = W[i + 1] /\ W[i] \in D
      BY <1>2
    <3>2. g[W[i]] = {W[k] : k \in i .. (size_ - 1)}
      <4>1. g[W[i]] = {m \in D : \E k \in I : i <= k /\ W[k] = m}
        BY <3>1, <1>2
      <4>2. \A k : k \in i .. (size_ - 1) <=> k \in I /\ i <= k
        BY <1>1
      <4> HIDE DEF g, I
      <4> QED BY <4>1, <4>2, <1>2
    <3>3. g[W[i + 1]] = {W[k] : k \in (i + 1) .. (size_ - 1)}
      <4>1. CASE i + 1 = size_
        <5>1. W[i + 1] = Null /\ (i + 1) .. (size_ - 1) = {}
          BY <4>1, <1>1, <1>2
        <5> HIDE DEF g
        <5> QED BY <2>1, <5>1
      <4>2. CASE i + 1 # size_
        <5>1. i + 1 \in I
          BY <4>2, <1>1
        <5>2. g[W[i + 1]] = {m \in D : \E k \in I : i + 1 <= k /\ W[k] = m}
          BY <5>1, <1>2
        <5>3. \A k : k \in (i + 1) .. (size_ - 1) <=> k \in I /\ i + 1 <= k
          BY <1>1
        <5> HIDE DEF g, I
        <5> QED BY <5>2, <5>3, <1>2
      <4> QED BY <4>1, <4>2
    <3>4. i .. (size_ - 1) = {i} \cup ((i + 1) .. (size_ - 1))
      BY <1>1
    <3> HIDE DEF g
    <3> QED BY <3>1, <3>2, <3>3, <3>4
  <2>3. \A n \in D : g[n] = {n} \cup g[node[n].next]
    <3> HIDE DEF g
    <3> QED BY <2>2, <1>2
  <2>4. g = [n \in D \cup {Null} |-> g[n]]
    OBVIOUS
  <2> HIDE DEF g
  <2> QED BY <2>1, <2>3, <2>4, <1>1 DEF Collects
<1>4. Collects(f, node)
  <2> HIDE DEF g
  <2> QED BY <1>3
<1>5. Reachable = f[head_]
  BY Zenon DEF Reachable, Collects
<1> HIDE DEF f
<1>6. \A i \in I : f[W[i]] = {W[i]} \cup f[W[i + 1]]
  BY <1>1, <1>2, <1>4 DEF Collects
<1> DEFINE Bad == {i \in I : ~ (f[W[i]] \subseteq f[head_])}
<1>7. Bad = {}
  <2>1. SUFFICES ASSUME Bad # {} PROVE FALSE
    OBVIOUS
  <2>2. PICK i \in Bad : \A k \in Bad : i <= k
    <3>1. Bad \subseteq Nat
      OBVIOUS
    <3> HIDE DEF Bad
    <3> QED BY <2>1, <3>1, LeastNat
  <2>3. i # 0
    BY <2>2, <1>2
  <2>4. i - 1 \in I /\ i - 1 \notin Bad /\ (i - 1) + 1 = i
    BY <2>2, <2>3, <1>1
  <2>5. f[W[i - 1]] = {W[i - 1]} \cup f[W[i]]
    BY <2>4, <1>6
  <2> QED BY <2>2, <2>4, <2>5
<1>8. ASSUME NEW m \in D PROVE m \in f[head_]
  <2>1. PICK i \in I : W[i] = m
    BY <1>2
  <2>2. m \in f[W[i]]
    BY <2>1, <1>6
  <2> QED BY <2>1, <2>2, <1>7
<1> QED BY <1>5, <1>8

(* Clear leaves the empty list.                                            *)
LEMMA ClearWalk ==
  ASSUME NEW W, Walk(W), Clear
  PROVE  IsWalk([i \in 0 .. 0 |-> Null], node', head_', tail_', size_') /\ size_' = 0
<1>1. DOMAIN node' = {} /\ head_' = Null /\ tail_' = Null /\ size_' = 0
  <2>1. DOMAIN node \ Reachable = {}
    BY ReachableIsAll
  <2> QED BY <2>1 DEF Clear
<1>2. node' = [n \in {} |-> Null]
  BY <1>1, ReachableIsAll DEF Clear
<1> QED BY <1>1, <1>2 DEF IsWalk
-----------------------------------------------------------------------------
(* A walk of the list a step leaves keeps the invariant's first part.      *)
LEMMA WalkAfter ==
  ASSUME NEW V, IsWalk(V, node', head_', tail_', size_')
  PROVE  Linked'
<1>1. size_' \in Nat /\ V \in [0 .. size_' -> Nodes \cup {Null}]
  BY DEF IsWalk
<1> QED BY <1>1 DEF Linked, Walk

(* A step that leaves the list alone leaves its walk, and what it holds.   *)
LEMMA SameWalk ==
  ASSUME NEW W, Walk(W), UNCHANGED links
  PROVE  /\ IsWalk(W, node', head_', tail_', size_')
         /\ size_' = size_ /\ size_ \in Nat
         /\ \A k \in 0 .. size_ : GetAt(k)' = GetAt(k)
<1>1. node' = node /\ head_' = head_ /\ tail_' = tail_ /\ size_' = size_
  BY DEF links
<1>2. IsWalk(W, node', head_', tail_', size_')
  BY <1>1 DEF Walk
<1>3. \A k \in 0 .. size_ : GetAt(k)' = GetAt(k)
  BY <1>1, <1>2, ReadsWalk, ReadsWalkAfter
<1> QED BY <1>1, <1>2, <1>3, WalkEnds

(* What a removal at index j does to the elements.                         *)
LEMMA CutReads ==
  ASSUME NEW W, Walk(W), NEW j \in 0 .. (size_ - 1), removeInternal(NodeAt(j))
  PROVE  /\ Linked' /\ size_' = size_ - 1
         /\ \A k \in 0 .. (size_' - 1) : GetAt(k)' = GetAt(IF k < j THEN k ELSE k + 1)
<1>1. size_ \in Nat /\ j \in 0 .. size_ /\ j \in Nat
  BY WalkEnds
<1>2. removeInternal(W[j])
  BY <1>1, ReadsWalk
<1>3. /\ IsWalk(Cut(W, j), node', head_', tail_', size_')
      /\ size_' = size_ - 1
      /\ \A i \in 0 .. (size_ - 2) :
              node'[Cut(W, j)[i]].data = node[W[IF i < j THEN i ELSE i + 1]].data
  BY <1>2, CutWalk
<1>4. ASSUME NEW k \in 0 .. (size_' - 1)
      PROVE  GetAt(k)' = GetAt(IF k < j THEN k ELSE k + 1)
  <2> DEFINE s == IF k < j THEN k ELSE k + 1
  <2>1. k \in 0 .. (size_ - 2) /\ k \in 0 .. size_' /\ s \in 0 .. size_
    BY <1>1, <1>3
  <2>2. node'[Cut(W, j)[k]].data = node[W[s]].data
    BY <1>3, <2>1
  <2> HIDE DEF s
  <2>3. GetAt(s) = node[W[s]].data
    BY <2>1, ReadsWalk
  <2>4. GetAt(k)' = node'[Cut(W, j)[k]].data
    BY <2>1, <1>3, ReadsWalkAfter
  <2> QED BY <2>2, <2>3, <2>4 DEF s
<1>5. Linked'
  BY <1>3, WalkAfter
<1> QED BY <1>3, <1>4, <1>5

(* What push_back does to the elements.                                    *)
LEMMA BackReads ==
  ASSUME NEW W, Walk(W), NEW e \in Elements, push_back(e)
  PROVE  /\ Linked' /\ size_' = size_ + 1
         /\ \A k \in 0 .. size_ : GetAt(k)' = IF k < size_ THEN GetAt(k) ELSE e
<1>1. PICK n \in Nodes \ DOMAIN node : insertInternal(e, Null, n)
  BY DEF push_back, Insert
<1> DEFINE V == Back(W, n)
<1>2. /\ IsWalk(V, node', head_', tail_', size_')
      /\ size_' = size_ + 1
      /\ \A i \in 0 .. size_ : node'[V[i]].data = IF i < size_ THEN node[W[i]].data ELSE e
  BY <1>1, BackWalk
<1>3. \A i \in 0 .. size_ : i \in 0 .. size_'
  BY <1>2, WalkEnds
<1> HIDE DEF V
<1> QED BY <1>2, <1>3, WalkAfter, ReadsWalk, ReadsWalkAfter

(* What push_front does to the elements.                                   *)
LEMMA FrontReads ==
  ASSUME NEW W, Walk(W), NEW e \in Elements, push_front(e)
  PROVE  /\ Linked' /\ size_' = size_ + 1
         /\ \A k \in 0 .. size_ : GetAt(k)' = IF k = 0 THEN e ELSE GetAt(k - 1)
<1>1. PICK n \in Nodes \ DOMAIN node : insertInternal(e, head_, n)
  BY DEF push_front, Insert
<1> DEFINE V == Front(W, n)
<1>2. /\ IsWalk(V, node', head_', tail_', size_')
      /\ size_' = size_ + 1
      /\ \A i \in 0 .. size_ : node'[V[i]].data = IF i = 0 THEN e ELSE node[W[i - 1]].data
  BY <1>1, FrontWalk
<1>3. \A i \in 0 .. size_ : i \in 0 .. size_' /\ (i # 0 => i - 1 \in 0 .. size_)
  BY <1>2, WalkEnds
<1> HIDE DEF V
<1> QED BY <1>2, <1>3, WalkAfter, ReadsWalk, ReadsWalkAfter

(* Remove(index) at the index one past the end changes nothing.            *)
LEMMA IndexCases ==
  ASSUME NEW W, Walk(W), NEW index \in 0 .. size_, RemoveIndex(index)
  PROVE  \/ UNCHANGED links
         \/ index \in 0 .. (size_ - 1) /\ removeInternal(NodeAt(index))
<1>1. size_ \in Nat /\ W[size_] = Null
  BY DEF Walk, IsWalk
<1>2. CASE index = size_
  <2>1. NodeAt(index) = Null
    BY <1>1, <1>2, ReadsWalk
  <2> QED BY <2>1 DEF RemoveIndex, removeInternal
<1>3. CASE index # size_
  BY <1>1, <1>3 DEF RemoveIndex
<1> QED BY <1>2, <1>3

(* The invariant holds of the empty list.                                  *)
LEMMA InitInv == QueueInit => QueueInv
<1> SUFFICES ASSUME QueueInit PROVE QueueInv
  OBVIOUS
<1> DEFINE E == [i \in 0 .. 0 |-> Null]
<1>1. size_ = 0 /\ E \in [0 .. size_ -> Nodes \cup {Null}]
  BY DEF QueueInit
<1>2. Walk(E)
  BY DEF QueueInit, Walk, IsWalk
<1>3. Linked
  <2> HIDE DEF E
  <2> QED BY <1>1, <1>2 DEF Linked
<1>4. LoopOK
  BY DEF QueueInit, NoCall, LoopOK
<1> QED BY <1>3, <1>4 DEF QueueInv

(* Every step keeps the invariant.                                         *)
LEMMA NextInv == QueueInv /\ [QueueNext]_queueVars => QueueInv'
<1> SUFFICES ASSUME QueueInv, [QueueNext]_queueVars PROVE QueueInv'
  OBVIOUS
<1>1. PICK W : Walk(W)
  BY DEF QueueInv, Linked
<1>n. size_ \in Nat
  BY <1>1, WalkEnds
<1>q. ASSUME ~loop.running, UNCHANGED loop PROVE LoopOK'
  BY <1>q DEF LoopOK
<1>2. ASSUME NEW e \in Elements, push_back(e) PROVE QueueInv'
  BY <1>1, <1>2, <1>q, BackReads DEF push_back, Insert, QueueInv
<1>3. ASSUME NEW e \in Elements, push_front(e) PROVE QueueInv'
  BY <1>1, <1>3, <1>q, FrontReads DEF push_front, Insert, QueueInv
<1>4. ASSUME NEW e \in Elements, RemoveCall(e) PROVE QueueInv'
  <2>1. UNCHANGED links /\ loop' = Call(e, 0, Distinct)
    BY <1>4 DEF RemoveCall
  <2>2. /\ IsWalk(W, node', head_', tail_', size_') /\ size_' = size_
        /\ \A k \in 0 .. size_ : GetAt(k)' = GetAt(k)
    BY <1>1, <2>1, SameWalk
  <2>3. loop'.running /\ loop'.i = 0 /\ loop'.distinct = Distinct
    BY <2>1 DEF Call
  <2>4. \A i \in 0 .. (size_ - 1) : i \in 0 .. size_ /\ ~(i < 0)
    BY <1>n
  <2>5. Distinct => \A i, j \in 0 .. (size_' - 1) : GetAt(i)' = GetAt(j)' => i = j
    BY <2>2, <2>4 DEF Distinct
  <2>6. LoopOK'
    BY <2>2, <2>3, <2>4, <2>5 DEF LoopOK
  <2> QED BY <2>2, <2>6, WalkAfter DEF QueueInv
<1>5. ASSUME NEW index \in 0 .. size_, RemoveIndex(index) PROVE QueueInv'
  <2>1. LoopOK'
    BY <1>5, <1>q DEF RemoveIndex
  <2>2. CASE UNCHANGED links
    BY <1>1, <2>1, <2>2, SameWalk, WalkAfter DEF QueueInv
  <2>3. CASE index \in 0 .. (size_ - 1) /\ removeInternal(NodeAt(index))
    BY <1>1, <2>1, <2>3, CutReads DEF QueueInv
  <2> QED BY <1>1, <1>5, <2>2, <2>3, IndexCases
<1>6. ASSUME RemoveTurn PROVE QueueInv'
  <2> DEFINE j == loop.i
  <2>1. j \in Nat /\ j \in 0 .. (size_ - 1) /\ loop.running
    BY <1>6, <1>n DEF RemoveTurn, QueueInv, LoopOK
  <2>2. /\ loop'.running /\ loop'.i = j + 1
        /\ loop'.distinct = loop.distinct /\ loop'.e = loop.e
    BY <1>6 DEF RemoveTurn, Call
  <2>3. loop.distinct =>
           /\ \A i, k \in 0 .. (size_ - 1) : GetAt(i) = GetAt(k) => i = k
           /\ \A i \in 0 .. (size_ - 1) : i < j => GetAt(i) # loop.e
    BY <2>1 DEF QueueInv, LoopOK
  <2> HIDE DEF j
  <2>4. CASE GetAt(j) = loop.e
    <3>1. removeInternal(NodeAt(j))
      BY <1>6, <2>4 DEF RemoveTurn, j
    <3>2. /\ Linked' /\ size_' = size_ - 1
          /\ \A k \in 0 .. (size_' - 1) : GetAt(k)' = GetAt(IF k < j THEN k ELSE k + 1)
      BY <1>1, <2>1, <3>1, CutReads
    <3>3. ASSUME NEW k \in 0 .. (size_' - 1)
          PROVE  /\ k \in Nat /\ k \in 0 .. (size_ - 1) /\ k + 1 \in 0 .. (size_ - 1)
                 /\ k < j => GetAt(k)' = GetAt(k)
                 /\ k >= j => GetAt(k)' = GetAt(k + 1)
      <4>1. k \in Nat /\ k \in 0 .. (size_ - 1) /\ k + 1 \in 0 .. (size_ - 1)
        BY <1>n, <3>2
      <4>2. GetAt(k)' = GetAt(IF k < j THEN k ELSE k + 1)
        BY <3>2
      <4>3. CASE k < j
        BY <2>1, <4>1, <4>2, <4>3
      <4>4. CASE ~(k < j)
        BY <2>1, <4>1, <4>2, <4>4
      <4> QED BY <4>3, <4>4, <4>1, <2>1
    <3>4. ASSUME loop.distinct, NEW i \in 0 .. (size_' - 1), NEW k \in 0 .. (size_' - 1),
                 GetAt(i)' = GetAt(k)'
          PROVE  i = k
      <4>1. /\ i \in Nat /\ k \in Nat
            /\ i \in 0 .. (size_ - 1) /\ i + 1 \in 0 .. (size_ - 1)
            /\ k \in 0 .. (size_ - 1) /\ k + 1 \in 0 .. (size_ - 1)
        BY <3>3
      <4>2. CASE i < j /\ k < j
        BY <2>3, <3>3, <3>4, <4>1, <4>2
      <4>3. CASE i < j /\ k >= j
        <5>1. GetAt(i) = GetAt(k + 1) /\ i # k + 1
          BY <2>1, <3>3, <3>4, <4>1, <4>3
        <5> QED BY <2>3, <3>4, <4>1, <5>1
      <4>4. CASE i >= j /\ k < j
        <5>1. GetAt(i + 1) = GetAt(k) /\ i + 1 # k
          BY <2>1, <3>3, <3>4, <4>1, <4>4
        <5> QED BY <2>3, <3>4, <4>1, <5>1
      <4>5. CASE i >= j /\ k >= j
        <5>1. GetAt(i + 1) = GetAt(k + 1)
          BY <3>3, <3>4, <4>5
        <5>2. i + 1 = k + 1
          BY <2>3, <3>4, <4>1, <5>1
        <5> QED BY <4>1, <5>2
      <4> QED BY <2>1, <4>1, <4>2, <4>3, <4>4, <4>5
    <3>5. ASSUME loop.distinct, NEW k \in 0 .. (size_' - 1), k < j + 1
          PROVE  GetAt(k)' # loop.e
      <4>1. CASE k < j
        BY <2>3, <3>3, <3>5, <4>1
      <4>2. CASE k = j
        <5>1. GetAt(k)' = GetAt(j + 1) /\ j + 1 \in 0 .. (size_ - 1) /\ j + 1 # j
          BY <2>1, <3>3, <4>2
        <5> QED BY <2>1, <2>3, <2>4, <3>5, <5>1
      <4>3. k \in Nat
        BY <3>3
      <4> QED BY <2>1, <3>5, <4>1, <4>2, <4>3
    <3>6. LoopOK'
      BY <2>1, <2>2, <3>4, <3>5 DEF LoopOK
    <3> QED BY <3>2, <3>6 DEF QueueInv
  <2>5. CASE GetAt(j) # loop.e
    <3>1. UNCHANGED links
      BY <1>6, <2>5 DEF RemoveTurn, j
    <3>2. /\ IsWalk(W, node', head_', tail_', size_') /\ size_' = size_
          /\ \A k \in 0 .. size_ : GetAt(k)' = GetAt(k)
      BY <1>1, <3>1, SameWalk
    <3>3. \A k \in 0 .. (size_ - 1) : k \in 0 .. size_ /\ (k < j + 1 => k < j \/ k = j)
      BY <1>n, <2>1
    <3>4. LoopOK'
      BY <2>1, <2>2, <2>3, <2>5, <3>2, <3>3 DEF LoopOK
    <3> QED BY <3>2, <3>4, WalkAfter DEF QueueInv
  <2> QED BY <2>4, <2>5
<1>7. ASSUME RemoveReturn PROVE QueueInv'
  BY <1>1, <1>7, SameWalk, WalkAfter DEF RemoveReturn, NoCall, QueueInv, LoopOK
<1>8. ASSUME Clear PROVE QueueInv'
  BY <1>1, <1>8, <1>q, ClearWalk, WalkAfter DEF Clear, QueueInv
<1>9. ASSUME UNCHANGED queueVars PROVE QueueInv'
  <2>1. UNCHANGED links /\ loop' = loop
    BY <1>9 DEF queueVars, links
  <2>2. /\ IsWalk(W, node', head_', tail_', size_') /\ size_' = size_
        /\ \A k \in 0 .. size_ : GetAt(k)' = GetAt(k)
    BY <1>1, <2>1, SameWalk
  <2>3. \A k \in 0 .. (size_ - 1) : k \in 0 .. size_
    BY <1>n
  <2>4. LoopOK'
    BY <2>1, <2>2, <2>3 DEF QueueInv, LoopOK
  <2> QED BY <2>2, <2>4, WalkAfter DEF QueueInv
<1> QED BY <1>2, <1>3, <1>4, <1>5, <1>6, <1>7, <1>8, <1>9 DEF QueueNext

(***************************************************************************)
(* The list always has a walk that meets each of its nodes once, and the   *)
(* loop of Remove(e) never leaves the element it looks for behind.         *)
(***************************************************************************)
THEOREM QueueInvariant == QueueSpec => []QueueInv
BY InitInv, NextInv, PTL DEF QueueSpec
(***************************************************************************)
(* No operation breaks the links, the ends or the count of the list.       *)
(***************************************************************************)
THEOREM LinksStaySound == QueueSpec => []LinksSound
<1>1. QueueInv => LinksSound
  <2> SUFFICES ASSUME QueueInv PROVE LinksSound
    OBVIOUS
  <2>1. PICK W : Walk(W)
    BY DEF QueueInv, Linked
  <2> DEFINE D == DOMAIN node
             I == 0 .. (size_ - 1)
  <2>2. /\ size_ \in Nat /\ Null \notin D
        /\ head_ = Null <=> size_ = 0
        /\ tail_ = Null <=> size_ = 0
        /\ size_ # 0 => head_ = W[0] /\ tail_ = W[size_ - 1]
        /\ size_ # 0 => head_ \in D /\ tail_ \in D
    BY <2>1, WalkEnds
  <2>3. /\ \A i \in I : W[i] \in D
        /\ \A i \in I : node[W[i]].next = W[i + 1]
        /\ \A i \in I : node[W[i]].prev = IF i = 0 THEN Null ELSE W[i - 1]
        /\ \A i, k \in I : W[i] = W[k] => i = k
        /\ \A m \in D : \E i \in I : W[i] = m
        /\ node \in [D -> queue_node]
        /\ W[0] = head_ /\ W[size_] = Null
    BY <2>1 DEF Walk, IsWalk
  <2>4. \A i \in 0 .. size_ : NodeAt(i) = W[i]
    BY <2>1, ReadsWalk
  <2>5. \A i \in I : i \in 0 .. size_ /\ NodeAt(i) \in D /\ NodeAt(i) = W[i]
    BY <2>2, <2>3, <2>4
  <2>6. {NodeAt(i) : i \in I} = D
    <3>1. {NodeAt(i) : i \in I} \subseteq D
      BY <2>5
    <3>2. ASSUME NEW m \in D PROVE m \in {NodeAt(i) : i \in I}
      <4>1. PICK i \in I : W[i] = m
        BY <2>3
      <4>2. NodeAt(i) = m
        BY <4>1, <2>5
      <4> QED BY <4>2
    <3> QED BY <3>1, <3>2
  <2>7. NodeAt(size_) = Null
    BY <2>2, <2>3, <2>4
  <2>8. ASSUME NEW i \in I
        PROVE  LET n == W[i] IN
                 /\ n = head_ <=> node[n].prev = Null
                 /\ n = tail_ <=> node[n].next = Null
                 /\ node[n].next # Null =>
                      node[n].next \in D /\ node[node[n].next].prev = n
                 /\ node[n].prev # Null =>
                      node[n].prev \in D /\ node[node[n].prev].next = n
    <3>1. size_ # 0 /\ 0 \in I /\ size_ - 1 \in I /\ i \in Nat
      BY <2>2
    <3>2. /\ head_ = W[0] /\ tail_ = W[size_ - 1]
          /\ node[W[i]].next = W[i + 1]
          /\ node[W[i]].prev = IF i = 0 THEN Null ELSE W[i - 1]
      BY <3>1, <2>2, <2>3
    <3>3. W[i] = head_ <=> node[W[i]].prev = Null
      <4>1. CASE i = 0
        BY <3>2, <4>1
      <4>2. CASE i # 0
        <5>1. i - 1 \in I
          BY <3>1, <4>2, <2>2
        <5>2. W[i] # head_ /\ W[i - 1] # Null
          BY <3>1, <3>2, <4>2, <5>1, <2>2, <2>3
        <5> QED BY <3>2, <4>2, <5>2
      <4> QED BY <4>1, <4>2
    <3>4. i # 0 => i - 1 \in I /\ (i - 1) + 1 = i
      BY <3>1, <2>2
    <3>5. i # size_ - 1 => i + 1 \in I /\ (i + 1) - 1 = i /\ i + 1 # 0
      BY <3>1, <2>2
    <3>6. i = size_ - 1 => i + 1 = size_
      BY <3>1, <2>2
    <3>7. W[i] = tail_ <=> node[W[i]].next = Null
      <4>1. CASE i = size_ - 1
        <5>1. W[i + 1] = Null
          BY <3>6, <4>1, <2>3
        <5> QED BY <3>2, <4>1, <5>1
      <4>2. CASE i # size_ - 1
        <5>1. W[i] # tail_ /\ W[i + 1] # Null
          BY <3>1, <3>2, <3>5, <4>2, <2>2, <2>3
        <5> QED BY <3>2, <5>1
      <4> QED BY <4>1, <4>2
    <3>8. node[W[i]].next # Null =>
            node[W[i]].next \in D /\ node[node[W[i]].next].prev = W[i]
      <4>1. CASE i = size_ - 1
        BY <3>2, <3>6, <4>1, <2>3
      <4>2. CASE i # size_ - 1
        <5>1. W[i + 1] \in D /\ node[W[i + 1]].prev = W[i]
          BY <3>5, <4>2, <2>3
        <5> QED BY <3>2, <5>1
      <4> QED BY <4>1, <4>2
    <3>9. node[W[i]].prev # Null =>
            node[W[i]].prev \in D /\ node[node[W[i]].prev].next = W[i]
      <4>1. CASE i = 0
        BY <3>2, <4>1
      <4>2. CASE i # 0
        <5>1. W[i - 1] \in D /\ node[W[i - 1]].next = W[(i - 1) + 1]
          BY <3>4, <4>2, <2>3
        <5> QED BY <3>2, <3>4, <4>2, <5>1
      <4> QED BY <4>1, <4>2
    <3> QED BY <3>3, <3>7, <3>8, <3>9
  <2>9. \A n \in D :
          /\ n = head_ <=> node[n].prev = Null
          /\ n = tail_ <=> node[n].next = Null
          /\ node[n].next # Null =>
               node[n].next \in D /\ node[node[n].next].prev = n
          /\ node[n].prev # Null =>
               node[n].prev \in D /\ node[node[n].prev].next = n
    <3>1. SUFFICES ASSUME NEW n \in D
                   PROVE  /\ n = head_ <=> node[n].prev = Null
                          /\ n = tail_ <=> node[n].next = Null
                          /\ node[n].next # Null =>
                               node[n].next \in D /\ node[node[n].next].prev = n
                          /\ node[n].prev # Null =>
                               node[n].prev \in D /\ node[node[n].prev].next = n
      OBVIOUS
    <3>2. PICK i \in I : W[i] = n
      BY <2>3
    <3> HIDE DEF D, I
    <3> QED BY <3>2, <2>8
  <2>10. \A n \in {head_, tail_} \ {Null} : n \in D
    BY <2>2
  <2>11. node \in [D -> queue_node] /\ (head_ = Null <=> tail_ = Null)
    BY <2>2, <2>3
  <2> QED BY <2>5, <2>6, <2>7, <2>9, <2>10, <2>11 DEF LinksSound
<1> QED BY <1>1, QueueInvariant, PTL

(***************************************************************************)
(* Remove(e) on a list without duplicates returns with no e in it.         *)
(***************************************************************************)
THEOREM RemoveFindsAll == QueueSpec => RemoveLeavesNone
<1>1. QueueInv /\ [QueueNext]_queueVars =>
        [RemoveReturn /\ loop.distinct => \A i \in 0 .. (size_ - 1) : GetAt(i) # loop.e]_queueVars
  <2> SUFFICES ASSUME QueueInv, RemoveReturn, loop.distinct, NEW i \in 0 .. (size_ - 1)
               PROVE  GetAt(i) # loop.e
    OBVIOUS
  <2>1. size_ \in Nat /\ loop.i \in Nat /\ loop.i >= size_
    BY DEF QueueInv, Linked, LoopOK, RemoveReturn
  <2>2. i < loop.i
    BY <2>1
  <2> QED BY <2>2 DEF QueueInv, LoopOK, RemoveReturn
<1> QED BY <1>1, QueueInvariant, PTL DEF QueueSpec, RemoveLeavesNone
-----------------------------------------------------------------------------
(* A function on 1 .. n is a sequence of length n.                         *)
LEMMA FunctionIsSeq ==
  ASSUME NEW T, NEW n \in Nat, NEW f \in [1 .. n -> T]
  PROVE  f \in Seq(T) /\ Len(f) = n
OBVIOUS

(* The contents of the list are a sequence of size_ elements.              *)
LEMMA ContentsSeq ==
  ASSUME NEW W, Walk(W)
  PROVE  /\ Contents \in Seq(Elements) /\ Len(Contents) = size_
         /\ \A i \in 1 .. size_ : Contents[i] = GetAt(i - 1)
<1>1. size_ \in Nat
  BY WalkEnds
<1>2. \A i \in 0 .. (size_ - 1) : W[i] \in DOMAIN node /\ node[W[i]].data \in Elements
  BY DEF Walk, IsWalk, queue_node
<1>3. \A i \in 1 .. size_ : i - 1 \in 0 .. (size_ - 1) /\ i - 1 \in 0 .. size_
  BY <1>1
<1>4. \A i \in 1 .. size_ : GetAt(i - 1) \in Elements
  BY <1>2, <1>3, ReadsWalk
<1>5. Contents \in [1 .. size_ -> Elements]
  BY <1>4 DEF Contents
<1>6. Contents \in Seq(Elements) /\ Len(Contents) = size_
  BY <1>1, <1>5, FunctionIsSeq
<1> QED BY <1>6 DEF Contents

(* The same of the list a step leaves.                                     *)
LEMMA ContentsAfter ==
  ASSUME Linked'
  PROVE  /\ Contents' \in Seq(Elements) /\ Len(Contents') = size_' /\ size_' \in Nat
         /\ \A i \in 1 .. size_' : Contents'[i] = GetAt(i - 1)'
<1>1. size_' \in Nat
  BY DEF Linked
<1>2. PICK V : IsWalk(V, node', head_', tail_', size_')
  BY DEF Linked, Walk
<1>3. \A i \in 0 .. (size_' - 1) : V[i] \in DOMAIN node' /\ node'[V[i]].data \in Elements
  BY <1>2 DEF IsWalk, queue_node
<1>4. \A i \in 1 .. size_' : i - 1 \in 0 .. (size_' - 1) /\ i - 1 \in 0 .. size_'
  <2>1. \A n \in Nat : \A i \in 1 .. n : i - 1 \in 0 .. (n - 1) /\ i - 1 \in 0 .. n
    OBVIOUS
  <2> QED BY <1>1, <2>1
<1>5. \A i \in 1 .. size_' : GetAt(i - 1)' \in Elements
  BY <1>2, <1>3, <1>4, ReadsWalkAfter
<1>6. Contents' \in [1 .. size_' -> Elements]
  BY <1>5 DEF Contents
<1>7. Contents' \in Seq(Elements) /\ Len(Contents') = size_'
  BY <1>1, <1>6, FunctionIsSeq
<1> QED BY <1>1, <1>7 DEF Contents

(* A removal takes one element out of the contents.                        *)
LEMMA CutDrops ==
  ASSUME NEW W, Walk(W), NEW j \in 0 .. (size_ - 1), removeInternal(NodeAt(j))
  PROVE  S!SNext
<1> DEFINE c == Contents
           d == Contents'
           a == j + 1
           l == SubSeq(c, 1, a - 1)
           r == SubSeq(c, a + 1, Len(c))
<1>1. /\ size_ \in Nat /\ j \in Nat /\ j < size_ /\ a \in 1 .. size_
      /\ a \in Int /\ a - 1 = j
  BY WalkEnds
<1>2. /\ c \in Seq(Elements) /\ Len(c) = size_
      /\ \A i \in 1 .. size_ : c[i] = GetAt(i - 1)
  BY ContentsSeq
<1>3. /\ Linked' /\ size_' = size_ - 1
      /\ \A k \in 0 .. (size_' - 1) : GetAt(k)' = GetAt(IF k < j THEN k ELSE k + 1)
  BY CutReads
<1>4. /\ d \in Seq(Elements) /\ Len(d) = size_ - 1
      /\ \A i \in 1 .. (size_ - 1) : d[i] = GetAt(i - 1)'
  BY <1>3, ContentsAfter
<1> HIDE DEF c, d
<1>5. \A i \in 1 .. size_ : c[i] \in Elements
  BY <1>2, ElementOfSeq
<1>6. /\ l \in Seq(Elements) /\ Len(l) = j
      /\ \A i \in 1 .. j : l[i] = c[i]
  <2>1. 1 \in Int /\ a - 1 \in Int /\ \A i \in 1 .. (a - 1) : c[i] \in Elements
    BY <1>1, <1>5
  <2>2. /\ l \in Seq(Elements)
        /\ Len(l) = IF 1 <= a - 1 THEN (a - 1) - 1 + 1 ELSE 0
        /\ \A i \in 1 .. ((a - 1) - 1 + 1) : l[i] = c[1 + i - 1]
    <3> HIDE DEF a
    <3> QED BY <2>1, SubSeqProperties
  <2> HIDE DEF l
  <2> QED BY <2>2, <1>1
<1>7. /\ r \in Seq(Elements) /\ Len(r) = size_ - a
      /\ \A i \in 1 .. (size_ - a) : r[i] = c[a + i]
  <2>1. a + 1 \in Int /\ Len(c) \in Int /\ \A i \in (a + 1) .. Len(c) : c[i] \in Elements
    BY <1>1, <1>2, <1>5
  <2>2. /\ r \in Seq(Elements)
        /\ Len(r) = IF a + 1 <= Len(c) THEN Len(c) - (a + 1) + 1 ELSE 0
        /\ \A i \in 1 .. (Len(c) - (a + 1) + 1) : r[i] = c[(a + 1) + i - 1]
    <3> HIDE DEF a
    <3> QED BY <2>1, SubSeqProperties
  <2> HIDE DEF r
  <2>3. \A i \in 1 .. (size_ - a) : (a + 1) + i - 1 = a + i
    BY <1>1
  <2>4. Len(c) - (a + 1) + 1 = size_ - a
    BY <1>1, <1>2
  <2> QED BY <2>2, <2>3, <2>4, <1>1, <1>2
<1> HIDE DEF l, r
<1>8. /\ l \o r \in Seq(Elements)
      /\ Len(l \o r) = size_ - 1
      /\ \A i \in 1 .. (size_ - 1) : (l \o r)[i] = IF i <= j THEN c[i] ELSE c[i + 1]
  <2>1. /\ l \o r \in Seq(Elements)
        /\ Len(l \o r) = Len(l) + Len(r)
        /\ \A i \in 1 .. Len(l) + Len(r) : (l \o r)[i] =
                     IF i <= Len(l) THEN l[i] ELSE r[i - Len(l)]
    BY <1>6, <1>7, ConcatProperties
  <2>2. Len(l) + Len(r) = size_ - 1 /\ Len(l) = j
    BY <1>1, <1>6, <1>7
  <2>3. ASSUME NEW i \in 1 .. (size_ - 1)
        PROVE  (l \o r)[i] = IF i <= j THEN c[i] ELSE c[i + 1]
    <3>1. (l \o r)[i] = IF i <= j THEN l[i] ELSE r[i - j]
      BY <2>1, <2>2
    <3>2. CASE i <= j
      <4>1. i \in 1 .. j
        BY <3>2, <1>1
      <4> QED BY <3>1, <3>2, <4>1, <1>6
    <3>3. CASE ~(i <= j)
      <4>1. i - j \in 1 .. (size_ - a) /\ a + (i - j) = i + 1
        BY <3>3, <1>1
      <4>2. r[i - j] = c[a + (i - j)]
        BY <4>1, <1>7
      <4> QED BY <3>1, <3>3, <4>1, <4>2
    <3> QED BY <3>2, <3>3
  <2> QED BY <2>1, <2>2, <2>3
<1>9. \A i \in 1 .. (size_ - 1) : d[i] = (l \o r)[i]
  <2>1. ASSUME NEW i \in 1 .. (size_ - 1) PROVE d[i] = IF i <= j THEN c[i] ELSE c[i + 1]
    <3>1. i - 1 \in 0 .. (size_' - 1) /\ i \in 1 .. size_ /\ i + 1 \in 1 .. size_
          /\ (i + 1) - 1 = i /\ (i - 1) + 1 = i /\ (i <= j <=> i - 1 < j)
      BY <1>1, <1>3
    <3>2. d[i] = GetAt(i - 1)'
      BY <1>4
    <3>3. GetAt(i - 1)' = GetAt(IF i - 1 < j THEN i - 1 ELSE (i - 1) + 1)
      BY <1>3, <3>1
    <3>4. c[i] = GetAt(i - 1) /\ c[i + 1] = GetAt((i + 1) - 1)
      BY <1>2, <3>1
    <3>5. CASE i <= j
      BY <3>1, <3>2, <3>3, <3>4, <3>5
    <3>6. CASE ~(i <= j)
      BY <3>1, <3>2, <3>3, <3>4, <3>6
    <3> QED BY <3>5, <3>6
  <2> QED BY <2>1, <1>8
<1>10. d = l \o r
  <2> DEFINE z == l \o r
  <2>1. z \in Seq(Elements) /\ Len(z) = size_ - 1 /\ \A i \in 1 .. (size_ - 1) : d[i] = z[i]
    BY <1>8, <1>9
  <2> HIDE DEF z
  <2>2. Len(d) = Len(z) /\ \A i \in 1 .. Len(d) : d[i] = z[i]
    BY <2>1, <1>4
  <2>3. d = z
    BY <2>1, <2>2, <1>4, SeqEqual
  <2> QED BY <2>3 DEF z
<1>11. d = S!Without(c, a)
  BY <1>10 DEF S!Without, l, r
<1>12. S!Drop(a)
  BY <1>11 DEF S!Drop, c, d
<1> HIDE DEF a
<1>13. a \in 1 .. Len(Contents)
  BY <1>1, <1>2 DEF c
<1> QED BY <1>12, <1>13 DEF S!SNext

(* push_back appends.                                                      *)
LEMMA BackAppends ==
  ASSUME NEW W, Walk(W), NEW e \in Elements, push_back(e)
  PROVE  S!PushBack(e)
<1> DEFINE c == Contents
           d == Contents'
           z == Append(c, e)
<1>1. size_ \in Nat
  BY WalkEnds
<1>2. /\ c \in Seq(Elements) /\ Len(c) = size_
      /\ \A i \in 1 .. size_ : c[i] = GetAt(i - 1)
  BY ContentsSeq
<1>3. /\ Linked' /\ size_' = size_ + 1
      /\ \A k \in 0 .. size_ : GetAt(k)' = IF k < size_ THEN GetAt(k) ELSE e
  BY BackReads
<1>4. /\ d \in Seq(Elements) /\ Len(d) = size_ + 1
      /\ \A i \in 1 .. (size_ + 1) : d[i] = GetAt(i - 1)'
  BY <1>3, ContentsAfter
<1> HIDE DEF c, d
<1>5. /\ z \in Seq(Elements) /\ Len(z) = size_ + 1
      /\ \A i \in 1 .. size_ : z[i] = c[i]
      /\ z[size_ + 1] = e
  BY <1>2, AppendProperties
<1> HIDE DEF z
<1>6. ASSUME NEW i \in 1 .. (size_ + 1) PROVE d[i] = z[i]
  <2>1. i - 1 \in 0 .. size_ /\ (i = size_ + 1 => ~(i - 1 < size_))
        /\ (i # size_ + 1 => i \in 1 .. size_ /\ i - 1 < size_)
    BY <1>1
  <2>2. d[i] = GetAt(i - 1)'
    BY <1>4
  <2>3. GetAt(i - 1)' = IF i - 1 < size_ THEN GetAt(i - 1) ELSE e
    BY <2>1, <1>3
  <2> QED BY <2>1, <2>2, <2>3, <1>2, <1>5
<1>7. Len(d) = Len(z) /\ \A i \in 1 .. Len(d) : d[i] = z[i]
  BY <1>4, <1>5, <1>6
<1>8. d = z
  BY <1>4, <1>5, <1>7, SeqEqual
<1> QED BY <1>8 DEF S!PushBack, c, d, z

(* push_front prepends.                                                    *)
LEMMA FrontPrepends ==
  ASSUME NEW W, Walk(W), NEW e \in Elements, push_front(e)
  PROVE  S!PushFront(e)
<1> DEFINE c == Contents
           d == Contents'
           o == <<e>>
           z == o \o c
<1>1. size_ \in Nat
  BY WalkEnds
<1>2. /\ c \in Seq(Elements) /\ Len(c) = size_
      /\ \A i \in 1 .. size_ : c[i] = GetAt(i - 1)
  BY ContentsSeq
<1>3. /\ Linked' /\ size_' = size_ + 1
      /\ \A k \in 0 .. size_ : GetAt(k)' = IF k = 0 THEN e ELSE GetAt(k - 1)
  BY FrontReads
<1>4. /\ d \in Seq(Elements) /\ Len(d) = size_ + 1
      /\ \A i \in 1 .. (size_ + 1) : d[i] = GetAt(i - 1)'
  BY <1>3, ContentsAfter
<1> HIDE DEF c, d
<1>5. o \in Seq(Elements) /\ Len(o) = 1 /\ o[1] = e
  OBVIOUS
<1> HIDE DEF o
<1>6. /\ z \in Seq(Elements) /\ Len(z) = 1 + size_
      /\ \A i \in 1 .. (1 + size_) : z[i] = IF i <= 1 THEN o[i] ELSE c[i - 1]
  <2>1. /\ z \in Seq(Elements) /\ Len(z) = Len(o) + Len(c)
        /\ \A i \in 1 .. Len(o) + Len(c) : z[i] = IF i <= Len(o) THEN o[i] ELSE c[i - Len(o)]
    BY <1>2, <1>5, ConcatProperties
  <2> HIDE DEF z
  <2> QED BY <2>1, <1>2, <1>5
<1> HIDE DEF z
<1>7. ASSUME NEW i \in 1 .. (size_ + 1) PROVE d[i] = z[i]
  <2>1. /\ i - 1 \in 0 .. size_ /\ i \in 1 .. (1 + size_) /\ (i = 1 => i - 1 = 0 /\ i <= 1)
        /\ (i # 1 => i - 1 \in 1 .. size_ /\ i - 1 # 0 /\ ~(i <= 1))
    BY <1>1
  <2>2. d[i] = GetAt(i - 1)'
    BY <1>4
  <2>3. GetAt(i - 1)' = IF i - 1 = 0 THEN e ELSE GetAt((i - 1) - 1)
    BY <2>1, <1>3
  <2>4. z[i] = IF i <= 1 THEN o[i] ELSE c[i - 1]
    BY <2>1, <1>6
  <2>5. CASE i = 1
    BY <2>1, <2>2, <2>3, <2>4, <2>5, <1>5
  <2>6. CASE i # 1
    BY <2>1, <2>2, <2>3, <2>4, <2>6, <1>2
  <2> QED BY <2>5, <2>6
<1>8. Len(d) = Len(z) /\ \A i \in 1 .. Len(d) : d[i] = z[i]
  BY <1>1, <1>4, <1>6, <1>7
<1>9. d = z
  BY <1>4, <1>6, <1>8, SeqEqual
<1> QED BY <1>9 DEF S!PushFront, c, d, z, o

(* Contents that read the same are the same.                               *)
LEMMA SameContents ==
  ASSUME NEW W, Walk(W), UNCHANGED links
  PROVE  Contents' = Contents
<1>1. /\ size_' = size_ /\ size_ \in Nat
      /\ \A k \in 0 .. size_ : GetAt(k)' = GetAt(k)
  BY SameWalk
<1>2. \A i \in 1 .. size_ : i - 1 \in 0 .. size_
  BY <1>1
<1>3. \A i \in 1 .. size_ : GetAt(i - 1)' = GetAt(i - 1)
  BY <1>1, <1>2
<1> QED BY <1>1, <1>3 DEF Contents

(***************************************************************************)
(* The linked list implements the sequence of SequenceQueue: every step    *)
(* appends, prepends, takes one element out, empties it or leaves it.      *)
(***************************************************************************)
THEOREM QueueImplementsSequence == QueueSpec => ImplementsSequence
<1>1. QueueInit => S!SInit
  BY DEF QueueInit, Contents, S!SInit
<1>2. QueueInv /\ [QueueNext]_queueVars => [S!SNext]_Contents
  <2> SUFFICES ASSUME QueueInv, [QueueNext]_queueVars PROVE S!SNext \/ Contents' = Contents
    OBVIOUS
  <2>1. PICK W : Walk(W)
    BY DEF QueueInv, Linked
  <2>2. CASE UNCHANGED links
    BY <2>1, <2>2, SameContents
  <2>3. ASSUME NEW e \in Elements, push_back(e) PROVE S!SNext
    BY <2>1, <2>3, BackAppends DEF S!SNext
  <2>4. ASSUME NEW e \in Elements, push_front(e) PROVE S!SNext
    BY <2>1, <2>4, FrontPrepends DEF S!SNext
  <2>5. ASSUME NEW index \in 0 .. size_, RemoveIndex(index) PROVE S!SNext \/ UNCHANGED links
    BY <2>1, <2>5, IndexCases, CutDrops
  <2>6. ASSUME RemoveTurn PROVE S!SNext \/ UNCHANGED links
    <3>1. loop.i \in 0 .. (size_ - 1)
      BY <2>6 DEF RemoveTurn, QueueInv, Linked, LoopOK
    <3>2. UNCHANGED links \/ removeInternal(NodeAt(loop.i))
      BY <2>6 DEF RemoveTurn
    <3> QED BY <2>1, <3>1, <3>2, CutDrops
  <2>7. ASSUME Clear PROVE S!SNext
    <3>1. size_' = 0
      BY <2>7 DEF Clear
    <3>2. Contents' = <<>>
      BY <3>1 DEF Contents
    <3> QED BY <3>2 DEF S!SNext, S!Empty
  <2>8. ASSUME NEW e \in Elements, RemoveCall(e) PROVE UNCHANGED links
    BY <2>8 DEF RemoveCall
  <2>9. ASSUME RemoveReturn PROVE UNCHANGED links
    BY <2>9 DEF RemoveReturn
  <2>10. ASSUME UNCHANGED queueVars PROVE UNCHANGED links
    BY <2>10 DEF queueVars, links
  <2> QED
    BY <2>2, <2>3, <2>4, <2>5, <2>6, <2>7, <2>8, <2>9, <2>10 DEF QueueNext
<1> QED BY <1>1, <1>2, QueueInvariant, PTL DEF QueueSpec, ImplementsSequence, S!SSpec

=============================================================================

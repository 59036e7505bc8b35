----------------------------- MODULE Scheduler -------------------------------
(***************************************************************************)
(* The round-robin scheduler of src/src/arch/x86/scheduler: the list of    *)
(* threads, the timer interrupt that switches between them, and the calls  *)
(* a running context makes.  There is one processor.  What runs on it is   *)
(* the boot code or a thread; a timer tick arrives between any two of its  *)
(* steps while its interrupt flag is set.  The handler itself runs with    *)
(* the flag clear, so it is one step.                                      *)
(*                                                                         *)
(* Nothing in the kernel calls AddThread, Unblock or RemoveThread yet, and *)
(* Block is declared but not defined.  The callers modelled here keep to   *)
(* this contract: AddThread runs with interrupts off and gets a new        *)
(* thread, a forced switch to a user thread is made by the boot code only, *)
(* Unblock gets a blocked thread and RemoveThread one that is not stopped. *)
(* User code cannot reach any of these: system calls are not connected.    *)
(***************************************************************************)
EXTENDS Naturals, Sequences

CONSTANTS
  Threads,      \* the addresses a Thread object may have
  Users,        \* those whose parent process is in user space
  Immortal,     \* threads added before any other blocks or is removed, and
                \*   that never block and are never removed (idle threads)
  SwitchTicks,  \* 30: a switch every so many ticks
  MaxSleep,     \* longest sleep, in ticks
  None, Boot    \* no thread, and the context that runs ArchKernel::Init

ASSUME SchedulerAssumption ==
  /\ Users \subseteq Threads
  /\ Immortal \subseteq Threads
  /\ SwitchTicks \in Nat \ {0, 1}
  /\ MaxSleep \in Nat
  /\ None \notin Threads /\ Boot \notin Threads /\ None # Boot

VARIABLES
  list,         \* threadsList
  cur,          \* currentThread
  tick,         \* tickCount
  forced,       \* switchForced
  enabled,
  thr,          \* the Thread objects: state, blockedState, timeDelta
  frame,        \* what regsPtr points at: the interrupt flag saved there,
                \*   or "stale" once the thread runs on from it
  pc,           \* where each context stands in ForceSwitch
  cpu,          \* the context the processor executes
  intr,         \* its interrupt flag
  tss, cr3,     \* whose kernel stack and whose page directory are installed
  halted        \* "no", or how the handler stopped for good

vars == <<list, cur, tick, forced, enabled, thr, frame, pc, cpu, intr, tss, cr3, halted>>

Contexts == Threads \cup {Boot}
Absent == [state |-> "Absent", blockedState |-> "Unknown", timeDelta |-> 0]
Kernel(x) == x \notin Users

Init ==
  /\ list = <<>>
  /\ cur = None
  /\ tick = 0
  /\ forced = FALSE
  /\ enabled = FALSE
  /\ thr = [t \in Threads |-> Absent]
  /\ frame = [t \in Threads |-> "stale"]
  /\ pc = [x \in Contexts |-> "run"]
  /\ cpu = Boot
  /\ intr = TRUE
  /\ tss = None
  /\ cr3 = Boot
  /\ halted = "no"

Listed == {list[i] : i \in 1 .. Len(list)}

-----------------------------------------------------------------------------
(***************************************************************************)
(* ProcessSleepingThreads: one tick off every sleeper's timeDelta, and     *)
(* Unblock for those that reach zero.                                      *)
(***************************************************************************)
Woken(r) ==
  IF r.state = "Blocked" /\ r.blockedState = "SleepMS" /\ r.timeDelta > 0
  THEN [state |-> IF r.timeDelta = 1 THEN "Ready" ELSE "Blocked",
        blockedState |-> "SleepMS", timeDelta |-> r.timeDelta - 1]
  ELSE r

ProcessSleepingThreads ==
  [t \in Threads |-> IF t \in Listed THEN Woken(thr[t]) ELSE thr[t]]

(***************************************************************************)
(* GetNextReadyThread starts behind the current thread, or at the second   *)
(* thread when there is none, and goes round the list past the blocked     *)
(* threads.  HandleInterrupt calls it again after removing a stopped one.  *)
(* Together they reach the list's elements in the order At, the current    *)
(* thread last, and settle on the first that can run.                      *)
(***************************************************************************)
StartAtCurrent ==
  IF cur = None \/ cur \notin Listed THEN 1 ELSE CHOOSE j \in 1 .. Len(list) : list[j] = cur

Start ==
  LET behind == IF cur = None THEN 2
                ELSE IF cur \notin Listed THEN 1
                ELSE 1 + CHOOSE j \in 1 .. Len(list) : list[j] = cur
  IN IF behind > Len(list) THEN 1 ELSE behind

At(k) == list[((Start - 1 + k) % Len(list)) + 1]

CanRun(t, th) == th[t].state \in {"Ready", "Started"}

CandidatesButTheLast(th) == {k \in 0 .. (Len(list) - 2) : CanRun(At(k), th)}

Candidates(th) == {k \in 0 .. (Len(list) - 1) : CanRun(At(k), th)}

Chosen(th) == CHOOSE k \in Candidates(th) : \A j \in Candidates(th) : k <= j

(***************************************************************************)
(* The stopped threads that are removed and deleted on the way, and the    *)
(* current thread if it is stopped.                                        *)
(***************************************************************************)
Reaped(th) ==
  {At(k) : k \in {j \in 0 .. (Chosen(th) - 1) : th[At(j)].state = "Stopped"}}
    \cup (IF cur # None /\ th[cur].state = "Stopped" THEN {cur} ELSE {})

(***************************************************************************)
(* The interrupted context is saved in the current thread, unless that is  *)
(* gone or the processor was not on a thread's stack (esp below the heap). *)
(***************************************************************************)
SavesNothing(gone) == FALSE

Saves(gone) == cpu # Boot /\ cur \notin gone

(***************************************************************************)
(* SwitchPageDirectory, if the thread's process has one, and SetTSS.       *)
(***************************************************************************)
Installs(t) ==
  /\ tss' = t
  /\ cr3' = IF t \in Users THEN t ELSE cr3

(***************************************************************************)
(* threadsList without the threads that are gone.                          *)
(***************************************************************************)
Without(l, gone) ==
  LET kept[i \in 0 .. Len(l)] ==
        IF i = 0 THEN <<>>
        ELSE IF l[i] \in gone THEN kept[i - 1] ELSE Append(kept[i - 1], l[i])
  IN kept[Len(l)]

SwitchTo(next, gone, th) ==
  LET saved == IF Saves(gone) THEN [frame EXCEPT ![cur] = IF intr THEN "on" ELSE "off"]
               ELSE frame
  IN /\ list' = Without(list, gone)
     /\ thr' = [t \in Threads |-> IF t \in gone THEN Absent ELSE th[t]]
     /\ cur' = next
     /\ cpu' = next
     /\ intr' = (saved[next] = "on")
     /\ frame' = [saved EXCEPT ![next] = "stale"]
     /\ Installs(next)
     /\ UNCHANGED halted

(***************************************************************************)
(* No thread can run: the handler goes round the blocked threads forever   *)
(* with interrupts off, or follows the null head of the emptied list.      *)
(***************************************************************************)
NothingToRun(th) ==
  /\ halted' = IF \E t \in Listed : th[t].state = "Blocked" THEN "spinning" ELSE "null"
  /\ thr' = th
  /\ UNCHANGED <<list, cur, frame, cpu, intr, tss, cr3>>

ForcedStays == forced

(***************************************************************************)
(* switchForced after a tick: the branch that skips the sleepers clears it *)
(* and the other leaves it clear.                                          *)
(***************************************************************************)
ForcedAfterTick == FALSE

(***************************************************************************)
(* Scheduler::HandleInterrupt.                                             *)
(***************************************************************************)
HandleInterrupt ==
  LET th == IF forced THEN thr ELSE ProcessSleepingThreads
  IN /\ forced' = ForcedAfterTick
     /\ tick' = IF tick + 1 = SwitchTicks THEN 0 ELSE tick + 1
     /\ UNCHANGED enabled
     /\ IF tick + 1 = SwitchTicks /\ Len(list) > 0 /\ enabled
        THEN IF Candidates(th) = {} THEN NothingToRun(th)
             ELSE SwitchTo(At(Chosen(th)), Reaped(th), th)
        ELSE /\ thr' = th
             /\ UNCHANGED <<list, cur, frame, cpu, intr, tss, cr3, halted>>

Tick ==
  /\ halted = "no"
  /\ intr
  /\ HandleInterrupt
  /\ UNCHANGED pc

-----------------------------------------------------------------------------
(***************************************************************************)
(* What the running context does.  It is kernel code at step s.            *)
(***************************************************************************)
Runs(s) == halted = "no" /\ Kernel(cpu) /\ pc[cpu] = s
Goto(s) == pc' = [pc EXCEPT ![cpu] = s]

hardware == <<cpu, intr, tss, cr3, halted>>
switching == <<tick, forced, enabled>>

(***************************************************************************)
(* Kernel code sets or clears the interrupt flag.                          *)
(***************************************************************************)
Sti ==
  /\ Runs("run") /\ ~intr
  /\ intr' = TRUE
  /\ UNCHANGED <<list, cur, switching, thr, frame, pc, cpu, tss, cr3, halted>>

Cli ==
  /\ Runs("run") /\ intr
  /\ intr' = FALSE
  /\ UNCHANGED <<list, cur, switching, thr, frame, pc, cpu, tss, cr3, halted>>

(***************************************************************************)
(* ThreadHelper::CreateFromFunction: a ready thread whose first frame is   *)
(* cleared memory, so that its saved flags have the interrupt flag off.    *)
(***************************************************************************)
Create(t) ==
  /\ thr[t] = Absent
  /\ thr' = [thr EXCEPT ![t] = [Absent EXCEPT !.state = "Ready"]]

(***************************************************************************)
(* AddThread, and ForceSwitch when asked for.                              *)
(***************************************************************************)
AddThread(t, force) ==
  /\ Runs("run") /\ ~intr
  /\ Create(t)
  /\ list' = Append(list, t)
  /\ force => Kernel(t)
  /\ frame' = [frame EXCEPT ![t] = "off"]
  /\ pc' = [[pc EXCEPT ![t] = "run"] EXCEPT ![cpu] = IF force THEN "force" ELSE "run"]
  /\ UNCHANGED <<cur, switching, hardware>>

UserJumpKeepsCurrent(t) ==
  /\ Installs(t)
  /\ enabled' = TRUE
  /\ cpu' = t
  /\ intr' = FALSE
  /\ UNCHANGED cur

(***************************************************************************)
(* InitialThreadUserJump: enter_usermode takes the flags of the new frame  *)
(* and its own, both with interrupts off, and never returns.               *)
(***************************************************************************)
InitialThreadUserJump(t) ==
  /\ Installs(t)
  /\ cur' = t
  /\ enabled' = TRUE
  /\ cpu' = t
  /\ intr' = FALSE

AddUserThread(t) ==
  /\ Runs("run") /\ ~intr /\ cpu = Boot /\ ~Kernel(t)
  /\ Create(t)
  /\ list' = Append(list, t)
  /\ InitialThreadUserJump(t)
  /\ frame' = [frame EXCEPT ![t] = "stale"]
  /\ pc' = [pc EXCEPT ![t] = "run"]
  /\ UNCHANGED <<tick, forced, halted>>

(***************************************************************************)
(* ForceSwitch, one store at a time, then the software interrupt.          *)
(***************************************************************************)
ForceSet ==
  /\ Runs("force") /\ Goto("enable")
  /\ forced' = TRUE
  /\ UNCHANGED <<list, cur, tick, enabled, thr, frame, hardware>>

ForceEnable ==
  /\ Runs("enable") /\ Goto("count")
  /\ enabled' = TRUE
  /\ UNCHANGED <<list, cur, tick, forced, thr, frame, hardware>>

ForceCountTooFar ==
  /\ Runs("count") /\ Goto("int")
  /\ tick' = SwitchTicks
  /\ UNCHANGED <<list, cur, forced, enabled, thr, frame, hardware>>

ForceCount ==
  /\ Runs("count") /\ Goto("int")
  /\ tick' = SwitchTicks - 1
  /\ UNCHANGED <<list, cur, forced, enabled, thr, frame, hardware>>

ForceInterrupt ==
  /\ Runs("int") /\ Goto("run")
  /\ HandleInterrupt

ForceSwitch == Runs("run") /\ Goto("force")
               /\ UNCHANGED <<list, cur, switching, thr, frame, hardware>>

(***************************************************************************)
(* Unblock(t, force) on a blocked thread.                                  *)
(***************************************************************************)
Unblock(t, force) ==
  /\ Runs("run")
  /\ t \in Listed /\ thr[t].state = "Blocked"
  /\ thr' = [thr EXCEPT ![t].state = "Ready"]
  /\ Goto(IF force THEN "force" ELSE "run")
  /\ UNCHANGED <<list, cur, switching, frame, hardware>>

(***************************************************************************)
(* The missing Block, as HandleInterrupt and Unblock expect it: a running  *)
(* thread records why it waits and forces a switch.                        *)
(***************************************************************************)
Block(reason, ticks) ==
  /\ Runs("run") /\ cpu \in Threads \ Immortal /\ Immortal \subseteq Listed
  /\ thr[cpu].state = "Ready"
  /\ thr' = [thr EXCEPT ![cpu] = [state |-> "Blocked", blockedState |-> reason,
                                  timeDelta |-> ticks]]
  /\ Goto("force")
  /\ UNCHANGED <<list, cur, switching, frame, hardware>>

(***************************************************************************)
(* ThreadHelper::RemoveThread: the stack is freed at once, the thread is   *)
(* stopped and stays in the list until a switch comes across it.  This is  *)
(* one step: the contents of stacks are not part of this model, and a tick *)
(* between free and the store to state finds the thread as before both.    *)
(***************************************************************************)
RemoveThread(t) ==
  /\ Runs("run") /\ Immortal \subseteq Listed
  /\ t \in Listed \ Immortal /\ thr[t].state # "Stopped"
  /\ thr' = [thr EXCEPT ![t].state = "Stopped"]
  /\ UNCHANGED <<list, cur, switching, frame, pc, hardware>>

Sleep == \E ticks \in 0 .. MaxSleep : Block("SleepMS", ticks)
Wait == Block("ReceiveIPC", 0)

Next ==
  \/ Tick
  \/ Sti \/ Cli
  \/ \E t \in Threads : AddThread(t, TRUE) \/ AddThread(t, FALSE)
  \/ \E t \in Threads : AddUserThread(t)
  \/ ForceSwitch \/ ForceSet \/ ForceEnable \/ ForceCount \/ ForceInterrupt
  \/ \E t \in Threads : Unblock(t, TRUE) \/ Unblock(t, FALSE)
  \/ Sleep \/ Wait
  \/ \E t \in Threads : RemoveThread(t)

Spec == Init /\ [][Next]_vars

(***************************************************************************)
(* The processor executes the steps of ForceSwitch; the interrupt          *)
(* controller keeps a tick pending until interrupts are on for a moment.   *)
(***************************************************************************)
Progress ==
  /\ SF_vars(Tick)
  /\ WF_vars(ForceSet) /\ WF_vars(ForceEnable)
  /\ WF_vars(ForceCount) /\ WF_vars(ForceInterrupt)

TimerSpec == Spec /\ Progress

(***************************************************************************)
(* As TimerSpec, with kernel threads that turn interrupts on again and     *)
(* again while they run (nothing does it for them, their first frame has   *)
(* the flag off), and with creation that comes to an end: threads that     *)
(* each add a successor and stop can keep the others waiting for ever.     *)
(***************************************************************************)
CreationEnds == <>[][Len(list') <= Len(list)]_vars

PoliteSpec == TimerSpec /\ SF_vars(Sti) /\ CreationEnds

-----------------------------------------------------------------------------
(***************************************************************************)
(* Types of the scheduler's state.                                         *)
(***************************************************************************)
States == {"Absent", "Blocked", "Ready", "Stopped"}

TypeOK ==
  /\ list \in Seq(Threads)
  /\ cur \in Threads \cup {None}
  /\ tick \in Nat
  /\ forced \in BOOLEAN /\ enabled \in BOOLEAN /\ intr \in BOOLEAN
  /\ thr \in [Threads -> [state : States,
                          blockedState : {"Unknown", "SleepMS", "ReceiveIPC"},
                          timeDelta : 0 .. MaxSleep]]
  /\ frame \in [Threads -> {"on", "off", "stale"}]
  /\ pc \in [Contexts -> {"run", "force", "enable", "count", "int"}]
  /\ cpu \in Contexts
  /\ tss \in Threads \cup {None}
  /\ cr3 \in Users \cup {Boot}
  /\ halted \in {"no", "spinning", "null"}

(***************************************************************************)
(* HandleInterrupt tests tickCount for equality with 30: a switch happens  *)
(* again only if no store of ForceSwitch, interleaved with ticks, ever     *)
(* carries the count to 30 outside the handler.                            *)
(***************************************************************************)
TickBelowSwitch == tick < SwitchTicks

(***************************************************************************)
(* currentThread is the thread the processor runs, and it is a thread that *)
(* still exists and is in the list once: HandleInterrupt saves the frame   *)
(* of the interrupted context through it and never through a deleted one.  *)
(***************************************************************************)
CurrentIsRunning ==
  /\ cpu = IF cur = None THEN Boot ELSE cur
  /\ cur # None => cur \in Listed
  /\ \A t \in Threads : t \in Listed <=> thr[t].state # "Absent"
  /\ \A i, j \in 1 .. Len(list) : list[i] = list[j] => i = j

(***************************************************************************)
(* Every listed thread that is not running has a frame to resume from, so  *)
(* that no switch restarts a thread from registers it has outrun.          *)
(***************************************************************************)
FramesResumable ==
  \A t \in Listed : t # cpu <=> frame[t] # "stale"

(***************************************************************************)
(* The endless loop in GetNextReadyThread, and the null pointer behind an  *)
(* emptied list, are out of reach as long as one thread never blocks and   *)
(* is never removed, whatever the others do and whoever is current.        *)
(***************************************************************************)
IdleThreadPreventsHalt == Immortal # {} => halted = "no"

(***************************************************************************)
(* The two loops as scheduler.cpp spells them.  A loop is the sequence of  *)
(* its states, which stands still once the condition fails; neither turns  *)
(* more often than the list has elements while one of them can run.        *)
(***************************************************************************)
IndexOf(l, t) ==
  IF \E j \in 1 .. Len(l) : l[j] = t THEN CHOOSE j \in 1 .. Len(l) : l[j] = t ELSE 0

GetNextReadyThread(l) ==
  LET wrapped(i) == IF i > Len(l) THEN 1 ELSE i
      index[n \in 0 .. Len(l)] ==
        IF n = 0 THEN wrapped((IF cur # None THEN IndexOf(l, cur) ELSE 1) + 1)
        ELSE LET i == index[n - 1]
             IN IF thr[l[i]].state = "Blocked" THEN wrapped(i + 1) ELSE i
  IN l[index[Len(l)]]

StoppedRemoved ==
  LET left[n \in 0 .. Len(list)] ==
        IF n = 0 THEN list
        ELSE LET l == left[n - 1]
                 nextThread == GetNextReadyThread(l)
             IN IF thr[nextThread].state = "Stopped" THEN Without(l, {nextThread}) ELSE l
  IN left[Len(list)]

(***************************************************************************)
(* The closed form used for the choice of the next thread is the loop of   *)
(* HandleInterrupt: ask for the next thread that is not blocked, and while *)
(* that is stopped, remove it from the list and ask again.                 *)
(***************************************************************************)
ChoiceIsTheLoop ==
  Candidates(thr) # {} =>
    /\ GetNextReadyThread(StoppedRemoved) = At(Chosen(thr))
    /\ StoppedRemoved = Without(list, Reaped(thr) \ {cur})

(***************************************************************************)
(* The contexts inside ForceSwitch whose switchForced a tick has taken:    *)
(* the tick was kept from the sleepers, and their int $0x20 makes up for   *)
(* it.  The others inside ForceSwitch still have their flag.               *)
(***************************************************************************)
InForceSwitch(x) == pc[x] \in {"enable", "count", "int"}

Owing == {x \in Contexts : InForceSwitch(x) /\ ~(x = cpu /\ forced)}

Sleeping(t) ==
  t \in Listed /\ thr[t].state = "Blocked" /\ thr[t].blockedState = "SleepMS"
    /\ thr[t].timeDelta > 0

TimerTicks == tick' # tick /\ pc' = pc

(***************************************************************************)
(* A sleep is measured in ticks of the timer, although ForceSwitch calls   *)
(* the same handler and a tick may take the flag that tells them apart,    *)
(* switch to another thread and leave the first inside ForceSwitch.  Every *)
(* tick counts for every sleeper, or the context it interrupted owes it;   *)
(* the handler's other calls count exactly when they pay such a debt.  No  *)
(* flag is left behind that would take a later thread's tick.              *)
(***************************************************************************)
SleepersGetEveryTick ==
  [][ \A t \in Threads : Sleeping(t) =>
        (thr'[t].timeDelta < thr[t].timeDelta
           <=> IF TimerTicks THEN cpu \notin Owing' \ Owing ELSE cpu \in Owing \ Owing')
    ]_vars

(***************************************************************************)
(* A thread that sleeps for at least one tick wakes up, whatever forced    *)
(* switches do to the ticks.                                               *)
(***************************************************************************)
SleepersWake ==
  \A t \in Threads :
    (thr[t].state = "Blocked" /\ thr[t].timeDelta > 0) ~> (thr[t].state # "Blocked")

(***************************************************************************)
(* Task switching (kernel.cpp:88): once the scheduler is enabled, a ready  *)
(* thread gets the processor.                                              *)
(***************************************************************************)
ReadyThreadsRun ==
  \A t \in Threads :
    (enabled /\ thr[t].state = "Ready") ~> (cpu = t \/ thr[t].state # "Ready")
=============================================================================

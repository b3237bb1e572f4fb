------------------------------ MODULE Scheduler ------------------------------
(***************************************************************************)
(* The AXON-OS kernel core: the task table and schedule() of scheduler.c,  *)
(* the context switch of trap.s, the scheduling part of trap_handler() and *)
(* the boot sequence of kernel_main() in main.c.                           *)
(*                                                                         *)
(* One hart.  A trap (tick, external interrupt or ecall) runs with         *)
(* interrupts masked from trap_entry to mret, so a trap is one atomic      *)
(* action: what the handler does, followed by SwitchContext.  kernel_main  *)
(* enables interrupts before it creates the tasks, so boot is a sequence   *)
(* of steps between which traps are taken.                                 *)
(*                                                                         *)
(* sp abstracts the stack pointer of the hart to the stack it points into. *)
(* tcbSp[t] is the field sp of tasks[t].  Time is kept relative:           *)
(* remaining[t] stands for wake_time - mtime, 0 once the time has come.    *)
(***************************************************************************)
EXTENDS Integers, FiniteSets

CONSTANTS
  MAX_TASKS,     \* size of the task pool; kernel_main fills it
  MAX_PRIO,      \* the highest priority (N in task.h)
  Prio,          \* Prio[t]: the priority task_create is given for task t
  SleepTimes,    \* the waits, in clock steps, that tasks ask for
  Controllers    \* the tasks that call sys_suspend and sys_resume (the shell)

Tasks == 0 .. MAX_TASKS - 1
Idle  == MAX_TASKS - 1       \* the task created last, priority 0
Apps  == Tasks \ {Idle}

ASSUME MaxTasksAssumption    == MAX_TASKS \in Nat \ {0}
ASSUME MaxPrioAssumption     == MAX_PRIO \in Nat
ASSUME PrioAssumption        == Prio \in [Tasks -> 0 .. MAX_PRIO] /\ Prio[Idle] = 0
ASSUME SleepTimesAssumption  == SleepTimes \subseteq Nat
ASSUME ControllersAssumption == Controllers \subseteq Apps

NoTask    == -1              \* current_task or next_task is NULL
BootStack == -2              \* sp is on the stack that start.s sets up
NoStack   == -3              \* a TCB whose sp was never written

VARIABLES
  boot,       \* what kernel_main has done so far
  taskCount,  \* task_count
  state,      \* tasks[t].state
  remaining,  \* tasks[t].wake_time, relative to mtime
  current,    \* current_task
  next,       \* next_task
  tcbSp,      \* tasks[t].sp
  sp          \* the stack of the hart

vars == <<boot, taskCount, state, remaining, current, next, tcbSp, sp>>

Created == 0 .. taskCount - 1
Booted  == taskCount = MAX_TASKS

\* BSS is zeroed: every state reads TASK_READY, every pointer NULL.
Init ==
  /\ boot = "init"
  /\ taskCount = 0
  /\ state = [t \in Tasks |-> "READY"]
  /\ remaining = [t \in Tasks |-> 0]
  /\ current = NoTask
  /\ next = NoTask
  /\ tcbSp = [t \in Tasks |-> NoStack]
  /\ sp = BootStack

-----------------------------------------------------------------------------
(* schedule()                                                              *)

\* Sleepers woken one clock step too early (mutant of Awake).
AwakeEarly(st, rem) ==
  [t \in Tasks |-> IF t \in Created /\ st[t] = "BLOCKED" /\ rem[t] <= 1
                   THEN "READY" ELSE st[t]]

\* A wake-up loop that stops before the last application (mutant of Awake).
AwakeSkipsOne(st, rem) ==
  [t \in Tasks |-> IF t \in 0 .. taskCount - 3 /\ st[t] = "BLOCKED" /\ rem[t] = 0
                   THEN "READY" ELSE st[t]]

\* Phase 1: the sleepers whose time has come are made ready.
Awake(st, rem) ==
  [t \in Tasks |-> IF t \in Created /\ st[t] = "BLOCKED" /\ rem[t] = 0
                   THEN "READY" ELSE st[t]]

\* The search starts at task 0 every time (mutant of SearchStart).
SearchStartZero == 0

SearchStart == IF current = NoTask THEN 0 ELSE (current + 1) % taskCount

\* The position of t in the circular search of phase 2.
SearchRank(t) ==
  IF t >= SearchStart THEN t - SearchStart ELSE t - SearchStart + taskCount

Runnable(st) == {t \in Created : st[t] \in {"READY", "RUNNING"}}

\* The comparison of the priorities forgotten: first come, first served (mutant of Beats).
BeatsIgnoringPriority(t, u) == SearchRank(t) < SearchRank(u)

\* A strictly higher priority replaces the candidate; on a tie the first found stays.
Beats(t, u) ==
  \/ Prio[t] > Prio[u]
  \/ Prio[t] = Prio[u] /\ SearchRank(t) < SearchRank(u)

\* Phase 2: best_task, as a set of at most one task.  Without a runnable task
\* it is the first one of priority 0, and none if no such task exists yet.
Select(st) ==
  IF Runnable(st) # {}
  THEN {t \in Runnable(st) : \A u \in Runnable(st) \ {t} : Beats(t, u)}
  ELSE {t \in Created : Prio[t] = 0 /\ \A u \in 0 .. t - 1 : Prio[u] # 0}

\* The preempted task left RUNNING (mutant of Dispatch).
DispatchWithoutDemotion(st, best) ==
  [st EXCEPT ![best] = IF @ = "READY" THEN "RUNNING" ELSE @]

\* Phase 3: READY becomes RUNNING; the task that loses the CPU goes back to READY.
Dispatch(st, best) ==
  [t \in Tasks |->
     IF t = best /\ st[t] = "READY" THEN "RUNNING"
     ELSE IF t = current /\ t # best /\ st[t] = "RUNNING" THEN "READY"
     ELSE st[t]]

\* schedule(), called when the task states are st and the waits are rem.
Schedule(st, rem) ==
  IF taskCount = 0 THEN state' = st /\ next' = next
  ELSE IF Select(Awake(st, rem)) = {}
  THEN state' = Awake(st, rem) /\ next' = next
  ELSE \E best \in Select(Awake(st, rem)) :
         /\ next' = best
         /\ state' = Dispatch(Awake(st, rem), best)

\* The stack pointer stored into the TCB of the incoming task (mutant of SaveOutgoing).
SaveIncoming == [tcbSp EXCEPT ![next'] = sp]

\* sw sp, 28(t1): skipped while current_task is NULL.
SaveOutgoing == IF current = NoTask THEN tcbSp ELSE [tcbSp EXCEPT ![current] = sp]

\* The end of every trap in trap.s, on the next_task the handler leaves.
SwitchContext ==
  IF next' \in {NoTask, current}
  THEN UNCHANGED <<current, tcbSp, sp>>
  ELSE /\ current' = next'
       /\ tcbSp' = SaveOutgoing
       /\ sp' = SaveOutgoing[next']

-----------------------------------------------------------------------------
(* Traps                                                                   *)

\* Machine timer interrupt: the comparator is re-armed, then schedule().
Tick ==
  /\ Schedule(state, remaining)
  /\ SwitchContext
  /\ UNCHANGED <<boot, taskCount, remaining>>

\* A trap whose handler leaves the scheduler alone: trap.s looks at next_task
\* on the way out all the same.
PlainTrap ==
  /\ UNCHANGED <<boot, taskCount, state, remaining, next>>
  /\ SwitchContext

\* External interrupt: claim, the handler of the source, complete.
ExternalIrq == PlainTrap

\* SYS_YIELD
Yield ==
  /\ sp \in Apps
  /\ Schedule(state, remaining)
  /\ SwitchContext
  /\ UNCHANGED <<boot, taskCount, remaining>>

Blocked(t) == [state EXCEPT ![t] = "BLOCKED"]

\* SYS_SLEEP, scheduler_sleep()
Sleep(d) ==
  /\ sp \in Apps
  /\ current # NoTask
  /\ remaining' = [remaining EXCEPT ![current] = d]
  /\ Schedule(Blocked(current), remaining')
  /\ SwitchContext
  /\ UNCHANGED <<boot, taskCount>>

\* The priority field of a TCB: 0 until task_create has filled it.
TcbPriority(t) == IF tcbSp[t] = NoStack THEN 0 ELSE Prio[t]

\* SYS_SUSPEND, scheduler_suspend(): refuses tasks of priority 0, and runs
\* schedule() only when a task suspends itself.
Suspend(pid) ==
  /\ sp \in Controllers
  /\ LET suspended == [state EXCEPT ![pid] = "SUSPENDED"]
     IN  IF TcbPriority(pid) = 0 THEN UNCHANGED <<state, next>>
         ELSE IF current = pid THEN Schedule(suspended, remaining)
         ELSE state' = suspended /\ next' = next
  /\ SwitchContext
  /\ UNCHANGED <<boot, taskCount, remaining>>

\* SYS_RESUME, scheduler_resume(): no schedule(), the task waits for the next one.
Resume(pid) ==
  /\ sp \in Controllers
  /\ state' = IF pid \in Created /\ state[pid] = "SUSPENDED"
              THEN [state EXCEPT ![pid] = "READY"] ELSE state
  /\ next' = next
  /\ SwitchContext
  /\ UNCHANGED <<boot, taskCount, remaining>>

\* mtime advances.
Elapse ==
  /\ \E t \in Tasks : remaining[t] > 0
  /\ remaining' = [t \in Tasks |-> IF remaining[t] > 0 THEN remaining[t] - 1 ELSE 0]
  /\ UNCHANGED <<boot, taskCount, state, current, next, tcbSp, sp>>

-----------------------------------------------------------------------------
(* kernel_main(), from the moment it has enabled interrupts                *)

\* scheduler_init(): next_task keeps its value.
BootInit ==
  /\ sp = BootStack /\ boot = "init"
  /\ boot' = "create"
  /\ taskCount' = 0
  /\ current' = NoTask
  /\ UNCHANGED <<state, remaining, next, tcbSp, sp>>

\* The stack pointer never stored into the new TCB (mutant of ForgedStack).
ForgedStackMissing(t) == NoStack

\* The forged context lies on the stack of the new task.
ForgedStack(t) == t

\* task_create() up to task_count++: fills the TCB and forges its stack.
BootFill ==
  /\ sp = BootStack /\ boot = "create"
  /\ taskCount < MAX_TASKS
  /\ boot' = "filled"
  /\ state' = [state EXCEPT ![taskCount] = "READY"]
  /\ tcbSp' = [tcbSp EXCEPT ![taskCount] = ForgedStack(taskCount)]
  /\ UNCHANGED <<taskCount, remaining, current, next, sp>>

\* task_count++ makes the task visible to schedule().
BootPublish ==
  /\ sp = BootStack /\ boot = "filled"
  /\ boot' = "create"
  /\ taskCount' = taskCount + 1
  /\ UNCHANGED <<state, remaining, current, next, tcbSp, sp>>

\* The schedule() that ends kernel_main runs outside a trap: next_task is
\* stored first (no task ever slept, current_task is NULL) ...
BootPick ==
  /\ sp = BootStack /\ boot = "create"
  /\ taskCount = MAX_TASKS
  /\ next' \in Select(state)
  /\ boot' = "picked"
  /\ UNCHANGED <<taskCount, state, remaining, current, tcbSp, sp>>

\* ... its state after it; then kernel_main spins until a trap takes the CPU.
BootMark ==
  /\ sp = BootStack /\ boot = "picked"
  /\ state' = Dispatch(state, next)
  /\ boot' = "spin"
  /\ UNCHANGED <<taskCount, remaining, current, next, tcbSp, sp>>

BootStep == BootInit \/ BootFill \/ BootPublish \/ BootPick \/ BootMark

Next ==
  \/ Tick
  \/ ExternalIrq
  \/ Yield
  \/ \E d \in SleepTimes : Sleep(d)
  \/ \E pid \in Tasks : Suspend(pid)
  \/ \E pid \in Tasks : Resume(pid)
  \/ Elapse
  \/ BootStep

Spec == Init /\ [][Next]_vars

\* The comparator is re-armed on every tick, time passes, and boot code that
\* holds the CPU goes on.
Fairness == WF_vars(Tick) /\ WF_vars(Elapse) /\ WF_vars(BootStep)

FairSpec == Spec /\ Fairness

-----------------------------------------------------------------------------
(* Properties                                                              *)

BootPhases == {"init", "create", "filled", "picked", "spin"}
TaskStates == {"READY", "RUNNING", "BLOCKED", "SUSPENDED"}

\* Every variable holds a value of its C type; a stack pointer points into a
\* stack that exists and current_task, next_task into the pool or to NULL.
TypeOK ==
  /\ boot \in BootPhases
  /\ taskCount \in 0 .. MAX_TASKS
  /\ state \in [Tasks -> TaskStates]
  /\ remaining \in [Tasks -> Nat]
  /\ current \in Tasks \cup {NoTask}
  /\ next \in Tasks \cup {NoTask}
  /\ tcbSp \in [Tasks -> Tasks \cup {BootStack, NoStack}]
  /\ sp \in Tasks \cup {BootStack}

\* Once all tasks exist and one of them has the CPU, that task is neither
\* asleep nor suspended and no other task is RUNNING: schedule() keeps the
\* state fields in step with the switch that trap.s makes after it.
OneRunning ==
  Booted /\ sp # BootStack =>
    /\ state[sp] \in {"READY", "RUNNING"}
    /\ \A t \in Tasks \ {sp} : state[t] # "RUNNING"

\* The hart is on the stack of current_task, and what trap.s will load for any
\* created task is that task's own stack, even when a tick lands between two
\* steps of boot.
ContextIntegrity ==
  /\ sp = IF current = NoTask THEN BootStack ELSE current
  /\ \A t \in Created : tcbSp[t] = t

\* The CPU changes hands only to a task that no runnable task outranks.
PreemptsForBest ==
  [][current' # current =>
       \A u \in Created' : state'[u] \in {"READY", "RUNNING"} => Prio[u] <= Prio[current']]_vars

\* sys_sleep (syscall.h): "O escalonador nao a escolhera novamente ate que o
\* tempo passe": once all tasks exist no step of any actor ends a sleep before
\* its time, but a stop of the sleeper (whose resume then makes it READY at once).
SleepKept ==
  [][\A t \in Tasks : Booted /\ state[t] = "BLOCKED" /\ remaining[t] > 0
                        => state'[t] \in {"BLOCKED", "SUSPENDED"}]_vars

\* Once all tasks exist no sleeping task sleeps for ever, whatever the others do.
SleeperWakes ==
  \A t \in Apps : Booted /\ state[t] = "BLOCKED" ~> state[t] # "BLOCKED"

TopRunnable(t) ==
  /\ t \in Runnable(state)
  /\ \A u \in Runnable(state) : Prio[u] <= Prio[t]

\* Cyclic fairness: a task that stays runnable and is not outranked runs again
\* and again, however its equals behave.
RoundRobin == \A t \in Apps : <>[]TopRunnable(t) => []<>(sp = t)

\* main.c: "Cria a tarefa de background (obrigatoria para o scheduler nao
\* falhar)": no task runs before the Idle task exists.
IdleExists == sp # BootStack => Booted
=============================================================================

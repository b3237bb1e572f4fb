--------------------------- MODULE SchedulerProofs ---------------------------
(***************************************************************************)
(* Proofs about Scheduler, for every task pool, every assignment of        *)
(* priorities and every set of sleep times.  IInv is the inductive         *)
(* invariant; TypeOK, OneRunning and ContextIntegrity follow from it, and  *)
(* PreemptsForBest, SleepKept, TurnComes and WokenInTime from it and the   *)
(* outcome of schedule().                                                  *)
(***************************************************************************)
EXTENDS Scheduler, WellFoundedInduction, TLAPS

CPU == {"READY", "RUNNING"}

\* What boot has established while it still owns the CPU.
BootInv ==
  /\ boot = "init" => taskCount = 0 /\ current = NoTask
  /\ boot = "filled" => taskCount < MAX_TASKS /\ tcbSp[taskCount] = taskCount
  /\ boot \in {"picked", "spin"} => Booted
  /\ current = NoTask =>
       /\ \A t \in Tasks : state[t] \in CPU
       /\ boot \in {"init", "create", "filled"} => next = NoTask
       /\ boot \in {"picked", "spin"} =>
            next # NoTask /\ \A u \in Created \ {next} : Beats(next, u)

\* Outside a trap next_task agrees with current_task, and the state fields
\* with both of them.
PointerInv ==
  /\ current # NoTask => current \in Created /\ next = current
  /\ next # NoTask => next \in Created
  /\ \A t \in Tasks : state[t] = "RUNNING" => t = next
  /\ Booted /\ current # NoTask => state[current] \in CPU
  /\ state[Idle] \in CPU

IInv == TypeOK /\ ContextIntegrity /\ PointerInv /\ BootInv

-----------------------------------------------------------------------------

\* A non-empty set of naturals has a least element.
LEMMA NatMin ==
  ASSUME NEW S, S \subseteq Nat, S # {}
  PROVE  \E m \in S : \A n \in S : m <= n
<1>1. \A m, n \in Nat : n < m => <<n, m>> \in OpToRel(<, Nat)
  BY DEF OpToRel
<1>2. PICK m \in S : \A n \in S : ~ (<<n, m>> \in OpToRel(<, Nat))
  <2> DEFINE R == OpToRel(<, Nat)
  <2>1. IsWellFoundedOn(R, Nat)
    BY NatLessThanWellFounded
  <2> HIDE DEF R
  <2>2. \E m \in S : \A n \in S : ~ (<<n, m>> \in R)
    BY <2>1, WFMin
  <2> QED
    BY <2>2 DEF R
<1>3. \A n \in S : ~ (n < m)
  BY <1>1, <1>2, Zenon
<1> QED
  BY <1>3

\* The tasks are numbered from 0 and the counters are integers.
LEMMA Numbers ==
  /\ MAX_TASKS \in Nat \ {0}
  /\ Idle \in Tasks
  /\ \A t \in Tasks : t \in Nat /\ Prio[t] \in 0 .. MAX_PRIO
  /\ NoTask \notin Tasks /\ BootStack \notin Tasks /\ NoStack \notin Tasks
  BY MaxTasksAssumption, PrioAssumption
  DEF Tasks, Idle, NoTask, BootStack, NoStack

\* The circular search meets every task once: positions are distinct.
LEMMA RankInjective ==
  ASSUME taskCount \in Nat, taskCount > 0, current \in Created \cup {NoTask}
  PROVE  /\ \A t \in Created : SearchRank(t) \in Nat
         /\ \A t, u \in Created : SearchRank(t) = SearchRank(u) => t = u
<1>1. SearchStart \in 0 .. taskCount - 1
  BY DEF SearchStart, Created, NoTask
<1> QED
  BY <1>1 DEF SearchRank, Created

\* schedule() finds a task whenever there is one to find: among the runnable
\* tasks one beats all the others.
LEMMA SelectNonempty ==
  ASSUME taskCount \in Nat, taskCount <= MAX_TASKS,
         current \in Created \cup {NoTask},
         NEW st, Runnable(st) # {}
  PROVE  Select(st) # {}
<1> DEFINE R == Runnable(st)
           Low == {MAX_PRIO - Prio[t] : t \in R}
<1>1. R \subseteq Created /\ R \subseteq Tasks /\ taskCount > 0
  BY MaxTasksAssumption DEF Runnable, Created, Tasks
<1>2. Low \subseteq Nat /\ Low # {}
  BY <1>1, Numbers, MaxPrioAssumption
<1>3. PICK p \in R : \A t \in R : Prio[t] <= Prio[p]
  <2>1. PICK m \in Low : \A n \in Low : m <= n
    BY <1>2, NatMin
  <2>2. PICK p \in R : m = MAX_PRIO - Prio[p]
    BY <2>1
  <2>3. \A t \in R : m <= MAX_PRIO - Prio[t]
    BY <2>1
  <2> QED
    BY <2>2, <2>3, <1>1, Numbers, MaxPrioAssumption
<1> DEFINE Top == {t \in R : Prio[t] = Prio[p]}
           Ranks == {SearchRank(t) : t \in Top}
<1>4. \A t \in Created : SearchRank(t) \in Nat
  BY <1>1, RankInjective
<1>5. Ranks \subseteq Nat /\ Ranks # {}
  BY <1>1, <1>3, <1>4
<1>6. PICK b \in Top : \A t \in Top : SearchRank(b) <= SearchRank(t)
  <2> HIDE DEF Top
  <2>1. PICK m \in Ranks : \A n \in Ranks : m <= n
    BY <1>5, NatMin
  <2> QED
    BY <2>1
<1>7. \A u \in R \ {b} : Beats(b, u)
  <2> TAKE u \in R \ {b}
  <2>1. CASE u \in Top
    <3>1. SearchRank(b) # SearchRank(u)
      BY <1>1, <1>6, <2>1, RankInjective
    <3> QED
      BY <3>1, <1>1, <1>4, <1>6, <2>1 DEF Beats
  <2>2. CASE u \notin Top
    BY <1>1, <1>3, <1>6, <2>2, Numbers DEF Beats
  <2> QED
    BY <2>1, <2>2
<1> QED
  BY <1>6, <1>7 DEF Select

\* What schedule() may leave behind.
LEMMA ScheduleOutcome ==
  ASSUME TypeOK, current \in Created \cup {NoTask},
         NEW st \in [Tasks -> TaskStates], NEW rem, Schedule(st, rem)
  PROVE  \/ /\ next' = next
            /\ state' = st \/ state' = Awake(st, rem)
            /\ taskCount = 0 \/ Runnable(Awake(st, rem)) = {}
         \/ /\ next' \in Select(Awake(st, rem))
            /\ state' = Dispatch(Awake(st, rem), next')
            /\ taskCount # 0
<1>1. Runnable(Awake(st, rem)) # {} => Select(Awake(st, rem)) # {}
  BY SelectNonempty DEF TypeOK
<1> QED
  BY <1>1 DEF Schedule

\* The winner is a created task, and one that can run unless none can.
LEMMA SelectSound ==
  ASSUME NEW st, NEW b \in Select(st)
  PROVE  /\ b \in Created
         /\ Runnable(st) # {} => b \in Runnable(st) /\ \A u \in Runnable(st) \ {b} : Beats(b, u)
  BY DEF Select, Runnable

\* trap.s leaves current_task, next_task and the hart's stack in agreement.
LEMMA SwitchOutcome ==
  ASSUME IInv, next' \in Created \cup {next}, taskCount' = taskCount, SwitchContext
  PROVE  /\ current' = next'
         /\ sp' = IF next' = NoTask THEN BootStack ELSE next'
         /\ tcbSp' \in [Tasks -> Tasks \cup {BootStack, NoStack}]
         /\ \A t \in Created : tcbSp'[t] = t
         /\ \A t \in Tasks \ Created : tcbSp'[t] = tcbSp[t]
<1> USE DEF IInv, TypeOK, ContextIntegrity, PointerInv, NoTask, BootStack
<1>1. Created \subseteq Tasks
  BY MaxTasksAssumption DEF Created, Tasks
<1>2. CASE next' \in {NoTask, current}
  BY <1>2, Numbers, <1>1 DEF SwitchContext
<1>3. CASE next' \notin {NoTask, current}
  <2>1. next' \in Created
    BY <1>3
  <2>2. /\ SaveOutgoing \in [Tasks -> Tasks \cup {BootStack, NoStack}]
        /\ \A t \in Created : SaveOutgoing[t] = t
        /\ \A t \in Tasks \ Created : SaveOutgoing[t] = tcbSp[t]
    BY <1>1, Numbers DEF SaveOutgoing
  <2> QED
    BY <1>3, <2>1, <2>2, Numbers, <1>1 DEF SwitchContext
<1> QED
  BY <1>2, <1>3

\* A trap that calls schedule() preserves IInv and switches to the best task.
\* st is what the handler made of the states before the call.
LEMMA SchedulingTrap ==
  ASSUME IInv,
         NEW st \in [Tasks -> TaskStates], NEW rem,
         \A t \in Tasks : st[t] = "RUNNING" => t = next,
         st[Idle] \in CPU,
         current = NoTask => st = state,
         Schedule(st, rem), SwitchContext,
         remaining' \in [Tasks -> Nat], UNCHANGED <<boot, taskCount>>
  PROVE  /\ IInv'
         /\ current' # current =>
              \A u \in Created' : state'[u] \in CPU => Prio[u] <= Prio[current']
<1> DEFINE aw == Awake(st, rem)
<1> USE DEF CPU
<1>1. Created \subseteq Tasks /\ Created' = Created /\ (Booted => Idle \in Created)
  BY MaxTasksAssumption DEF Created, Tasks, Booted, Idle, IInv, TypeOK
<1>2. aw \in [Tasks -> TaskStates] /\ aw[Idle] \in CPU
      /\ \A t \in Tasks : /\ aw[t] = "RUNNING" <=> st[t] = "RUNNING"
                          /\ st[t] \in CPU => aw[t] = st[t]
  BY Numbers DEF Awake, TaskStates
<1>3. current \in Created \cup {NoTask} /\ next \in Created \cup {NoTask}
  BY DEF IInv, PointerInv
<1> HIDE DEF aw
<1>4. CASE /\ next' = next
           /\ state' = st \/ state' = aw
           /\ taskCount = 0 \/ Runnable(aw) = {}
  <2>1. /\ current' = next /\ next' = next
        /\ sp' = IF next = NoTask THEN BootStack ELSE next
        /\ tcbSp' \in [Tasks -> Tasks \cup {BootStack, NoStack}]
        /\ \A t \in Created : tcbSp'[t] = t
        /\ \A t \in Tasks \ Created : tcbSp'[t] = tcbSp[t]
    BY <1>4, SwitchOutcome
  <2>2. ~ Booted
    BY <1>1, <1>2, <1>4, MaxTasksAssumption DEF Booted, Runnable
  <2>3. next = current
    BY <2>2 DEF IInv, PointerInv, BootInv, TypeOK, BootPhases
  <2>4. state' \in [Tasks -> TaskStates] /\ state'[Idle] \in CPU
        /\ \A t \in Tasks : state'[t] = "RUNNING" => t = next
    BY <1>2, <1>4
  <2>5. TypeOK'
    BY <2>1, <2>4, <1>1, Numbers DEF IInv, TypeOK
  <2>6. ContextIntegrity'
    BY <2>1, <1>1 DEF ContextIntegrity
  <2>7. PointerInv'
    BY <2>1, <2>2, <2>4, <1>1, <1>3 DEF PointerInv, Booted
  <2>8. BootInv'
    <3>1. current = NoTask => \A t \in Tasks : state'[t] \in CPU
      BY <1>2, <1>4 DEF IInv, BootInv
    <3>2. boot = "filled" => tcbSp'[taskCount] = taskCount
      BY <2>1, <1>1, MaxTasksAssumption DEF IInv, BootInv, Created, Tasks, TypeOK
    <3> QED
      BY <2>1, <2>2, <2>3, <3>1, <3>2 DEF IInv, BootInv, Booted
  <2> QED
    BY <2>1, <2>3, <2>5, <2>6, <2>7, <2>8 DEF IInv
<1>5. CASE /\ next' \in Select(aw)
           /\ state' = Dispatch(aw, next')
           /\ taskCount # 0
  <2> DEFINE b == next'
  <2>1. b \in Created /\ b \in Tasks /\ b # NoTask
        /\ (Runnable(aw) # {} =>
              b \in Runnable(aw) /\ \A u \in Runnable(aw) \ {b} : Beats(b, u))
    BY <1>1, <1>5, SelectSound, Numbers
  <2>2. /\ current' = b /\ next' = b /\ sp' = b
        /\ tcbSp' \in [Tasks -> Tasks \cup {BootStack, NoStack}]
        /\ \A t \in Created : tcbSp'[t] = t
        /\ \A t \in Tasks \ Created : tcbSp'[t] = tcbSp[t]
    BY <2>1, SwitchOutcome
  <2>3. state' = Dispatch(aw, b)
    BY <1>5
  <2>4. current = NoTask /\ next # NoTask => b = next
    <3> SUFFICES ASSUME current = NoTask, next # NoTask
                 PROVE  b = next
      OBVIOUS
    <3>1. next \in Created /\ \A u \in Created \ {next} : Beats(next, u)
      BY DEF IInv, TypeOK, BootPhases, BootInv, PointerInv
    <3>2. Runnable(aw) = Created
      BY <1>1, <1>2 DEF IInv, BootInv, Runnable
    <3>3. b # next => Beats(b, next) /\ Beats(next, b)
      BY <2>1, <3>1, <3>2
    <3>4. SearchRank(b) \in Nat /\ SearchRank(next) \in Nat
      BY <2>1, <3>1, <1>3, <1>5, RankInjective DEF IInv, TypeOK
    <3> HIDE DEF b
    <3> QED
      BY <3>1, <3>3, <3>4, <2>1, <1>1, Numbers DEF Beats
  <2> HIDE DEF b
  <2>5. state' \in [Tasks -> TaskStates]
    BY <1>2, <2>1, <2>3 DEF Dispatch, TaskStates
  <2>6. \A t \in Tasks : state'[t] = "RUNNING" => t = b
    <3>1. \A t \in Tasks : aw[t] = "RUNNING" => t = next
      BY <1>2
    <3>2. current # NoTask => next = current
      BY DEF IInv, PointerInv
    <3>3. CASE current = NoTask
      BY <2>3, <2>4, <3>1, <3>3, Numbers DEF Dispatch
    <3>4. CASE current # NoTask
      BY <2>3, <3>1, <3>2, <3>4 DEF Dispatch
    <3> QED
      BY <3>3, <3>4
  <2>7. \A t \in Tasks : (aw[t] \in CPU) <=> (state'[t] \in CPU)
    BY <2>3 DEF Dispatch
  <2>8. Booted => state'[b] \in CPU
    BY <1>1, <1>2, <2>1, <2>7 DEF Runnable
  <2>9. TypeOK'
    BY <2>1, <2>2, <2>5, <1>1 DEF IInv, TypeOK
  <2>10. ContextIntegrity'
    BY <2>1, <2>2, <1>1 DEF ContextIntegrity
  <2>11. PointerInv'
    BY <1>1, <1>2, <2>1, <2>2, <2>6, <2>7, <2>8, Numbers DEF PointerInv, Booted
  <2>12. BootInv'
    <3>1. boot = "filled" => tcbSp'[taskCount] = taskCount
      BY <2>2, <1>1, MaxTasksAssumption DEF IInv, BootInv, Created, Tasks, TypeOK
    <3> QED
      BY <1>5, <2>1, <2>2, <3>1 DEF IInv, BootInv, Booted
  <2>13. \A u \in Created' : state'[u] \in CPU => Prio[u] <= Prio[current']
    <3> SUFFICES ASSUME NEW u \in Created, state'[u] \in CPU
                 PROVE  Prio[u] <= Prio[b]
      BY <1>1, <2>2
    <3>1. u \in Runnable(aw)
      BY <1>1, <2>7 DEF Runnable
    <3>2. u = b \/ Beats(b, u)
      BY <2>1, <3>1
    <3> QED
      BY <3>2, <2>1, <1>1, Numbers DEF Beats
  <2> QED
    BY <2>9, <2>10, <2>11, <2>12, <2>13 DEF IInv
<1> QED
  BY <1>3, <1>4, <1>5, ScheduleOutcome DEF IInv, aw

\* A trap that leaves next_task alone preserves IInv when its handler only
\* pauses another task than the running one, or makes a task ready.
LEMMA QuietTrap ==
  ASSUME IInv,
         state' \in [Tasks -> TaskStates],
         \A t \in Tasks : state'[t] = "RUNNING" => state[t] = "RUNNING",
         \A t \in {Idle, current} \cap Tasks : state[t] \in CPU => state'[t] \in CPU,
         current = NoTask => state' = state,
         next' = next, SwitchContext,
         UNCHANGED <<boot, taskCount, remaining>>
  PROVE  /\ IInv'
         /\ current' # current =>
              \A u \in Created' : state'[u] \in CPU => Prio[u] <= Prio[current']
<1>1. Created \subseteq Tasks /\ Created' = Created /\ (Booted => Idle \in Created)
  BY MaxTasksAssumption DEF Created, Tasks, Booted, Idle, IInv, TypeOK
<1>2. /\ current' = next
      /\ sp' = IF next = NoTask THEN BootStack ELSE next
      /\ tcbSp' \in [Tasks -> Tasks \cup {BootStack, NoStack}]
      /\ \A t \in Created : tcbSp'[t] = t
      /\ \A t \in Tasks \ Created : tcbSp'[t] = tcbSp[t]
  BY SwitchOutcome
<1>3. next \in Created \cup {NoTask} /\ current \in Created \cup {NoTask}
      /\ (current # NoTask => next = current)
  BY DEF IInv, PointerInv
<1>4. TypeOK'
  BY <1>1, <1>2, <1>3, Numbers DEF IInv, TypeOK
<1>5. ContextIntegrity'
  BY <1>1, <1>2 DEF ContextIntegrity
<1>6. PointerInv'
  <2>1. Booted /\ next # NoTask => state'[next] \in CPU
    BY <1>1, <1>3 DEF IInv, PointerInv, BootInv
  <2> QED
    BY <1>1, <1>2, <1>3, <2>1, Numbers DEF IInv, PointerInv, Booted
<1>7. BootInv'
  <2>1. boot = "filled" => tcbSp'[taskCount] = taskCount
    BY <1>1, <1>2, MaxTasksAssumption DEF IInv, BootInv, Created, Tasks, TypeOK
  <2>2. next = NoTask => current = NoTask
    BY <1>3
  <2> QED
    BY <1>2, <2>1, <2>2 DEF IInv, BootInv, Booted
<1>8. ASSUME current' # current, NEW u \in Created', state'[u] \in CPU
      PROVE  Prio[u] <= Prio[current']
  <2>1. current = NoTask /\ next # NoTask
    BY <1>2, <1>3, <1>8
  <2>2. u = next \/ Beats(next, u)
    BY <1>1, <1>8, <2>1 DEF IInv, TypeOK, BootPhases, BootInv
  <2> QED
    BY <1>1, <1>2, <1>3, <1>8, <2>1, <2>2, Numbers DEF Beats
<1> QED
  BY <1>4, <1>5, <1>6, <1>7, <1>8 DEF IInv

\* Boot steps preserve IInv and never move the CPU.
LEMMA BootPreserves ==
  ASSUME IInv, BootStep
  PROVE  IInv' /\ current' = current
<1> USE DEF IInv
<1>1. /\ current = NoTask /\ sp = BootStack
      /\ \A t \in Tasks : state[t] \in CPU
    BY Numbers DEF BootStep, BootInit, BootFill, BootPublish, BootPick, BootMark,
                   ContextIntegrity, BootInv, TypeOK
<1>2. CASE BootInit
  <2>1. taskCount = 0 /\ next = NoTask
    BY <1>1, <1>2 DEF BootInit, BootInv
  <2> QED
    BY <1>1, <1>2, <2>1 DEF BootInit, TypeOK, BootPhases, ContextIntegrity,
                            PointerInv, BootInv, Booted, Created
<1>3. CASE BootFill
  <2>1. taskCount \in Tasks /\ taskCount \notin Created /\ Created \subseteq Tasks
    BY <1>3, MaxTasksAssumption DEF BootFill, TypeOK, Tasks, Created
  <2>2. next = NoTask /\ boot = "create"
    BY <1>1, <1>3 DEF BootFill, BootInv
  <2>3. TypeOK'
    BY <1>3, <2>1 DEF BootFill, TypeOK, BootPhases, ForgedStack, TaskStates
  <2>4. ContextIntegrity'
    BY <1>3, <2>1 DEF BootFill, ContextIntegrity, Created, TypeOK
  <2>5. PointerInv'
    BY <1>1, <1>3, <2>1, <2>2, Numbers
    DEF BootFill, PointerInv, Created, Booted, TypeOK, CPU
  <2>6. BootInv'
    BY <1>1, <1>3, <2>1, <2>2 DEF BootFill, BootInv, ForgedStack, TypeOK, CPU
  <2> QED
    BY <1>1, <1>3, <2>3, <2>4, <2>5, <2>6 DEF BootFill
<1>4. CASE BootPublish
  <2>1. taskCount < MAX_TASKS /\ tcbSp[taskCount] = taskCount /\ next = NoTask
    BY <1>1, <1>4 DEF BootPublish, BootInv
  <2>2. Created' = Created \cup {taskCount}
    BY <1>4 DEF BootPublish, Created, TypeOK
  <2>3. TypeOK'
    BY <1>4, <2>1, MaxTasksAssumption DEF BootPublish, TypeOK, BootPhases
  <2> QED
    BY <1>1, <1>4, <2>1, <2>2, <2>3
    DEF BootPublish, ContextIntegrity, PointerInv, BootInv
<1>5. CASE BootPick
  <2>1. Created = Tasks /\ Created' = Created /\ Created # {} /\ Booted
    BY <1>5, MaxTasksAssumption DEF BootPick, Created, Tasks, Booted
  <2>2. next' \in Created /\ \A u \in Created \ {next'} : Beats(next', u)
    BY <1>1, <1>5, <2>1, SelectSound DEF BootPick, Runnable, CPU
  <2>3. \A t, u \in Created : Beats(t, u)' <=> Beats(t, u)
    BY <1>5, <2>1 DEF BootPick, Beats, SearchRank, SearchStart
  <2>4. next = NoTask
    BY <1>1, <1>5 DEF BootPick, BootInv
  <2>5. BootInv'
    BY <1>1, <1>5, <2>1, <2>2, <2>3, Numbers DEF BootPick, BootInv, Booted
  <2> QED
    BY <1>1, <1>5, <2>1, <2>2, <2>4, <2>5, Numbers
    DEF BootPick, TypeOK, BootPhases, ContextIntegrity, PointerInv, Booted
<1>6. CASE BootMark
  <2>1. Booted /\ next \in Created /\ next # NoTask
        /\ \A u \in Created \ {next} : Beats(next, u)
    BY <1>1, <1>6 DEF BootMark, BootInv, PointerInv
  <2>2. state' \in [Tasks -> TaskStates]
        /\ \A t \in Tasks : /\ state'[t] \in CPU
                            /\ state'[t] = "RUNNING" => t = next
    BY <1>1, <1>6 DEF BootMark, Dispatch, TypeOK, TaskStates, CPU, PointerInv
  <2>3. \A t, u \in Created : Beats(t, u)' <=> Beats(t, u)
    BY <1>6 DEF BootMark, Beats, SearchRank, SearchStart
  <2>4. BootInv'
    BY <1>1, <1>6, <2>1, <2>2, <2>3 DEF BootMark, BootInv, Booted, Created
  <2> QED
    BY <1>1, <1>6, <2>1, <2>2, <2>4, Numbers
    DEF BootMark, TypeOK, BootPhases, ContextIntegrity, PointerInv, Booted, Created
<1> QED
  BY <1>2, <1>3, <1>4, <1>5, <1>6 DEF BootStep

LEMMA InitIInv == Init => IInv
  BY MaxTasksAssumption, Numbers
  DEF Init, IInv, TypeOK, BootPhases, TaskStates, ContextIntegrity, PointerInv,
      BootInv, Booted, Created, CPU, Tasks, Idle

\* One step: IInv is inductive, and the CPU goes to a task nobody outranks.
LEMMA StepIInv ==
  ASSUME IInv, Next
  PROVE  /\ IInv'
         /\ current' # current =>
              \A u \in Created' : state'[u] \in CPU => Prio[u] <= Prio[current']
<1>1. /\ state \in [Tasks -> TaskStates] /\ remaining \in [Tasks -> Nat]
      /\ \A t \in Tasks : state[t] = "RUNNING" => t = next
      /\ state[Idle] \in CPU
  BY DEF IInv, TypeOK, PointerInv
<1>2. sp \in Apps => current = sp /\ current # NoTask /\ current \in Tasks \ {Idle}
  BY Numbers DEF IInv, TypeOK, ContextIntegrity, Apps
<1>3. CASE Tick
  BY <1>1, <1>3, SchedulingTrap DEF Tick
<1>4. CASE ExternalIrq
  BY <1>1, <1>4, QuietTrap DEF ExternalIrq, PlainTrap
<1>5. CASE Yield
  BY <1>1, <1>5, SchedulingTrap DEF Yield
<1>6. ASSUME NEW d \in SleepTimes, Sleep(d)
      PROVE  /\ IInv'
             /\ current' # current =>
                  \A u \in Created' : state'[u] \in CPU => Prio[u] <= Prio[current']
  <2>1. current \in Tasks \ {Idle} /\ current # NoTask
    BY <1>2, <1>6 DEF Sleep
  <2>2. Blocked(current) \in [Tasks -> TaskStates] /\ Blocked(current)[Idle] \in CPU
        /\ \A t \in Tasks : Blocked(current)[t] = "RUNNING" => t = next
    BY <1>1, <2>1, Numbers DEF Blocked, TaskStates
  <2>3. remaining' \in [Tasks -> Nat]
    BY <1>1, <1>6, SleepTimesAssumption DEF Sleep
  <2> HIDE DEF Blocked
  <2> QED
    BY <1>6, <2>1, <2>2, <2>3, SchedulingTrap DEF Sleep
<1>7. ASSUME NEW pid \in Tasks, Suspend(pid)
      PROVE  /\ IInv'
             /\ current' # current =>
                  \A u \in Created' : state'[u] \in CPU => Prio[u] <= Prio[current']
  <2> DEFINE suspended == [state EXCEPT ![pid] = "SUSPENDED"]
  <2>1. current # NoTask
    BY <1>2, <1>7, ControllersAssumption DEF Suspend
  <2>2. TcbPriority(pid) # 0 => pid # Idle
    BY PrioAssumption DEF TcbPriority
  <2>3. pid # Idle => suspended \in [Tasks -> TaskStates] /\ suspended[Idle] \in CPU
        /\ \A t \in Tasks : suspended[t] = "RUNNING" => state[t] = "RUNNING"
    BY <1>1, Numbers DEF TaskStates
  <2>4. CASE TcbPriority(pid) = 0
    BY <1>1, <1>7, <2>4, QuietTrap DEF Suspend
  <2>5. CASE TcbPriority(pid) # 0 /\ current = pid
    <3>1. Schedule(suspended, remaining) /\ SwitchContext
          /\ UNCHANGED <<boot, taskCount, remaining>>
      BY <1>7, <2>5 DEF Suspend
    <3> HIDE DEF suspended
    <3> QED
      BY <1>1, <2>1, <2>2, <2>3, <2>5, <3>1, SchedulingTrap
  <2>6. CASE TcbPriority(pid) # 0 /\ current # pid
    <3>1. state' = suspended /\ next' = next /\ SwitchContext
          /\ UNCHANGED <<boot, taskCount, remaining>>
      BY <1>7, <2>6 DEF Suspend
    <3>2. \A t \in {Idle, current} \cap Tasks : suspended[t] = state[t]
      BY <1>1, <2>2, <2>6
    <3> HIDE DEF suspended
    <3> QED
      BY <1>1, <2>1, <2>2, <2>3, <2>6, <3>1, <3>2, QuietTrap
  <2> QED
    BY <2>4, <2>5, <2>6
<1>8. ASSUME NEW pid \in Tasks, Resume(pid)
      PROVE  /\ IInv'
             /\ current' # current =>
                  \A u \in Created' : state'[u] \in CPU => Prio[u] <= Prio[current']
  <2>1. current # NoTask
    BY <1>2, <1>8, ControllersAssumption DEF Resume
  <2>2. /\ state' \in [Tasks -> TaskStates]
        /\ \A t \in Tasks : /\ state'[t] = "RUNNING" => state[t] = "RUNNING"
                            /\ state[t] \in CPU => state'[t] \in CPU
    BY <1>1, <1>8 DEF Resume, TaskStates, CPU
  <2>3. next' = next /\ SwitchContext /\ UNCHANGED <<boot, taskCount, remaining>>
    BY <1>8 DEF Resume
  <2> QED
    BY <2>1, <2>2, <2>3, QuietTrap
<1>9. CASE Elapse
  <2>1. remaining' \in [Tasks -> Nat] /\ UNCHANGED <<boot, taskCount, state, current, next, tcbSp, sp>>
    BY <1>1, <1>9 DEF Elapse
  <2> QED
    BY <2>1 DEF IInv, TypeOK, ContextIntegrity, PointerInv, BootInv, Booted, Created,
                Beats, SearchRank, SearchStart
<1>10. CASE BootStep
  BY <1>10, BootPreserves
<1> QED
  BY <1>3, <1>4, <1>5, <1>6, <1>7, <1>8, <1>9, <1>10 DEF Next

LEMMA StutterIInv ==
  ASSUME IInv, UNCHANGED vars
  PROVE  IInv'
  BY DEF vars, IInv, TypeOK, ContextIntegrity, PointerInv, BootInv, Booted, Created,
         Beats, SearchRank, SearchStart

\* The inductive invariant holds in every reachable state.
THEOREM Inductive == Spec => []IInv
<1>1. IInv /\ [Next]_vars => IInv'
  BY StepIInv, StutterIInv
<1> QED
  BY <1>1, InitIInv, PTL DEF Spec

\* Type correctness: no pointer of the kernel ever leaves the task pool.
THEOREM TypeCorrect == Spec => []TypeOK
<1>1. IInv => TypeOK
  BY DEF IInv
<1> QED
  BY <1>1, Inductive, PTL

\* schedule() and trap.s agree, for any number of tasks: the task that has the
\* CPU is the only RUNNING one and is neither blocked nor suspended.
THEOREM OneRunningHolds == Spec => []OneRunning
<1>1. IInv => OneRunning
  BY Numbers DEF IInv, TypeOK, ContextIntegrity, PointerInv, OneRunning, CPU
<1> QED
  BY <1>1, Inductive, PTL

\* No tick, syscall or interrupt, at any point of boot or after it, makes the
\* context switch load a stack that is not the incoming task's own.
THEOREM ContextIntegrityHolds == Spec => []ContextIntegrity
<1>1. IInv => ContextIntegrity
  BY DEF IInv
<1> QED
  BY <1>1, Inductive, PTL

\* Preemption respects priorities, for any assignment of them.
THEOREM PreemptsForBestHolds == Spec => PreemptsForBest
<1>1. IInv /\ [Next]_vars =>
        [current' # current =>
           \A u \in Created' : state'[u] \in {"READY", "RUNNING"} =>
             Prio[u] <= Prio[current']]_vars
  BY StepIInv DEF CPU
<1> QED
  BY <1>1, Inductive, PTL DEF Spec, PreemptsForBest

\* schedule() makes no sleeper ready whose wait is not over.
LEMMA ScheduleKeepsSleeper ==
  ASSUME NEW st \in [Tasks -> TaskStates], NEW rem \in [Tasks -> Nat],
         Schedule(st, rem),
         NEW t \in Tasks, st[t] = "BLOCKED", rem[t] > 0
  PROVE  state'[t] = "BLOCKED"
<1>1. Awake(st, rem)[t] = "BLOCKED"
  BY DEF Awake
<1>2. \A b : Dispatch(Awake(st, rem), b)[t] = "BLOCKED"
  BY <1>1 DEF Dispatch
<1> QED
  BY <1>1, <1>2 DEF Schedule

\* No step of the kernel ends a sleep of a task before its time, but a stop.
LEMMA StepKeepsSleeper ==
  ASSUME IInv, Next, Booted,
         NEW t \in Tasks, state[t] = "BLOCKED", remaining[t] > 0
  PROVE  state'[t] \in {"BLOCKED", "SUSPENDED"}
<1>1. state \in [Tasks -> TaskStates] /\ remaining \in [Tasks -> Nat]
  BY DEF IInv, TypeOK
<1>2. current # NoTask => t # current
  BY DEF IInv, PointerInv, CPU
<1>3. CASE Tick \/ Yield
  BY <1>1, <1>3, ScheduleKeepsSleeper DEF Tick, Yield
<1>4. CASE ExternalIrq \/ Elapse
  BY <1>4 DEF ExternalIrq, PlainTrap, Elapse
<1>5. ASSUME NEW d \in SleepTimes, Sleep(d)
      PROVE  state'[t] \in {"BLOCKED", "SUSPENDED"}
  <2>1. /\ Blocked(current) \in [Tasks -> TaskStates]
        /\ Blocked(current)[t] = "BLOCKED"
    BY <1>1 DEF Blocked, TaskStates
  <2>2. remaining' \in [Tasks -> Nat] /\ remaining'[t] > 0
    BY <1>1, <1>2, <1>5, SleepTimesAssumption DEF Sleep
  <2> QED
    BY <1>5, <2>1, <2>2, ScheduleKeepsSleeper DEF Sleep
<1>6. ASSUME NEW pid \in Tasks, Suspend(pid)
      PROVE  state'[t] \in {"BLOCKED", "SUSPENDED"}
  <2> DEFINE suspended == [state EXCEPT ![pid] = "SUSPENDED"]
  <2>1. CASE current = pid /\ TcbPriority(pid) # 0
    <3>1. pid # t
      BY <1>2, <2>1, Numbers
    <3>2. suspended \in [Tasks -> TaskStates] /\ suspended[t] = "BLOCKED"
      BY <1>1, <3>1 DEF TaskStates
    <3>3. Schedule(suspended, remaining)
      BY <1>6, <2>1 DEF Suspend
    <3> HIDE DEF suspended
    <3> QED
      BY <1>1, <3>2, <3>3, ScheduleKeepsSleeper
  <2>2. CASE ~ (current = pid /\ TcbPriority(pid) # 0)
    BY <1>1, <1>6, <2>2 DEF Suspend
  <2> QED
    BY <2>1, <2>2
<1>7. ASSUME NEW pid \in Tasks, Resume(pid)
      PROVE  state'[t] \in {"BLOCKED", "SUSPENDED"}
  BY <1>1, <1>7 DEF Resume
<1>8. CASE BootStep
  <2>1. CASE BootMark
    BY <1>1, <2>1 DEF BootMark, Dispatch
  <2>2. CASE BootInit \/ BootPublish \/ BootPick
    BY <2>2 DEF BootInit, BootPublish, BootPick
  <2>3. CASE BootFill
    BY <2>3, Numbers DEF BootFill, Booted
  <2> QED
    BY <1>8, <2>1, <2>2, <2>3 DEF BootStep
<1> QED
  BY <1>3, <1>4, <1>5, <1>6, <1>7, <1>8 DEF Next

\* sys_sleep, for any number of tasks and any waits: whatever the others do, a
\* sleeper is made ready only by its time or by a stop and resume of itself.
THEOREM SleepKeptHolds == Spec => SleepKept
<1>1. IInv /\ [Next]_vars =>
        [\A t \in Tasks : Booted /\ state[t] = "BLOCKED" /\ remaining[t] > 0
                            => state'[t] \in {"BLOCKED", "SUSPENDED"}]_vars
  BY StepKeepsSleeper
<1> QED
  BY <1>1, Inductive, PTL DEF Spec, SleepKept

-----------------------------------------------------------------------------
(* The safety half of RoundRobin and SleeperWakes.                         *)

LEMMA NextPlace ==
  ASSUME NEW m \in Nat, NEW k \in 0 .. m - 1
  PROVE  (k + 1) % m = IF k + 1 < m THEN k + 1 ELSE 0
<1>1. CASE k + 1 < m
  BY <1>1
<1>2. CASE k + 1 = m
  BY <1>2
<1> QED
  BY <1>1, <1>2

\* Once the search has passed a task u that it met before t, it meets t earlier.
LEMMA PassedOver ==
  ASSUME IInv, NEW t \in Created, NEW u \in Created, SearchRank(u) < SearchRank(t),
         current' = u, taskCount' = taskCount
  PROVE  SearchRank(t)' < SearchRank(t)
<1> DEFINE m == taskCount
           s == SearchStart
           s2 == SearchStart'
<1>1. m \in Nat /\ t \in 0 .. m - 1 /\ u \in 0 .. m - 1 /\ m > 0
  BY DEF IInv, TypeOK, Created
<1>2. s \in 0 .. m - 1
  <2>1. current = NoTask \/ current \in 0 .. m - 1
    BY DEF IInv, PointerInv, Created
  <2>2. current \in 0 .. m - 1 => (current + 1) % m \in 0 .. m - 1
    BY <1>1
  <2> QED
    BY <1>1, <2>1, <2>2 DEF SearchStart
<1>3. s2 = IF u + 1 < m THEN u + 1 ELSE 0
  <2>1. u # NoTask
    BY <1>1 DEF NoTask
  <2>2. s2 = (u + 1) % m
    BY <2>1 DEF SearchStart
  <2> QED
    BY <1>1, <2>2, NextPlace
<1>4. /\ SearchRank(t) = IF t >= s THEN t - s ELSE t - s + m
      /\ SearchRank(u) = IF u >= s THEN u - s ELSE u - s + m
  BY Zenon DEF SearchRank
<1>5. SearchRank(t)' = IF t >= s2 THEN t - s2 ELSE t - s2 + m
  BY DEF SearchRank
<1> HIDE DEF s, s2, m
<1> QED
  BY <1>1, <1>2, <1>3, <1>4, <1>5

\* The statement of TurnComes for one task: t can run and nothing outranks it, it
\* does not run, and it still can and is not outranked after the step.
Passed(t) ==
  Booted /\ sp # BootStack /\ sp # t /\ TopRunnable(t) /\ TopRunnable(t)'

LEMMA Closer ==
  ASSUME IInv, NEW t \in Tasks, Passed(t),
         NEW st \in [Tasks -> TaskStates], NEW rem, t \in Runnable(st),
         Schedule(st, rem), SwitchContext, UNCHANGED taskCount
  PROVE  sp' = t \/ SearchRank(t)' < SearchRank(t)
<1> DEFINE aw == Awake(st, rem)
<1>1. /\ Created \subseteq Tasks /\ Created' = Created
      /\ current \in Created /\ sp = current /\ taskCount # 0
  BY MaxTasksAssumption, Numbers DEF Created, Tasks, Passed, Booted, IInv, TypeOK, ContextIntegrity, PointerInv
<1>2. t \in Runnable(aw)
  BY DEF Runnable, Awake
<1>3. TypeOK /\ current \in Created \cup {NoTask}
  BY <1>1 DEF IInv
<1>4. /\ next' \in Select(aw)
      /\ state' = Dispatch(aw, next')
  <2>1. \/ taskCount = 0 \/ Runnable(aw) = {}
        \/ next' \in Select(aw) /\ state' = Dispatch(aw, next')
    BY <1>3, ScheduleOutcome
  <2> QED
    BY <1>1, <1>2, <2>1
<1>5. /\ next' \in Created /\ next' \in Runnable(aw)
      /\ \A u \in Runnable(aw) \ {next'} : Beats(next', u)
  BY <1>2, <1>4, SelectSound
<1>6. current' = next' /\ sp' = next'
  <2>1. next' # NoTask
    BY <1>1, <1>5, Numbers
  <2> QED
    BY <1>5, <2>1, SwitchOutcome
<1>7. CASE next' = t
  BY <1>6, <1>7
<1>8. CASE next' # t
  <2> DEFINE b == next'
  <2>1. Prio[b] > Prio[t] \/ (Prio[b] = Prio[t] /\ SearchRank(b) < SearchRank(t))
    BY <1>2, <1>5, <1>8 DEF Beats
  <2>2. state'[b] \in {"READY", "RUNNING"}
    <3>1. aw[b] \in {"READY", "RUNNING"} /\ b \in Tasks
      BY <1>1, <1>5 DEF Runnable
    <3> HIDE DEF aw
    <3> QED
      BY <1>4, <3>1 DEF Dispatch
  <2>3. b \in Runnable(state)'
    BY <1>1, <1>5, <2>2 DEF Runnable
  <2>4. Prio[b] <= Prio[t]
    BY <2>3 DEF Passed, TopRunnable
  <2>5. SearchRank(b) < SearchRank(t)
    <3>1. b \in Tasks /\ t \in Tasks
      BY <1>1, <1>5
    <3> HIDE DEF b
    <3>2. Prio[b] \in Int /\ Prio[t] \in Int
      BY <3>1, Numbers, MaxPrioAssumption
    <3> QED
      BY <2>1, <2>4, <3>2
  <2>6. t \in Created /\ b \in Created /\ current' = b
    BY <1>2, <1>5, <1>6 DEF Runnable
  <2> HIDE DEF b
  <2> QED
    BY <2>5, <2>6, PassedOver
<1> QED
  BY <1>7, <1>8

\* A trap that leaves next_task alone does not change the order of the search.
LEMMA SamePlace ==
  ASSUME IInv, NEW t \in Tasks, sp # BootStack, next' = next, SwitchContext, UNCHANGED taskCount
  PROVE  SearchRank(t)' = SearchRank(t)
<1>1. next = current
  BY DEF IInv, ContextIntegrity, PointerInv
<1>2. current' = current
  BY <1>1 DEF SwitchContext
<1> QED
  BY <1>2 DEF SearchRank, SearchStart

LEMMA StepComesCloser ==
  ASSUME IInv, Next, NEW t \in Tasks, Passed(t)
  PROVE  /\ sp' = t \/ SearchRank(t)' < SearchRank(t) \/ SearchRank(t)' = SearchRank(t)
         /\ Tick \/ Yield => sp' = t \/ SearchRank(t)' < SearchRank(t)
<1>1. state \in [Tasks -> TaskStates] /\ t \in Runnable(state) /\ sp # BootStack
  BY DEF IInv, TypeOK, Passed, TopRunnable
<1>2. current # NoTask /\ t # current /\ current \in Tasks /\ t \in Created
  BY <1>1 DEF IInv, TypeOK, ContextIntegrity, Passed, Runnable
<1>3. Tick \/ Yield => sp' = t \/ SearchRank(t)' < SearchRank(t)
  <2>1. Tick \/ Yield => Schedule(state, remaining) /\ SwitchContext /\ UNCHANGED taskCount
    BY DEF Tick, Yield
  <2> QED
    BY <1>1, <2>1, Closer
<1>4. CASE ExternalIrq
  <2>1. next' = next /\ SwitchContext /\ UNCHANGED taskCount
    BY <1>4 DEF ExternalIrq, PlainTrap
  <2> QED
    BY <1>1, <1>3, <2>1, SamePlace
<1>5. CASE Elapse
  <2>1. current' = current /\ taskCount' = taskCount
    BY <1>5 DEF Elapse
  <2> QED
    BY <1>3, <2>1 DEF SearchRank, SearchStart
<1>6. ASSUME NEW d \in SleepTimes, Sleep(d)
      PROVE  sp' = t \/ SearchRank(t)' < SearchRank(t)
  <2>1. Blocked(current) \in [Tasks -> TaskStates] /\ t \in Runnable(Blocked(current))
    BY <1>1, <1>2 DEF Blocked, TaskStates, Runnable
  <2> QED
    BY <1>6, <2>1, Closer DEF Sleep
<1>7. ASSUME NEW pid \in Tasks, Suspend(pid)
      PROVE  sp' = t \/ SearchRank(t)' < SearchRank(t) \/ SearchRank(t)' = SearchRank(t)
  <2> DEFINE suspended == [state EXCEPT ![pid] = "SUSPENDED"]
  <2>1. CASE current = pid /\ TcbPriority(pid) # 0
    <3>1. suspended \in [Tasks -> TaskStates] /\ t \in Runnable(suspended)
      BY <1>1, <1>2, <2>1 DEF TaskStates, Runnable
    <3>2. Schedule(suspended, remaining) /\ SwitchContext /\ UNCHANGED taskCount
      BY <1>7, <2>1 DEF Suspend
    <3> HIDE DEF suspended
    <3> QED
      BY <3>1, <3>2, Closer
  <2>2. CASE ~ (current = pid /\ TcbPriority(pid) # 0)
    <3>1. next' = next /\ SwitchContext /\ UNCHANGED taskCount
      BY <1>7, <2>2 DEF Suspend
    <3> QED
      BY <1>1, <3>1, SamePlace
  <2> QED
    BY <2>1, <2>2
<1>8. ASSUME NEW pid \in Tasks, Resume(pid)
      PROVE  SearchRank(t)' = SearchRank(t)
  BY <1>1, <1>8, SamePlace DEF Resume
<1>9. ~ BootStep
  BY <1>1 DEF BootStep, BootInit, BootFill, BootPublish, BootPick, BootMark
<1> QED
  BY <1>3, <1>4, <1>5, <1>6, <1>7, <1>8, <1>9 DEF Next

\* Cyclic fairness without fairness (scheduler.c, the circular search): while a task
\* can run and nothing outranks it, every tick and every yield either gives it the
\* CPU or brings it closer to the front of the search, and no other step of any actor
\* sends it back.  So at most taskCount - 1 others run before it.
TurnComes ==
  [][\A t \in Tasks :
       Passed(t) =>
         /\ sp' = t \/ SearchRank(t)' < SearchRank(t) \/ SearchRank(t)' = SearchRank(t)
         /\ Tick \/ Yield => sp' = t \/ SearchRank(t)' < SearchRank(t)]_vars

THEOREM TurnComesHolds == Spec => TurnComes
<1>1. IInv /\ [Next]_vars =>
        [\A t \in Tasks :
           Passed(t) =>
             /\ sp' = t \/ SearchRank(t)' < SearchRank(t) \/ SearchRank(t)' = SearchRank(t)
             /\ Tick \/ Yield => sp' = t \/ SearchRank(t)' < SearchRank(t)]_vars
  <2> SUFFICES ASSUME IInv, Next, NEW t \in Tasks, Passed(t)
               PROVE  /\ sp' = t \/ SearchRank(t)' < SearchRank(t) \/ SearchRank(t)' = SearchRank(t)
                      /\ Tick \/ Yield => sp' = t \/ SearchRank(t)' < SearchRank(t)
    OBVIOUS
  <2> QED
    BY StepComesCloser
<1> QED
  BY <1>1, Inductive, PTL DEF Spec, TurnComes

\* The first tick at or after its time wakes a sleeper (schedule(), phase 1), once all
\* tasks exist: SleeperWakes hangs on nothing but the ticks.
WokenInTime ==
  [][Booted /\ Tick =>
       \A t \in Tasks : state'[t] = "BLOCKED" => remaining[t] > 0]_vars

THEOREM WokenInTimeHolds == Spec => WokenInTime
<1>1. ASSUME IInv, Booted, Tick, NEW t \in Tasks, state'[t] = "BLOCKED"
      PROVE  remaining[t] > 0
  <2> DEFINE aw == Awake(state, remaining)
  <2>1. remaining[t] \in Nat /\ state \in [Tasks -> TaskStates] /\ t \in Created /\ taskCount # 0
    BY <1>1, MaxTasksAssumption DEF IInv, TypeOK, Booted, Created, Tasks
  <2>2. aw[t] = "BLOCKED"
    <3>1. state' = aw \/ \E b : state' = Dispatch(aw, b)
      BY <1>1, <2>1 DEF Tick, Schedule
    <3>2. aw \in [Tasks -> TaskStates]
      BY <2>1 DEF Awake, TaskStates
    <3> HIDE DEF aw
    <3>3. \A b : Dispatch(aw, b)[t] = "BLOCKED" => aw[t] = "BLOCKED"
      BY <3>2 DEF Dispatch
    <3> QED
      BY <1>1, <3>1, <3>3
  <2> QED
    BY <2>1, <2>2 DEF Awake
<1>2. IInv /\ [Next]_vars =>
        [Booted /\ Tick => \A t \in Tasks : state'[t] = "BLOCKED" => remaining[t] > 0]_vars
  BY <1>1
<1> QED
  BY <1>2, Inductive, PTL DEF Spec, WokenInTime
=============================================================================

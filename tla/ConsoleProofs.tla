---------------------------- MODULE ConsoleProofs ----------------------------
(***************************************************************************)
(* Proofs about Console: the programs use the kernel only through its      *)
(* traps, so everything proved of Scheduler holds with them too; and the   *)
(* mutex is sound for every number of safe_puts users, one careless        *)
(* monitor among them.                                                     *)
(***************************************************************************)
EXTENDS Console, SchedulerProofs

LEMMA ConsoleInitSound == ConsoleInit => Init /\ ConsoleTypeOK /\ MutexAgreement
<1> SUFFICES ASSUME ConsoleInit
             PROVE  Init /\ ConsoleTypeOK /\ MutexAgreement
  OBVIOUS
<1>1. 0 \in Tasks
  BY MaxTasksAssumption DEF Tasks
<1> QED
  BY <1>1 DEF ConsoleInit, ConsoleTypeOK, MutexAgreement, InSection, Labels

\* Every step of a program is a step of the kernel or leaves it alone.
LEMMA ConsoleStepRefines ==
  ASSUME [ConsoleNext]_cvars
  PROVE  [Next]_vars
<1>1. CASE Kernel
  BY <1>1 DEF Kernel, Next
<1>2. ASSUME NEW t \in Apps, Common(t)
      PROVE  [Next]_vars
  <2>1. PlainTrap => Next
    BY DEF Next, ExternalIrq
  <2> QED
    BY <1>2, <2>1 DEF Common, Lock, YieldTurn, Write, Unlock, Rest, Next
<1>3. CASE MonitorCheck
  BY <1>3 DEF MonitorCheck
<1>4. CASE ShellOnly
  BY <1>4 DEF ShellOnly, ShellPrints, EditorOpens, EditorCloses, ShellStops,
              ShellResumes, Next
<1>5. CASE UNCHANGED cvars
  BY <1>5 DEF cvars
<1> QED
  BY <1>1, <1>2, <1>3, <1>4, <1>5 DEF ConsoleNext, Program

\* The programs of src/apps implement the environment the scheduler expects.
THEOREM ConsoleImplementsScheduler == ConsoleSpec => Spec
<1>1. ConsoleInit => Init
  BY DEF ConsoleInit
<1>2. [ConsoleNext]_cvars => [Next]_vars
  BY ConsoleStepRefines
<1> QED
  BY <1>1, <1>2, PTL DEF ConsoleSpec, Spec

-----------------------------------------------------------------------------

MutexInv == ConsoleTypeOK /\ MutexAgreement

\* The syscalls act for the task that makes them.
LEMMA CallerIsCurrent ==
  ASSUME IInv, NEW t \in Apps, sp = t
  PROVE  current = t /\ t \in Tasks
  BY Numbers DEF IInv, ContextIntegrity, Apps

\* Moving a task that is outside to a place outside changes nothing.
LEMMA MoveOutside ==
  ASSUME MutexInv, NEW t \in Apps, NEW label \in {"check", "lock", "yield", "rest"},
         ~ InSection(t), GoTo(t, label), UNCHANGED <<locked, owner>>, editor' \in BOOLEAN
  PROVE  MutexInv'
<1> USE DEF MutexInv, ConsoleTypeOK, GoTo
<1>1. /\ pc' \in [Apps -> Labels]
      /\ \A u \in Apps : InSection(u)' <=> InSection(u)
  BY DEF Labels, InSection
<1> QED
  BY <1>1 DEF MutexAgreement

LEMMA MutexStep ==
  ASSUME IInv, MutexInv, [ConsoleNext]_cvars
  PROVE  MutexInv'
<1> USE DEF MutexInv
<1>1. ASSUME NEW t \in Apps, Lock(t)
      PROVE  MutexInv'
  <2>1. current = t /\ t \in Tasks /\ ~ InSection(t)
    BY <1>1, CallerIsCurrent DEF Lock, At, InSection
  <2>2. CASE Available
    <3>1. locked' = TRUE /\ owner' = t /\ editor' = editor
          /\ pc' = [pc EXCEPT ![t] = "put"] /\ ~ locked
      BY <1>1, <2>1, <2>2 DEF Lock, GoTo, Available
    <3>2. \A u \in Apps : InSection(u)' <=> InSection(u) \/ u = t
      BY <3>1 DEF ConsoleTypeOK, InSection
    <3> QED
      BY <2>1, <3>1, <3>2 DEF ConsoleTypeOK, MutexAgreement, Labels
  <2>3. CASE ~ Available
    <3>1. CASE t = Monitor
      <4>1. UNCHANGED <<locked, owner, editor>> /\ pc' = [pc EXCEPT ![t] = "put"]
        BY <1>1, <2>3, <3>1 DEF Lock, GoTo, AfterRefusal
      <4>2. \A u \in Apps : InSection(u)' <=> InSection(u) \/ u = Monitor
        BY <3>1, <4>1 DEF ConsoleTypeOK, InSection
      <4> QED
        BY <4>1, <4>2 DEF ConsoleTypeOK, MutexAgreement, Labels
    <3>2. CASE t # Monitor
      BY <1>1, <2>1, <2>3, <3>2, MoveOutside DEF Lock, AfterRefusal, ConsoleTypeOK
    <3> QED
      BY <3>1, <3>2
  <2> QED
    BY <2>2, <2>3
<1>2. ASSUME NEW t \in Apps, Unlock(t)
      PROVE  MutexInv'
  <2>1. current = t /\ t \in Tasks /\ 0 \in Tasks
    BY <1>2, CallerIsCurrent, MaxTasksAssumption DEF Unlock, At, Tasks
  <2>2. /\ pc' = [pc EXCEPT ![t] = "rest"] /\ editor' = editor
        /\ IF locked /\ owner = t THEN locked' = FALSE /\ owner' = 0
                                  ELSE UNCHANGED <<locked, owner>>
    BY <1>2, <2>1 DEF Unlock, GoTo, MayUnlock, OwnerAfterUnlock
  <2>3. \A u \in Apps : InSection(u)' <=> InSection(u) /\ u # t
    BY <2>2 DEF ConsoleTypeOK, InSection
  <2>4. ConsoleTypeOK'
    BY <2>1, <2>2 DEF ConsoleTypeOK, Labels
  <2>5. CASE locked /\ owner = t
    BY <2>2, <2>3, <2>4, <2>5 DEF MutexAgreement
  <2>6. CASE ~ (locked /\ owner = t)
    BY <2>2, <2>3, <2>4, <2>6 DEF MutexAgreement
  <2> QED
    BY <2>5, <2>6
<1>3. ASSUME NEW t \in Apps, Write(t)
      PROVE  MutexInv'
  <2>1. pc' = [pc EXCEPT ![t] = "unlock"] /\ pc[t] = "put"
        /\ UNCHANGED <<locked, owner, editor>>
    BY <1>3 DEF Write, At, GoTo
  <2>2. \A u \in Apps : InSection(u)' <=> InSection(u)
    BY <2>1 DEF ConsoleTypeOK, InSection
  <2> QED
    BY <2>1, <2>2 DEF ConsoleTypeOK, MutexAgreement, Labels
<1>4. ASSUME NEW t \in Apps, YieldTurn(t) \/ Rest(t)
      PROVE  MutexInv'
  BY <1>4, MoveOutside DEF YieldTurn, Rest, At, InSection, ConsoleTypeOK
<1>5. CASE MonitorCheck
  BY <1>5, MoveOutside, RolesAssumption DEF MonitorCheck, At, InSection, ConsoleTypeOK
<1>6. CASE ShellOnly
  <2>1. CASE EditorCloses
    BY <2>1 DEF EditorCloses, ConsoleTypeOK, MutexAgreement, InSection
  <2>2. CASE ShellPrints \/ EditorOpens \/ ShellStops \/ ShellResumes
    BY <2>2, MoveOutside, RolesAssumption
    DEF ShellPrints, EditorOpens, ShellStops, ShellResumes, At, InSection, ConsoleTypeOK
  <2> QED
    BY <1>6, <2>1, <2>2 DEF ShellOnly
<1>7. CASE Kernel \/ UNCHANGED cvars
  BY <1>7 DEF Kernel, cvars, consoleVars, ConsoleTypeOK, MutexAgreement, InSection
<1> QED
  BY <1>1, <1>2, <1>3, <1>4, <1>5, <1>6, <1>7 DEF ConsoleNext, Program, Common

\* uart_mutex is never held by a task that is outside its section, and nobody
\* prints through safe_puts without holding it, whatever the monitor does and
\* however the scheduler interleaves the programs.
THEOREM MutexAgreementHolds == ConsoleSpec => []MutexAgreement
<1>1. ConsoleInit => MutexInv
  BY ConsoleInitSound DEF MutexInv
<1>2. IInv /\ MutexInv /\ [ConsoleNext]_cvars => MutexInv'
  BY MutexStep
<1>3. MutexInv => MutexAgreement
  BY DEF MutexInv
<1> QED
  BY <1>1, <1>2, <1>3, ConsoleImplementsScheduler, Inductive, PTL DEF ConsoleSpec

\* The types of the program's variables; and a mutex that nobody holds has no
\* owner left in it, as mutex_init leaves it.
THEOREM ConsoleTypeCorrect == ConsoleSpec => []ConsoleTypeOK
<1>1. ConsoleInit => MutexInv
  BY ConsoleInitSound DEF MutexInv
<1>2. IInv /\ MutexInv /\ [ConsoleNext]_cvars => MutexInv'
  BY MutexStep
<1>3. MutexInv => ConsoleTypeOK
  BY DEF MutexInv
<1> QED
  BY <1>1, <1>2, <1>3, ConsoleImplementsScheduler, Inductive, PTL DEF ConsoleSpec
=============================================================================

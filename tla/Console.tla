------------------------------- MODULE Console -------------------------------
(***************************************************************************)
(* The tasks of src/apps on top of the scheduler: who prints on the UART,  *)
(* the uart_mutex they take through SYS_LOCK and SYS_UNLOCK, and the flag  *)
(* g_editor_mode with which the shell silences the monitor.                *)
(*                                                                         *)
(* Every ecall is one trap of Scheduler.  Between two ecalls a task may be *)
(* preempted, so its program is a sequence of steps with a counter pc[t]:  *)
(*   check   task_monitor reads g_editor_mode                              *)
(*   lock    sys_mutex_lock(&uart_mutex)                                   *)
(*   yield   the loop of safe_puts after a refused lock                    *)
(*   put     inside the section, still printing                            *)
(*   unlock  all printed, sys_mutex_unlock(&uart_mutex) to come            *)
(*   rest    outside: the rest of the loop, up to sys_sleep                *)
(* Tasks other than the monitor and the shell follow task_leds.            *)
(***************************************************************************)
EXTENDS Scheduler

CONSTANTS Monitor, Shell

ASSUME RolesAssumption == Monitor \in Apps /\ Shell \in Apps /\ Monitor # Shell
ASSUME ShellControls   == Controllers \subseteq {Shell}

VARIABLES
  locked,   \* uart_mutex.locked
  owner,    \* uart_mutex.owner_tid
  editor,   \* g_editor_mode
  pc        \* where each application is

consoleVars == <<locked, owner, editor, pc>>
cvars == <<vars, consoleVars>>

\* apps_init() has run mutex_init(); every task starts at its first line.
ConsoleInit ==
  /\ Init
  /\ locked = FALSE
  /\ owner = 0
  /\ editor = FALSE
  /\ pc = [t \in Apps |-> IF t = Monitor THEN "check" ELSE "lock"]

At(t, label)   == t \in Apps /\ sp = t /\ pc[t] = label
GoTo(t, label) == pc' = [pc EXCEPT ![t] = label]

-----------------------------------------------------------------------------
(* SYS_LOCK and SYS_UNLOCK                                                 *)

Available == ~ locked

\* safe_puts tries again after a yield; task_monitor ignores the result.
AfterRefusal(t) == IF t = Monitor THEN "put" ELSE "yield"

Lock(t) ==
  /\ At(t, "lock")
  /\ IF Available THEN locked' = TRUE /\ owner' = current /\ GoTo(t, "put")
                  ELSE UNCHANGED <<locked, owner>> /\ GoTo(t, AfterRefusal(t))
  /\ PlainTrap
  /\ UNCHANGED editor

\* The ownership test of SYS_UNLOCK forgotten (mutant of MayUnlock).
MayUnlockAnyone == locked

MayUnlock == locked /\ owner = current

\* The owner not reset (mutant of OwnerAfterUnlock).
OwnerKept == owner

OwnerAfterUnlock == 0

\* A lock that its owner does not give back (mutant of Unlock).
UnlockForgotten(t) ==
  /\ At(t, "unlock")
  /\ GoTo(t, "rest")
  /\ PlainTrap
  /\ UNCHANGED <<locked, owner, editor>>

Unlock(t) ==
  /\ At(t, "unlock")
  /\ IF MayUnlock THEN locked' = FALSE /\ owner' = OwnerAfterUnlock
                 ELSE UNCHANGED <<locked, owner>>
  /\ GoTo(t, "rest")
  /\ PlainTrap
  /\ UNCHANGED editor

-----------------------------------------------------------------------------
(* The programs                                                            *)

\* The sys_yield() of safe_puts.
YieldTurn(t) ==
  /\ At(t, "yield")
  /\ Yield
  /\ GoTo(t, "lock")
  /\ UNCHANGED <<locked, owner, editor>>

\* sys_puts: one SYS_WRITE per character, the last of them here.
Write(t) ==
  /\ At(t, "put")
  /\ PlainTrap
  /\ GoTo(t, "unlock")
  /\ UNCHANGED <<locked, owner, editor>>

\* sys_sleep at the end of a round.  The shell polls the keyboard again, the
\* others start over.
Rest(t) ==
  /\ At(t, "rest")
  /\ \E d \in SleepTimes : Sleep(d)
  /\ GoTo(t, IF t = Shell THEN "rest" ELSE IF t = Monitor THEN "check" ELSE "lock")
  /\ UNCHANGED <<locked, owner, editor>>

\* The monitor skips its line while the editor is open.
MonitorCheck ==
  /\ At(Monitor, "check")
  /\ GoTo(Monitor, IF editor THEN "rest" ELSE "lock")
  /\ UNCHANGED <<vars, locked, owner, editor>>

\* The shell has read a key and prints the echo or the output of a command.
ShellPrints ==
  /\ At(Shell, "rest")
  /\ GoTo(Shell, "lock")
  /\ UNCHANGED <<vars, locked, owner, editor>>

\* cmd_edit: raises the flag, then draws the screen.
EditorOpens ==
  /\ At(Shell, "rest") /\ ~ editor
  /\ editor' = TRUE
  /\ GoTo(Shell, "lock")
  /\ UNCHANGED <<vars, locked, owner>>

\* cmd_edit: lowers it after clear_screen().
EditorCloses ==
  /\ At(Shell, "rest") /\ editor
  /\ editor' = FALSE
  /\ UNCHANGED <<vars, locked, owner, pc>>

\* cmd_stop and cmd_resume print the result.  They are typed at the prompt.
ShellStops ==
  /\ At(Shell, "rest") /\ ~ editor
  /\ \E pid \in Tasks : Suspend(pid)
  /\ GoTo(Shell, "lock")
  /\ UNCHANGED <<locked, owner, editor>>

ShellResumes ==
  /\ At(Shell, "rest") /\ ~ editor
  /\ \E pid \in Tasks : Resume(pid)
  /\ GoTo(Shell, "lock")
  /\ UNCHANGED <<locked, owner, editor>>

Common(t) == Lock(t) \/ YieldTurn(t) \/ Write(t) \/ Unlock(t) \/ Rest(t)

ShellOnly == ShellPrints \/ EditorOpens \/ EditorCloses \/ ShellStops \/ ShellResumes

Program(t) ==
  \/ Common(t)
  \/ t = Monitor /\ MonitorCheck
  \/ t = Shell /\ ShellOnly

Kernel == (Tick \/ ExternalIrq \/ Elapse \/ BootStep) /\ UNCHANGED consoleVars

ConsoleNext == Kernel \/ \E t \in Apps : Program(t)

ConsoleSpec == ConsoleInit /\ [][ConsoleNext]_cvars

\* A time slice is many instructions long: a task that gets the CPU again and
\* again makes progress.
ConsoleFairness ==
  /\ WF_cvars(Tick /\ UNCHANGED consoleVars)
  /\ WF_cvars(Elapse /\ UNCHANGED consoleVars)
  /\ WF_cvars(BootStep /\ UNCHANGED consoleVars)
  /\ \A t \in Apps : SF_cvars(Program(t))

FairConsoleSpec == ConsoleSpec /\ ConsoleFairness

-----------------------------------------------------------------------------
(* Properties                                                              *)

Labels == {"check", "lock", "yield", "put", "unlock", "rest"}

\* The types of the variables; a free mutex has lost its owner, as mutex_init
\* leaves it.
ConsoleTypeOK ==
  /\ locked \in BOOLEAN
  /\ owner \in Tasks
  /\ ~ locked => owner = 0
  /\ editor \in BOOLEAN
  /\ pc \in [Apps -> Labels]

InSection(t) == pc[t] \in {"put", "unlock"}

\* The mutex and the programs agree, although the monitor unlocks without
\* knowing whether it has locked and owner_tid 0 also means nobody: whoever
\* prints through safe_puts owns the mutex, and a locked mutex is owned by a
\* task that is inside and will unlock it.
MutexAgreement ==
  /\ \A t \in Apps \ {Monitor} : InSection(t) => locked /\ owner = t
  /\ locked => owner \in Apps /\ InSection(owner)

\* The owner of the mutex gives it back.  safe_puts waits with sys_yield,
\* "liberando a CPU para outras tarefas" (syscall.h).
MutexReleased == locked ~> ~ locked

\* A mutex that is never free again has an owner that was stopped inside, or one that
\* those who wait for the mutex in safe_puts keep off the CPU: nothing else does, no
\* refused lock, no unlock by the monitor and no other load.
HeldOnlyByWaiters ==
  <>[] locked =>
    <>[] (/\ sp # owner
          /\ \/ state[owner] = "SUSPENDED"
             \/ \E t \in Apps : Prio[t] >= Prio[owner] /\ pc[t] \in {"lock", "yield"})
=============================================================================

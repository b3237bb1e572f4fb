# AXON-OS in TLA+

Models, model-checking runs and machine-checked proofs for AXON-OS, a small
real-time kernel for one RV32I hart. Every definition is written from the C and
assembly sources; `PROJECT.json` names the lines each one stands for.

## The system

| Part | Sources | State | Operations |
|---|---|---|---|
| Scheduler and context switch | `kernel/scheduler.c`, `kernel/trap.s`, `task.h` | task table, `task_count`, `current_task`, `next_task`, saved stack pointers | `schedule`, `scheduler_sleep`, `_suspend`, `_resume`, `task_create`, `trap_entry` |
| Trap handler and boot | `kernel/main.c`, `bsp/start.s` | progress of `kernel_main` | timer and external interrupts, system calls, boot |
| Mutex and tasks on the UART | `mutex.h`, `main.c`, `apps/*.c`, `shell_utils.h`, `ts_cmds.c` | `uart_mutex`, `g_editor_mode`, where each task is | lock, unlock, `safe_puts`, the task loops, stop/resume |
| Keyboard path | `circular_buffer.h`, `task_shell.c` | `rx_buffer` | `uart_isr`, `cbuf_push`, `cbuf_pop` |
| PLIC and interrupt dispatch | `hal_plic.c`, `irq_dispatch.c`, `hal_irq.h`, `apps.c`, `main.c` | PLIC registers, `mie`, `g_isr_table` | init, register, enable, claim, dispatch, complete |
| Reboot | `start.s`, `main.c`, `bin/panic.c`, `bin/reboot.c` | what is not in BSS: PLIC, `mie`, heap | the jump to `_start` |
| Command line of the shell | `task_shell.c` | `cmd_buf`, `cmd_idx`, the screen | keys, Enter, Ctrl+L, the command table |
| Kernel heap | `kernel/mm.c` | linked list of blocks, canaries | `kmalloc_init`, `kmalloc`, `kfree`, `kheap_defrag` |
| RAM disk | `kernel/fs.c` | two bitmaps, inodes, one directory block, data blocks | create, write, read, delete, format |
| Text editor | `kernel/file_cmds.c` | edit buffer, open file | open, type, erase, save, quit |
| Timer driver | `hal_timer.c` | CLINT `mtime`, `mtimecmp` | 64-bit read, comparator write, delays |
| Software arithmetic | `kernel/math_ops.c` | none | multiplication, division, remainder |
| Numbers on the terminal | `mem_cmds.c`, `ts_cmds.c`, `shell_utils.h` | none | print and read decimal and hexadecimal, `cmd_poke` |
| VGA driver | `hal_vga.c` | frame buffer | the clipping of `hal_vga_rect` |
| Others | UART transmission, DMA, NPU, GPIO, logger, build | | not modelled (last section) |

**How they interact.** A task enters the kernel by `ecall`, the timer and the
PLIC by interrupts. All go through `trap_entry`, which saves the context on the
stack of whoever runs, calls `trap_handler` with interrupts masked, and on the
way out switches stacks if `next_task` differs from `current_task`. So a trap is
atomic, and everything outside one (a task's code, the shell's pop from the
keyboard buffer, `kernel_main` once it has enabled interrupts) is interleaved
with traps instruction by instruction. The scheduler is called from the tick,
the yield, the sleep and the suspend of oneself; the RAM disk only
from system calls of the shell, the heap from those and directly from `memtest`
and `fs_init`. The UART interrupt handler shares the keyboard
buffer with the shell, and the tasks share the UART through `uart_mutex`. A key
passes the UART, the PLIC, `trap_handler`, `g_isr_table`, `uart_isr`, the buffer
and the shell's line before a command runs. An exception makes `trap_handler`
call `_start` again, with the devices as they are.

**What is hard.** Boot creates tasks with interrupts on. `schedule()` runs in a
trap except once, at the end of boot. Task states, `current_task`, `next_task`
and stack pointers are updated in different places. The mutex is a try-lock with
a spinning caller under fixed priorities. The keyboard buffer has no lock. The
timer is 64 bits wide and read in halves. Interrupts are enabled before the PLIC
and the dispatch table are set up, and a reboot resets neither. The command
buffer is never cleared. The heap recognises its blocks by a word of memory that
stays behind when blocks are merged. The heap and the disk must survive any
sequence of calls. `PROJECT.json` lists each hazard at its line.

## The modules

### Scheduler (with MCScheduler, SchedulerProofs)

One action per trap: `Tick`, `ExternalIrq`, `Yield`, `Sleep`, `Suspend`,
`Resume`. Each is what the handler does (`Schedule` where it calls
`schedule()`) followed by `SwitchContext`, the end of `trap.s`. `Schedule` has
the phases of the code: `Awake`, `Select` (the circular search is the order
`Beats` on the runnable tasks), `Dispatch`. `sp` is the stack the hart is on:
a task's, or the boot stack; `tcbSp[t]` is the stack pointer saved in a TCB.
Registers are not modelled: the saved context travels with its stack. Time is
relative: `remaining[t]` is `wake_time - mtime`, counted down by `Elapse`.

Boot is `BootInit`, then `BootFill` and `BootPublish` for each task (the TCB is
filled before `task_count++`), then the `schedule()` outside a trap as `BootPick`
and `BootMark` with a gap between the store of `next_task` and the stores of the
states. All of them require `sp = BootStack`: `kernel_main` has no TCB, and once
a trap has switched away from it, it never runs again.

The scheduler leaves to its tasks what they do between traps, so any task may
yield or sleep at any time; suspending and resuming is left to `Controllers`
(the shell).

| Property | Kind | Says |
|---|---|---|
| `TypeOK` | invariant | values in range; the hart never loads a stack pointer that was not set |
| `OneRunning` | invariant | the task on the CPU is runnable and no other is `RUNNING`, once all exist |
| `ContextIntegrity` | invariant | `sp` is `current_task`'s stack; every created task's saved pointer is into its own stack |
| `PreemptsForBest` | action | a switch goes to a task that no runnable one outranks |
| `SleepKept` | action | once all tasks exist, a sleep ends before its time only by a stop of the sleeper (the resume then makes it `READY` at once) |
| `SleeperWakes`, `RoundRobin` | liveness | sleepers wake; a task nobody outranks runs again and again |
| `IdleExists` | invariant | a statement of `main.c` that the code does not keep: a tick during boot |

*Fairness.* Weak fairness of `Tick` (every tick re-arms the comparator, and a
pending interrupt is taken as soon as a trap ends), of `Elapse` (the clock runs)
and of `BootStep` (code that holds the CPU goes on). Nothing is assumed of the
tasks.

### Console (with MCConsole, ConsoleProofs)

Extends `Scheduler` with what the tasks do: a program counter per task over
`check`, `lock`, `yield`, `put`, `unlock`, `rest`. A step that is an `ecall` is
conjoined with the trap it causes (`Lock` with `PlainTrap`, `YieldTurn` with
`Yield`, `Rest` with `Sleep`, `ShellStops` with `Suspend`), and a step needs
`sp = t`: preemption falls between any two steps. The monitor differs from the
others as in the code: it reads the editor flag first and ignores the result of
its lock. The characters of one `sys_puts` are one step: no property depends on
their number.

`ConsoleTypeOK` and `MutexAgreement` (owner, lock bit and programs agree) hold;
the monitor itself is not excluded, it prints with or without the mutex. `MutexReleased`
fails with the priorities of `kernel_main`, where the shell spins above the
owner. `HeldOnlyByWaiters` holds and says what that failure hangs on: a mutex that
is never free again has an owner that the shell has stopped, or that tasks of at
least its priority keep off the CPU while they themselves wait for the mutex; no other
order of locks, refusals, stops and unlocks can leave it locked. The waiters need
not outrank the owner: when every wake-up of the shell restarts the circular search
where an equal that waits comes before the owner, the two take all the time there is. The model also shows that the monitor, preempted between its
look at the editor flag and its print, prints once over an editor that opened in
between.

*Fairness.* The kernel's, and strong fairness of each program: a time slice is
many instructions long, so a task that is given the CPU again and again
executes some of them. Yields of one task do not help another, which is why the
inversion is a behaviour of the fair specification.

### RxBuffer, Fifo (with IrqProofs)

`Fifo` is the promise: a queue of at most `Capacity` characters, a character lost
only when it is full. `RxBuffer` has the array and the two indices; `UartIsr` is
one step, a pop is three (`PopCheck`, `PopRead`, `PopAdvance`), and an interrupt
may fall between any two. `RxBuffer` implements `Fifo` with the queue read off
the array: `KeyboardOrder` is the safety of `Fifo`, proved for every size.
`SlotStable` says that the slot being popped is not touched. The module has no
run of its own: `Irq` extends it and `Irq_reboot` checks it with the interrupts
the hardware really delivers.

### Irq (with IrqProofs)

Extends `RxBuffer`. `UartIsr` now runs only when the PLIC forwards the request of
the UART, `mie` and `mstatus` let it through, and `g_isr_table` names it. A trap is
`Enter`, `Claim`, `Dispatch`, `Complete`; characters arrive and the gateway of the
PLIC acts between any two of them. Boot is the sequence `BootOrder`, one action for
each of its steps: the zeroing of BSS, `hal_uart_init`, the global enable,
`hal_plic_init`, `hal_irq_init` in two steps, `cbuf_init`, and
`hal_irq_register` in three. `Panic` is the exception path: MIE is off, the jump
to `_start` follows, and PLIC, `mie.MEIE` and the receive FIFO stay as they are.

| Property | Says |
|---|---|
| `IrqTypeOK` | a source is claimed exactly while its trap lasts |
| `SlotStable` | as in `RxBuffer`, and no boot begins inside a pop |
| `HandlerReady` | nothing is dispatched before its handler is registered |
| `NothingDiscarded` | between flushes the keyboard is the FIFO of `Fifo`, boot steps included |
| `BootsOrStorms` | every boot ends, or falls into the storm below |
| `DeliversOrStorms` | no character waits for ever, in the UART or in the buffer |
| `RebootCompletes` | does not hold: the storm |

The storm: after an exception BSS is zeroed and the UART flushed, then interrupts
are enabled while the PLIC still has the UART's source open. A key pressed in
that window is claimed, `g_isr_table` has no handler, the character stays in the
UART, and the completed source requests again before `hal_plic_init` can run. At
power-on the PLIC is closed and this cannot happen. `hal_plic_init` of the QEMU
port also gives the source a priority but leaves it closed, which is the same here.

*Fairness.* Weak for the gateway (hardware) and for the hart (traps, boot).
Strong for the shell's pop: traps interrupt it again and again, but a serial line
is slow and it executes in between.

### ShellLine, LineEditor (with MCShellLine, ShellLineProofs)

`LineEditor` is what the user is promised: a line that is typed, corrected at its
end, and run by Enter as a first word and the rest. `ShellLine` has the buffer,
which is never initialised or cleared, the index, the echo on the screen, the
terminator that Enter stores, the cut at the first space and the search of the
table. `RunsTheLine` is the refinement: nothing left from earlier lines, erased
characters or the stack gets into a command. `ScreenIsLine`: the user sees the line
that will run, also after Ctrl+L and with a full buffer.

### Heap (with HeapProofs)

The linked list is a sequence of blocks; addresses are offsets. `Align` computes
in `WORD` values, so that the wrap-around of the rounded size is in the model.
`Taken` is the split. `kheap_defrag` is a loop over the local `curr`, which is a
variable of the module: `Defrag` enters it, each turn is `Merge` (and stays at the
block, which may have a third free neighbour) or `Advance`, `DefragEnds` leaves it.
The other calls are one step and wait for the loop to end (`curr = 0`): it runs in
a trap. `Tiling`, `UsedIsOwned`, `EnoughBytes` and
`FullyMerged` together say that no byte is lost, doubled or short. Sizes close
to `WORD` are rounded to 0 and break `EnoughBytes`; `Heap_users` leaves them out.

`kfree` takes any aligned pointer in the heap whose preceding word is the magic
number, so `canaries` has the words that hold it. Users fill the bytes they own
(`Fill`) and free any pointer, and a `Reboot` writes a new first header over the
old bytes. `LinksNeverHit`: magic numbers are left behind by merges and reboots,
in data or in front of a pointer nobody was given, and `kfree` believes in them; but the
flag it then stores never falls on the size or the link of a block, so the list
survives. `OwnerCanFree`: an owner can always give its block back, whatever is
written into the blocks and whoever frees those of the list how often, as long as
no `kfree` went through a header that has left the list. Without that condition it
is false. `kmalloc(4)` splits the heap and puts a header at 20, with its canary at
32; `kfree` and `kheap_defrag` merge it away, and the canary stays. After `kmalloc(0)`
and `kmalloc(4)` the word at 32 belongs to the user of the second block, whose header
is at 16. Until that user writes it, `kfree(36)`, of the pointer behind the old
header, passes the test and stores its flag at 28, over the canary of that block. The
history variable `strayed` is there for this property only.

### RamFS, FileStore, Editor (with MCEditor, EditorProofs)

`RamFS` has the bitmaps as sets, the block lists of the inodes, the directory
slots and the blocks. Data are sequences of chunks, one per block, so sizes are
block counts. `FirstFree` is `alloc_bit`; `Matches` is the comparison of
`find_inode_by_name`, including what happens to a name of exactly `FS_MAX_NAME`
characters, which is stored without its terminator and then only matches in the
last slot, where zero bytes follow. `FileStore` is the promise: a function from
names to data with the result codes of the calls. `StoresFiles` is the
refinement. It also shows that `-2` (no inode) and a partial write (no block)
never happen: 8 entries are fewer than 32 inodes, and 8 files of 6 blocks fit
in 127. `SizesAssumption` says so for any sizes: with the root, the entries leave
an inode over (`SLOTS + 1 < INODES`), the files leave a block over, and no inode
has the number that marks an empty entry.

`List` is `fs_list`: the entries in use, in the order of the slots;
what it prints of a name of `FS_MAX_NAME` characters runs on into the next entry (`Shown`). `Editor` adds `cmd_edit`: the buffer
is larger than a file and the result of the write is ignored. So the
screen shows `[SAVED]` for three things: the file holds exactly the buffer; the
buffer was too large and the file, whose old content is gone, is empty; there is no
such file. `SavedMeans` says that these are all and that the result nobody looks at
tells them apart.

### Timer64 (with Timer64Proofs)

Each load and store of the driver is a step and the clock ticks in between.
`ReadInWindow`: the 64-bit read lies between call and return, also across a wrap
of the low half. `FiresAtAlarm`: the comparator is not reached while half
written, and afterwards exactly at the alarm. `DelayKept`: a busy-wait, which subtracts two
such reads, never ends early. `Plus` carries between the halves.

### SoftMath, Numerals, Vga (with MCNumerals, NumeralsProofs)

Pure functions; the state of `SoftMath` is the pair of arguments, and one run
evaluates all properties on every pair. A loop of the code is a recursive function
that gives its variables after `k` turns; `while` loops that end early stay where they
are for the rest of `WIDTH` turns, and that they do end within them is part of what is
checked (`MulAgrees`, `DecRoundTrip`). `Pow2[i]` is `1 << i`. `Multiplied` is the loop of `__mulsi3` and, with a
`WIDTH` of 64, of `__muldi3`. `SoftMath` is compared
with `*`, `\div`, `%`, and with C's rules for signed operands. A divisor of 0 is
undefined in C and left out. `Numerals`: printing and reading numbers on top of that
arithmetic, and how `cmd_poke` takes its line apart; what one command prints, another
reads back. `ArgMaxAssumption`: the array for an argument has room for `0x` and all
digits, as `char addr_str[32]` has. `Vga`: a rectangle paints exactly its pixels that
are on the screen.

## The runs

| Run | Expect | Shows |
|---|---|---|
| `Scheduler_kernel` | pass | kernel, boot included, four tasks with the priorities of `kernel_main` and a shell that stops and resumes: states, contexts, choice of the next task, sleeps, round robin |
| `Scheduler_boot_tick` | violation | a tick during boot: the Idle task is never created |
| `Console_mutex` | pass | the mutex and the programs agree; it stays locked only if its owner was stopped or its waiters keep the CPU |
| `Console_inversion` | violation | the shell and a lower owner block each other |
| `Irq_reboot` | pass | interrupts from the UART to the shell through boots and exceptions: handshake, order, delivery |
| `Irq_storm` | violation | a key during a reboot: interrupts that never end |
| `ShellLine_input` | pass | Enter runs what was typed, and the screen shows it |
| `Heap_users` | pass | the list stays sound under any calls, frees of any pointer, and reboots |
| `Editor_disk` | pass | no leak, no sharing, a store of files, what `[SAVED]` means; the editor is one more client of the disk, so one run checks both modules |
| `RamFS_long_names` | violation | two files of one name |
| `Timer64_irq` | pass | reads, alarms and delays across interrupted accesses |
| `Numerals_pure` | pass | arithmetic, numbers as text, clipping |

The four violations are disagreements between the code and a comment or message
of the repository; `PROJECT.json` quotes both sides. Every property of a passing
run has a mutant: a plausible bug (a dropped test, a missing reset, a swapped
order) defined next to the operator it replaces, under which TLC finds the
property violated.

**Bounds.** *Scheduler, Console*: `MAX_TASKS = 4` and `MAX_PRIO = 2` are the real
values; waits are a few clock steps, and only whether a wait is over matters to
the code. *Irq*: 4 slots instead of 128, two
characters and two in the UART, two exceptions (the second meets what the first
left); the indices wrap, the buffer fills and drops. *ShellLine*: lines of four
characters over two letters and the space: words of several lengths, several
spaces, an empty name, known and unknown commands. *Heap*: 96 bytes hold up to six
empty blocks; the requests are 0, a word, one that is rounded, and one that leaves too
little for a split. *RamFS*: three names for two entries, two block pointers,
writes of up to three chunks: the directory fills, writes are refused, blocks
are reused, and the edit buffer can be larger than a file. Names and chunks are symmetric. *Timer64*: halves of four values, so
both wraps and carries happen in every run; `MAX_HI` keeps `mtime` from its last
high half, which takes millennia in 64 bits. *Numerals_pure*: 8 bits, all pairs, so three
decimal digits and two hexadecimal ones, with `ARG_MAX` the length of an address
at that width; a screen of 3 by 2 and rectangles that begin or end up to three
pixels outside.
`Timer64_irq` switches the deadlock check off: at its bound the clock stops
(the driver does not). All other runs check deadlock.

## The proofs

Checked by TLAPS for all values of the constants that satisfy the named
assumptions.

* **SchedulerProofs.** The inductive invariant is `IInv == TypeOK /\
  ContextIntegrity /\ PointerInv /\ BootInv`. `TypeOK` and `ContextIntegrity` are
  not inductive: a switch loads `tcbSp[next']`, so one must know that
  `next_task` is always a created task or nobody, and how it relates to
  `current_task` and to the states between traps (`PointerInv`), and how far boot
  is at that moment (`BootInv`). Each kind of step has a lemma: `ScheduleOutcome`
  and `SelectSound` for what `schedule()` leaves, `SwitchOutcome` for the switch,
  `SchedulingTrap` and `QuietTrap` for the traps that do and do not call it,
  `BootPreserves` for boot. `RankInjective` (two tasks never share a place in the
  circular search) and `NatMin` (a first task of priority 0 exists) give
  `SelectNonempty`. From `Inductive`: `TypeCorrect`, `ContextIntegrityHolds`,
  `OneRunningHolds`, `PreemptsForBestHolds`; and `SleepKeptHolds`, from the
  invariant (the sleeper is not the caller of a sleep or a stop) and
  `ScheduleKeepsSleeper`. The last two are what `RoundRobin` and `SleeperWakes` rest
  on besides fairness. `TurnComesHolds`: while a task can run and nothing outranks it,
  each tick or yield gives it the CPU or lowers its rank in the circular search
  (`PassedOver`: who is searched before it moves the start of the search past
  himself), and no other step raises the rank, so at most `taskCount - 1` tasks go
  first. `WokenInTimeHolds`: no tick leaves a task asleep whose time is over.
* **ConsoleProofs.** `ConsoleImplementsScheduler`: every console step is a step
  of `Scheduler` or leaves its variables alone, so the invariants above carry
  over. `MutexAgreementHolds` uses them: the owner stored by a lock is
  `current_task`, and `ContextIntegrity` says it is the task that called.
* **IrqProofs.** First `SlotStableHolds` and `KeyboardOrderHolds`, theorems of
  `RxBuffer`'s own specification, in which the handler may run at any time: for every
  buffer size each step is a step of `Fifo` or a stutter. The arithmetic modulo
  `BUFFER_SIZE` is done once in lemmas. Then the same with real interrupts, boots and
  exceptions, for every buffer size and every bound on the exceptions. The invariant is `IrqInv == SlotInv
  /\ IrqTypeOK /\ BootInv`: `BootInv` says what each step of `BootOrder` finds
  (interrupts off up to the enable, the source closed after `hal_plic_init`, no
  handler and an empty buffer up to `cbuf_init`, no pop under way). `OrderAfter`
  computes the order once. From it `IrqTypeCorrect`, `IrqSlotStable`,
  `HandlerReadyHolds`, and `NothingDiscardedHolds`, which takes the steps of the
  keyboard from `FifoStep` and adds that `cbuf_init` changes nothing
  (`InitFindsEmpty`). `ListeningHolds` is what `DeliversOrStorms` rests on besides
  fairness: a waiting character always has a trap, a request or a free PLIC to fetch
  it. `BootWindowHolds` says when alone an interrupt can be taken before the system is
  up, the moment in which `Irq_storm` shows the storm begin.

* **HeapProofs.** For every size of the heap and every set of requests. The
  invariant is `IInv == TypeOK /\ Tiling /\ Apart /\ UsedIsOwned /\
  MergedSoFar /\ LinksSafe`. `Tiling` speaks of neighbours; that a store through
  one pointer spares all other blocks needs `Apart`, of any two. `MergedSoFar` is
  the loop invariant of `kheap_defrag`. `LinksSafe` is
  `LinksNeverHit` made inductive: no magic number lies in the first three words of a
  header, so a flag, one word in front of a magic number, is on neither size nor link.
  `SplitGood`, `MergedGood` and `ReleasedList` say that the list stays a tiling
  under the three operations on it; `SplitRange` and its relatives say which blocks
  it then holds; `MallocKeeps`, `FreeKeeps`, `FillKeeps`, `MergeKeeps`, `RebootKeeps`
  put them together. From `HeapInvariant`: `HeapTypeCorrect`, `HeapTiled`,
  `UsedBlocksOwned`, `LinksNeverHitHolds`, and `DefragMerges`.
  `BlocksLargeEnough` and `OwnersCanFree` assume `HonestRequests`, that no size is
  within 3 of `WORD`: `kmalloc` rounds the others to 0 (a hazard at `mm.c:57`), a block of
  0 bytes is then handed out for them, and its user writes over the headers behind
  it. Their invariant adds `HeadersIntact`.
* **EditorProofs.** The disk with the editor as its client, for every size of the
  disk, of a file and of the directory. `DiskInv` adds to `TypeOK`, `BlocksOwned` and
  `InodesLinked` that the root keeps its block, that entries in use carry names of users,
  and that a block of a file was written. `EveryBlockOwned` and `EveryInodeLinked`
  hold with names of exactly `FS_MAX_NAME` characters as well (longer ones are not
  modelled). `SavedIsStored` and `DiskStoresFiles`, the
  refinement of `FileStore`, assume `LongNames = {}`: with a name of
  `FS_MAX_NAME` characters the promise is false, as `RamFS_long_names` shows.
  `InodesSuffice` and `BlocksSuffice` count, with the cardinalities of the two
  bitmaps, that a search for a free inode or block never fails under
  `SizesAssumption`; `CreateFiles`, `WriteFiles`, `DeleteFiles`, `ReadFiles`, `ListFiles` and
  `FormatFiles` map each call to the call of `FileStore`.
* **Timer64Proofs.** For every width of a half and every delay. The properties say
  nothing of a read in progress; `ReadSoFar` does: if the clock still has the high half
  that was read first, the low half belongs to the same time. `Comparator` says what
  the comparator holds between the three stores. From them `TypeCorrect`,
  `AlarmInWindow`, `InterruptOnTime` and `DelaysKept`.
* **ShellLineProofs.** For every length of the buffer, every alphabet and every table of
  commands. `IInv == ShellTypeOK /\ ScreenIsLine /\ LineUnbroken`: the cells of the line
  hold no terminator, while those behind it may hold anything. `CutOfLine`,
  `NameOfLine` and `ArgsOfLine` compute what the scans of Enter find, each bounded by
  the terminator it has just stored; `ThreeParts` puts name, spaces and arguments together
  again. From them `ShellTypeCorrect`, `ScreenShowsLine`, and
  `ShellRunsTheLine`, the refinement of `LineEditor`.

* **NumeralsProofs.** For registers of every width, every room for an argument that
  satisfies `ArgMaxAssumption`, and every screen. What a loop computes is shown by
  induction over its turns. The library's induction theorems take an operator as a
  parameter and cannot be used; `Upto` does the same for the set of the numbers of
  turns that are as they should be, from `LeastNatural` (a least counterexample), which
  follows from `WFMin` and `NatLessThanWellFounded`. That the recursive functions exist
  at all is `LoopExists`. The loop invariants: `res + a * b` is the product modulo
  `2^WIDTH` and `b` is halved (`MulTurnKeeps`); `q` and `r` are quotient and rest of the
  bits of `num` seen so far, and `r * 2` stays below `2^WIDTH` (`DivStep`, `TurnKeeps`);
  the digits found are those of `num`, and what is left of it is below a power of two
  that falls with every turn (`ExtractStep`); the digits read so far have the value
  that fits the register (`ParsedIs`). `SignedDividedIs` adds C's rules for signs,
  `LeadingDigits` says what the hexadecimal digits from the top down are worth, also
  where `WIDTH` is no multiple of 4, `WordIs` and `SpacesSkipped` what the scans of
  `cmd_poke` find. From them `MulAgreesHolds`, `DivisionAgreesHolds`,
  `DecRoundTripHolds` and `PokeWritesWhatIsTypedHolds`; and `RectClippedHolds`, from
  `SpanOnScreen` and `RectOnScreen`.

The invariants of `HeapProofs` and `ShellLineProofs` were first checked by TLC on
the instances of `Heap_users` and `ShellLine_input`.

Every invariant and every action property that a passing run checks is a theorem, and
so are the refinements. Only model-checked: liveness (outside the prover's reach, as is
`ENABLED`), that is `SleeperWakes`, `RoundRobin`, `HeldOnlyByWaiters`, `BootsOrStorms`
and `DeliversOrStorms`; the safety facts behind the first, the second and the last are
theorems (`WokenInTimeHolds`, `TurnComesHolds`, `ListeningHolds`).

## Plan

1. Extend the models: `cmd_reboot`, which restarts from a task with interrupts
   enabled; tasks with real periods, for the starvation of lower tasks.
2. Prove more: the steps from `TurnComesHolds`, `WokenInTimeHolds` and `ListeningHolds`
   to the liveness properties, once the prover knows `ENABLED`.

## Not modelled

* DMA and NPU drivers: nothing in the repository calls them, and the devices they
  program are not described in it.
* GPIO, logger, UART transmission, the printing commands, and the drawing of the
  editor: output, and polling of a busy bit.
* Functions without a caller: `hal_vga_plot`, `_clear`, `_vsync_wait`,
  `hal_timer_reset`, `hal_timer_irq_ack`, `hal_plic_disable`, `_set_threshold`.
* `SYS_PEEK` and `SYS_POKE` of memory that nobody owns: they reach any state at all.
* `cmd_reboot`: BSS is zeroed word by word under a scheduler that still runs.
* Stack depth, a property of the compiled code.
* The cut of `cmd_write_file`'s arguments.
* File names of more than `FS_MAX_NAME` characters, which `fs_create` cuts off.

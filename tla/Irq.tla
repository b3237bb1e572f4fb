--------------------------------- MODULE Irq ---------------------------------
(***************************************************************************)
(* The interrupt of the UART from the device to the keyboard buffer: the   *)
(* PLIC driver, the dispatch table, the order in which boot sets them up,  *)
(* and the exception path of trap_handler(), which jumps to _start while   *)
(* the PLIC and mie keep what the boot before has written to them.         *)
(*                                                                         *)
(* RxBuffer lets its handler run whenever a character waits; here it runs  *)
(* only if the PLIC forwards the request, mie and mstatus let it through   *)
(* and the table names it.                                                 *)
(***************************************************************************)
EXTENDS RxBuffer

CONSTANT REBOOTS  \* bound on the exceptions

ASSUME RebootsAssumption == REBOOTS \in Nat

VARIABLES
  enable, priority,   \* PLIC: bit and priority of the UART
  pending, claimed,   \* PLIC: its request, forwarded or being served
  meie, mie,          \* mie.MEIE, mstatus.MIE
  table,              \* g_isr_table[PLIC id of the UART]
  trap,               \* where trap_handler is
  boot,               \* the next step of _start, kernel_main and apps_init
  boots               \* reboots so far

plic == <<enable, priority, pending, claimed>>
csr  == <<meie, mie>>
irqVars == <<rvars, plic, csr, table, trap, boot, boots>>

IrqInit ==
  /\ Init
  /\ enable = FALSE /\ priority = 0
  /\ pending = FALSE /\ claimed = FALSE
  /\ meie = FALSE /\ mie = FALSE
  /\ table = "NULL"
  /\ trap = "none"
  /\ boot = "zero" /\ boots = 0

-----------------------------------------------------------------------------
(* The devices                                                             *)

\* A character comes in.
KeyArrives == Arrive /\ UNCHANGED <<plic, csr, table, trap, boot, boots>>

\* The PLIC forwards a request while the line of the UART is raised, one at a time.
Gateway ==
  /\ line # <<>> /\ ~ pending /\ ~ claimed
  /\ pending' = TRUE
  /\ UNCHANGED <<rvars, enable, priority, claimed, csr, table, trap, boot, boots>>

-----------------------------------------------------------------------------
(* The external interrupt                                                  *)

Raised      == pending /\ enable /\ priority > 0
Interrupted == Raised /\ meie /\ mie /\ trap = "none"

\* trap_entry: the hart clears MIE until mret, here: while trap is not "none".
Enter ==
  /\ Interrupted
  /\ trap' = "claim"
  /\ UNCHANGED <<rvars, plic, csr, table, boot, boots>>

\* hal_plic_claim().  Nothing withdraws a request, so it never returns 0 here.
Claim ==
  /\ trap = "claim" /\ Raised
  /\ pending' = FALSE /\ claimed' = TRUE
  /\ trap' = "dispatch"
  /\ UNCHANGED <<rvars, enable, priority, csr, table, boot, boots>>

\* irq_dispatch(): an entry that is NULL is passed over; uart_isr() looks first.
Dispatch ==
  /\ trap = "dispatch"
  /\ IF table = "uart_isr" /\ line # <<>> THEN UartIsr ELSE UNCHANGED rvars
  /\ trap' = "complete"
  /\ UNCHANGED <<plic, csr, table, boot, boots>>

\* The source never given back (mutant of Complete).
CompleteForgotten ==
  /\ trap = "complete"
  /\ trap' = "none"
  /\ UNCHANGED <<rvars, plic, csr, table, boot, boots>>

\* hal_plic_complete() and mret.
Complete ==
  /\ trap = "complete"
  /\ claimed' = FALSE
  /\ trap' = "none"
  /\ UNCHANGED <<rvars, enable, priority, pending, csr, table, boot, boots>>

Handle == Enter \/ Claim \/ Dispatch \/ Complete

-----------------------------------------------------------------------------
(* Boot                                                                    *)

\* The source opened before its handler is in the table (mutant of BootOrder).
SourceFirst ==
  <<"zero", "uart", "enable", "plic", "clear", "unmask", "buffer", "priority", "source", "table">>

\* The buffer initialised after the interrupt (mutant of BootOrder).
BufferLast ==
  <<"zero", "uart", "enable", "plic", "clear", "unmask", "table", "priority", "source", "buffer">>

\* Interrupts enabled before the UART is flushed (mutant of BootOrder).
EnableFirst ==
  <<"zero", "enable", "uart", "plic", "clear", "unmask", "buffer", "table", "priority", "source">>

\* What _start, kernel_main, hal_irq_init, apps_init and hal_irq_register do to
\* the state above, in that order.
BootOrder ==
  <<"zero", "uart", "enable", "plic", "clear", "unmask", "buffer", "table", "priority", "source">>

After(step) ==
  LET i == CHOOSE j \in DOMAIN BootOrder : BootOrder[j] = step
  IN  IF i = Len(BootOrder) THEN "ready" ELSE BootOrder[i + 1]

\* The code that runs outside traps goes on.
BootAt(step) ==
  /\ boot = step /\ trap = "none" /\ ~ Interrupted
  /\ boot' = After(step)
  /\ UNCHANGED <<pending, claimed, trap, boots>>

\* _start zeroes BSS, where g_isr_table and rx_buffer are.
ZeroBss ==
  /\ BootAt("zero")
  /\ data' = [i \in Slots |-> None] /\ head' = 0 /\ tail' = 0
  /\ pc' = "check" /\ c' = None /\ got' = None
  /\ table' = "NULL"
  /\ UNCHANGED <<line, enable, priority, csr>>

\* hal_uart_init() empties the receive FIFO.
UartInit ==
  /\ BootAt("uart")
  /\ line' = <<>>
  /\ UNCHANGED <<data, head, tail, pc, c, got, enable, priority, csr, table>>

\* hal_irq_global_enable()
GlobalEnable ==
  /\ BootAt("enable")
  /\ mie' = TRUE
  /\ UNCHANGED <<rvars, enable, priority, meie, table>>

\* hal_plic_init().  Its last store, a complete of source 0, opens no gateway.
PlicInit ==
  /\ BootAt("plic")
  /\ enable' = FALSE /\ priority' = 0
  /\ UNCHANGED <<rvars, csr, table>>

\* hal_irq_init() clears the table ...
ClearTable ==
  /\ BootAt("clear")
  /\ table' = "NULL"
  /\ UNCHANGED <<rvars, enable, priority, csr>>

\* ... and lets external interrupts through.
Unmask ==
  /\ BootAt("unmask")
  /\ meie' = TRUE
  /\ UNCHANGED <<rvars, enable, priority, mie, table>>

\* cbuf_init()
BufferInit ==
  /\ BootAt("buffer")
  /\ head' = 0 /\ tail' = 0
  /\ UNCHANGED <<line, data, pc, c, got, enable, priority, csr, table>>

\* hal_irq_register(): the table, then the PLIC.  apps_init repeats the last two.
SetHandler ==
  /\ BootAt("table")
  /\ table' = "uart_isr"
  /\ UNCHANGED <<rvars, enable, priority, csr>>

SetPriority ==
  /\ BootAt("priority")
  /\ priority' = 1
  /\ UNCHANGED <<rvars, enable, csr, table>>

SetEnable ==
  /\ BootAt("source")
  /\ enable' = TRUE
  /\ UNCHANGED <<rvars, priority, csr, table>>

Boot ==
  \/ ZeroBss \/ UartInit \/ GlobalEnable \/ PlicInit \/ ClearTable
  \/ Unmask \/ BufferInit \/ SetHandler \/ SetPriority \/ SetEnable

\* The shell pops from the buffer once the kernel is up.
Shell ==
  /\ boot = "ready" /\ trap = "none" /\ ~ Interrupted
  /\ Pop
  /\ UNCHANGED <<plic, csr, table, trap, boot, boots>>

\* cmd_panic: the trap of an illegal instruction clears MIE, and trap_handler
\* calls _start instead of returning.
Panic ==
  /\ boot = "ready" /\ trap = "none" /\ ~ Interrupted
  /\ pc = "check" /\ boots < REBOOTS
  /\ mie' = FALSE
  /\ boot' = "zero" /\ boots' = boots + 1
  /\ UNCHANGED <<rvars, plic, meie, table, trap>>

IrqNext == KeyArrives \/ Gateway \/ Handle \/ Boot \/ Shell \/ Panic

IrqSpec == IrqInit /\ [][IrqNext]_irqVars

\* The hart executes and the PLIC passes requests on.  The shell, which polls the
\* buffer for ever, gets to run between the characters of a serial line.
FairIrqSpec ==
  /\ IrqSpec
  /\ WF_irqVars(Gateway)
  /\ WF_irqVars(Handle \/ Boot)
  /\ SF_irqVars(Shell)

-----------------------------------------------------------------------------
(* Properties                                                              *)

\* The types, and the handshake with the PLIC (hal_plic_claim, _complete): a
\* source is claimed exactly while its trap lasts, in all boots.
IrqTypeOK ==
  /\ TypeOK
  /\ enable \in BOOLEAN /\ priority \in 0 .. 7 /\ pending \in BOOLEAN
  /\ meie \in BOOLEAN /\ mie \in BOOLEAN
  /\ table \in {"NULL", "uart_isr"}
  /\ trap \in {"none", "claim", "dispatch", "complete"}
  /\ claimed = (trap \in {"dispatch", "complete"})
  /\ ~ (pending /\ claimed)
  /\ boot \in {BootOrder[i] : i \in DOMAIN BootOrder} \cup {"ready"}
  /\ boots \in 0 .. REBOOTS

\* From power-on, and again after every reboot once hal_plic_init() has run, no
\* interrupt is dispatched before hal_irq_register() has stored its handler,
\* although interrupts are enabled long before.
HandlerReady ==
  trap = "dispatch" /\ (boots = 0 \/ boot # "plic") => table = "uart_isr"

\* Between two flushes nothing but a full buffer loses a character: no step of
\* boot, cbuf_init() included, takes one out of the buffer or out of order.
NothingDiscarded ==
  [][ZeroBss \/ UartInit \/ Promise!Next]_(Promise!fvars)

\* An interrupt that comes back as soon as it is completed, because its handler
\* is gone and nobody reads the character: hal_plic_init() is never reached.
Storm == boot = "plic" /\ mie /\ meie /\ enable /\ table = "NULL" /\ line # <<>>

\* Every boot ends with the kernel up, unless it falls into the storm that a
\* key pressed during a reboot sets off.
BootsOrStorms == <>[]Storm \/ <>[](boot = "ready")

\* No character waits for ever, in the UART or in the buffer: claim, dispatch and
\* complete with one character per interrupt serve every one of them, those that
\* arrive in the middle of a trap as well, and the shell takes it (Fifo).
DeliversOrStorms == <>[]Storm \/ Promise!Fairness

\* trap_handler announces "System will reboot in 3 seconds...": the system is up
\* again after an exception, whatever keys are pressed meanwhile.
RebootCompletes == boot = "zero" ~> boot = "ready"
=============================================================================

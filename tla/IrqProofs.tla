------------------------------ MODULE IrqProofs ------------------------------
(***************************************************************************)
(* Proofs about the keyboard path for every buffer size.  First RxBuffer   *)
(* alone: what the shell checked stays true until it has used it, and the  *)
(* two indices implement a FIFO.  Then Irq, with any number of reboots:    *)
(* the handshake with the PLIC, the handler that is there when it is       *)
(* needed, and the keyboard FIFO with its real interrupts.                 *)
(***************************************************************************)
EXTENDS Irq, SequenceTheorems, TLAPS

\* One subtraction is enough for the indices that occur.
LEMMA ModOnce ==
  ASSUME NEW N \in Nat \ {0}, NEW x \in 0 .. 2 * N - 1
  PROVE  x % N = IF x < N THEN x ELSE x - N
<1>1. CASE x < N
  BY <1>1
<1>2. CASE x >= N
  <2>1. PICK y \in 0 .. N - 1 : x = y + N
    BY <1>2
  <2>2. x % N = y
    BY <2>1
  <2> QED
    BY <2>1, <2>2, <1>2
<1> QED
  BY <1>1, <1>2

LEMMA ModSize ==
  \A x \in 0 .. 2 * BUFFER_SIZE - 1 :
    x % BUFFER_SIZE = IF x < BUFFER_SIZE THEN x ELSE x - BUFFER_SIZE
<1>1. BUFFER_SIZE \in Nat \ {0}
  BY BufferSizeAssumption
<1> QED
  BY <1>1, ModOnce, Zenon

LEMMA SuccValue ==
  ASSUME NEW i \in Slots
  PROVE  Succ(i) = (IF i = BUFFER_SIZE - 1 THEN 0 ELSE i + 1) /\ Succ(i) \in Slots
<1>1. i + 1 \in 0 .. 2 * BUFFER_SIZE - 1 /\ BUFFER_SIZE \in Nat \ {0}
  BY BufferSizeAssumption DEF Slots
<1>2. PICK x \in 0 .. 2 * BUFFER_SIZE - 1 : x = i + 1
  BY <1>1
<1>3. x % BUFFER_SIZE = IF x < BUFFER_SIZE THEN x ELSE x - BUFFER_SIZE
  BY ModSize
<1> QED
  BY <1>2, <1>3, BufferSizeAssumption DEF Succ, Slots

SlotInv == TypeOK /\ SlotStable

LEMMA SlotInit == Init => SlotInv
  BY BufferSizeAssumption DEF Init, SlotInv, TypeOK, SlotStable, Slots

\* The first character of a line and the rest of it.
LEMMA LineHead ==
  ASSUME TypeOK, line # <<>>
  PROVE  Head(line) \in Chars /\ Tail(line) \in Seq(Chars)
  BY HeadTailProperties DEF TypeOK

LEMMA SlotStep ==
  ASSUME SlotInv, [Next]_rvars
  PROVE  SlotInv'
<1> USE DEF SlotInv
<1>1. CASE Arrive
  BY <1>1, AppendProperties DEF Arrive, TypeOK, SlotStable
<1>2. CASE UartIsr
  <2>1. Head(line) \in Chars /\ line' \in Seq(Chars)
    BY <1>2, LineHead DEF UartIsr
  <2>2. CASE Full
    BY <1>2, <2>1, <2>2 DEF UartIsr, TypeOK, SlotStable
  <2>3. CASE ~ Full
    <3>1. Succ(head) \in Slots /\ Succ(head) # tail
      BY <2>3, SuccValue DEF Full, TypeOK
    <3> QED
      BY <1>2, <2>1, <2>3, <3>1 DEF UartIsr, TypeOK, SlotStable
  <2> QED
    BY <2>2, <2>3
<1>3. CASE PopCheck
  BY <1>3 DEF PopCheck, Empty, TypeOK, SlotStable
<1>4. CASE PopRead
  BY <1>4 DEF PopRead, TypeOK, SlotStable
<1>5. CASE PopAdvance
  BY <1>5, SuccValue DEF PopAdvance, TypeOK, SlotStable
<1>6. CASE UNCHANGED rvars
  BY <1>6 DEF rvars, TypeOK, SlotStable
<1> QED
  BY <1>1, <1>2, <1>3, <1>4, <1>5, <1>6 DEF Next, Pop

LEMMA SlotInductive == Spec => []SlotInv
<1>1. SlotInv /\ [Next]_rvars => SlotInv'
  BY SlotStep
<1> QED
  BY <1>1, SlotInit, PTL DEF Spec

\* No interrupt between the check, the read and the advance of cbuf_pop
\* invalidates what the shell has seen, for any number of slots.
THEOREM SlotStableHolds == Spec => []SlotStable
<1>1. SlotInv => SlotStable
  BY DEF SlotInv
<1> QED
  BY <1>1, SlotInductive, PTL

-----------------------------------------------------------------------------

\* Queued without modulo arithmetic.
Waiting == IF head >= tail THEN head - tail ELSE head - tail + BUFFER_SIZE
SlotAt(i) == IF tail + i <= BUFFER_SIZE THEN tail + i - 1 ELSE tail + i - 1 - BUFFER_SIZE

QueuedForm ==
  /\ Waiting \in 0 .. BUFFER_SIZE - 1
  /\ Queued = [i \in 1 .. Waiting |-> data[SlotAt(i)]]
  /\ \A i \in 1 .. Waiting : SlotAt(i) \in Slots

LEMMA QueuedShape == TypeOK => QueuedForm
<1> SUFFICES ASSUME TypeOK
             PROVE  QueuedForm
  OBVIOUS
<1>1. head \in 0 .. BUFFER_SIZE - 1 /\ tail \in 0 .. BUFFER_SIZE - 1
      /\ BUFFER_SIZE \in Nat \ {0}
  BY BufferSizeAssumption DEF TypeOK, Slots
<1>2. (head - tail + BUFFER_SIZE) % BUFFER_SIZE = Waiting
  <2>1. PICK x \in 0 .. 2 * BUFFER_SIZE - 1 : x = head - tail + BUFFER_SIZE
    BY <1>1
  <2>2. x % BUFFER_SIZE = IF x < BUFFER_SIZE THEN x ELSE x - BUFFER_SIZE
    BY ModSize
  <2> QED
    BY <2>1, <2>2, <1>1 DEF Waiting
<1>3. Waiting \in 0 .. BUFFER_SIZE - 1
  BY <1>1 DEF Waiting
<1>4. ASSUME NEW i \in 1 .. Waiting
      PROVE  (tail + i - 1) % BUFFER_SIZE = SlotAt(i) /\ SlotAt(i) \in Slots
  <2>1. PICK x \in 0 .. 2 * BUFFER_SIZE - 1 : x = tail + i - 1
    BY <1>1, <1>3
  <2>2. x % BUFFER_SIZE = IF x < BUFFER_SIZE THEN x ELSE x - BUFFER_SIZE
    BY ModSize
  <2> QED
    BY <2>1, <2>2, <1>1, <1>3 DEF SlotAt, Slots
<1> QED
  BY <1>2, <1>3, <1>4 DEF Queued, QueuedForm

LEMMA QueuedShapeAfter == TypeOK' => QueuedForm'
  BY QueuedShape, PTL

\* A push that finds room appends to the queue; one that does not finds it full.
LEMMA PushAppends ==
  ASSUME SlotInv, UartIsr
  PROVE  /\ Full <=> ~ (Len(Queued) < BUFFER_SIZE - 1)
         /\ Full => Queued' = Queued
         /\ ~ Full => Queued' = Append(Queued, Head(line))
<1> USE DEF SlotInv
<1>1. TypeOK /\ TypeOK' /\ BUFFER_SIZE \in Nat /\ BUFFER_SIZE >= 2
  BY SlotStep, BufferSizeAssumption DEF Next
<1>2. /\ Waiting \in 0 .. BUFFER_SIZE - 1
      /\ Queued = [i \in 1 .. Waiting |-> data[SlotAt(i)]]
      /\ \A i \in 1 .. Waiting : SlotAt(i) \in Slots
  BY <1>1, QueuedShape DEF QueuedForm
<1>3. Queued' = [i \in 1 .. Waiting' |-> data'[SlotAt(i)']]
  BY <1>1, QueuedShapeAfter DEF QueuedForm
<1>4. Len(Queued) = Waiting
  BY <1>2
<1>5. Succ(head) = (IF head = BUFFER_SIZE - 1 THEN 0 ELSE head + 1)
  BY <1>1, SuccValue DEF TypeOK
<1>6. Full <=> Waiting = BUFFER_SIZE - 1
  BY <1>1, <1>5 DEF Full, Waiting, TypeOK, Slots
<1>7. CASE Full
  <2>1. Queued' = Queued
    BY <1>7 DEF UartIsr, Queued
  <2> QED
    BY <1>1, <1>4, <1>6, <1>7, <2>1
<1>8. CASE ~ Full
  <2>1. data' = [data EXCEPT ![head] = Head(line)] /\ head' = Succ(head) /\ tail' = tail
    BY <1>8 DEF UartIsr
  <2>2. Waiting' = Waiting + 1
    BY <1>1, <1>5, <1>6, <1>8, <2>1 DEF Waiting, TypeOK, Slots
  <2>3. \A i \in 1 .. Waiting + 1 : SlotAt(i)' = SlotAt(i)
    BY <2>1 DEF SlotAt
  <2>4. SlotAt(Waiting + 1) = head
        /\ \A i \in 1 .. Waiting : SlotAt(i) # head
    BY <1>1 DEF SlotAt, Waiting, TypeOK, Slots
  <2>5. \A i \in 1 .. Waiting : data'[SlotAt(i)] = data[SlotAt(i)]
    BY <1>1, <1>2, <2>1, <2>4 DEF TypeOK
  <2>6. data'[SlotAt(Waiting + 1)] = Head(line)
    BY <1>1, <2>1, <2>4 DEF TypeOK
  <2> HIDE DEF SlotAt, Waiting
  <2>7. Queued' = [i \in 1 .. Waiting + 1 |->
                     IF i <= Waiting THEN data[SlotAt(i)] ELSE Head(line)]
    BY <1>2, <1>3, <2>2, <2>3, <2>5, <2>6
  <2>8. Append(Queued, Head(line)) = [i \in 1 .. Waiting + 1 |->
                     IF i <= Waiting THEN data[SlotAt(i)] ELSE Head(line)]
    BY <1>2, <1>4
  <2> QED
    BY <1>1, <1>2, <1>4, <1>6, <1>8, <2>7, <2>8
<1> QED
  BY <1>7, <1>8

\* The last step of a pop removes the oldest character, which is the one read.
LEMMA PopTakes ==
  ASSUME SlotInv, PopAdvance
  PROVE  Queued # <<>> /\ got' = Head(Queued) /\ Queued' = Tail(Queued)
<1> USE DEF SlotInv
<1>1. TypeOK /\ TypeOK' /\ BUFFER_SIZE \in Nat /\ BUFFER_SIZE >= 2
  BY SlotStep, BufferSizeAssumption DEF Next, Pop
<1>2. /\ Waiting \in 0 .. BUFFER_SIZE - 1
      /\ Queued = [i \in 1 .. Waiting |-> data[SlotAt(i)]]
  BY <1>1, QueuedShape DEF QueuedForm
<1>3. Queued' = [i \in 1 .. Waiting' |-> data'[SlotAt(i)']]
  BY <1>1, QueuedShapeAfter DEF QueuedForm
<1>4. head # tail /\ c = data[tail] /\ tail' = Succ(tail) /\ got' = c
      /\ UNCHANGED <<head, data>>
  BY DEF PopAdvance, SlotStable
<1>5. Succ(tail) = (IF tail = BUFFER_SIZE - 1 THEN 0 ELSE tail + 1)
  BY <1>1, SuccValue DEF TypeOK
<1>6. Waiting > 0 /\ SlotAt(1) = tail /\ Waiting' = Waiting - 1
  <2>1. head \in 0 .. BUFFER_SIZE - 1 /\ tail \in 0 .. BUFFER_SIZE - 1 /\ head # tail
    BY <1>1, <1>4 DEF TypeOK, Slots
  <2>2. head' = head /\ tail' = IF tail = BUFFER_SIZE - 1 THEN 0 ELSE tail + 1
    BY <1>4, <1>5
  <2>3. Waiting > 0
    BY <1>1, <2>1 DEF Waiting
  <2>4. SlotAt(1) = tail
    BY <1>1, <2>1 DEF SlotAt
  <2>5. Waiting' = Waiting - 1
    BY <1>1, <2>1, <2>2 DEF Waiting
  <2> QED
    BY <2>3, <2>4, <2>5
<1>7. ASSUME NEW i \in 1 .. Waiting - 1
      PROVE  SlotAt(i)' = SlotAt(i + 1)
  <2>1. tail \in 0 .. BUFFER_SIZE - 1 /\ i \in 1 .. BUFFER_SIZE - 1
    BY <1>1, <1>2 DEF TypeOK, Slots
  <2>2. tail' = IF tail = BUFFER_SIZE - 1 THEN 0 ELSE tail + 1
    BY <1>4, <1>5
  <2> QED
    BY <1>1, <2>1, <2>2 DEF SlotAt
<1> HIDE DEF SlotAt, Waiting
<1>8. Queued # <<>> /\ Head(Queued) = data[tail]
  BY <1>2, <1>6
<1>9. Tail(Queued) = [i \in 1 .. Waiting - 1 |-> data[SlotAt(i + 1)]]
  BY <1>2, <1>6
<1>10. Queued' = [i \in 1 .. Waiting - 1 |-> data[SlotAt(i + 1)]]
  BY <1>2, <1>3, <1>4, <1>6, <1>7
<1> QED
  BY <1>4, <1>8, <1>9, <1>10

LEMMA FifoInit == Init => Promise!Init
<1> SUFFICES ASSUME Init
             PROVE  Promise!Init
  OBVIOUS
<1>1. TypeOK /\ Waiting = 0
  BY SlotInit DEF SlotInv, Init, Waiting
<1>2. Queued = <<>>
  BY <1>1, QueuedShape DEF QueuedForm
<1> QED
  BY <1>2 DEF Init, Promise!Init

LEMMA FifoStep ==
  ASSUME SlotInv, [Next]_rvars
  PROVE  [Promise!Next]_(Promise!fvars)
<1>1. CASE Arrive
  BY <1>1 DEF Arrive, Queued, Promise!Next, Promise!Arrive
<1>2. CASE UartIsr
  BY <1>2, PushAppends DEF UartIsr, Promise!Next, Promise!Accept
<1>3. CASE PopCheck \/ PopRead \/ UNCHANGED rvars
  BY <1>3 DEF PopCheck, PopRead, rvars, Queued, Promise!fvars
<1>4. CASE PopAdvance
  BY <1>4, PopTakes DEF PopAdvance, Promise!Next, Promise!Take
<1> QED
  BY <1>1, <1>2, <1>3, <1>4 DEF Next, Pop

\* The interrupt handler and the three-step pop implement a FIFO of
\* BUFFER_SIZE - 1 characters, for every buffer size.
THEOREM KeyboardOrderHolds == Spec => KeyboardOrder
<1>1. SlotInv /\ [Next]_rvars => [Promise!Next]_(Promise!fvars)
  BY FifoStep
<1> QED
  BY <1>1, FifoInit, SlotInductive, PTL DEF Spec, KeyboardOrder

-----------------------------------------------------------------------------
(* The controller and the boot                                             *)

\* The steps of boot up to the one that sets mstatus.MIE ...
BeforeEnable == {"zero", "uart", "enable"}
\* ... those that run with interrupts enabled and the source of the UART closed ...
Closed == {"clear", "unmask", "buffer", "table", "priority", "source"}
\* ... and those between the zeroing of BSS and the registration of the handler.
NoHandler == {"uart", "enable", "plic", "clear", "unmask", "buffer", "table"}

Steps == BeforeEnable \cup {"plic"} \cup Closed \cup {"ready"}

LEMMA OrderValues ==
  /\ DOMAIN BootOrder = 1 .. 10 /\ Len(BootOrder) = 10
  /\ BootOrder[1] = "zero"   /\ BootOrder[2] = "uart"    /\ BootOrder[3] = "enable"
  /\ BootOrder[4] = "plic"   /\ BootOrder[5] = "clear"   /\ BootOrder[6] = "unmask"
  /\ BootOrder[7] = "buffer" /\ BootOrder[8] = "table"   /\ BootOrder[9] = "priority"
  /\ BootOrder[10] = "source"
<1>1. DOMAIN BootOrder = 1 .. 10 /\ Len(BootOrder) = 10
  BY DEF BootOrder
<1>2. BootOrder[1] = "zero" /\ BootOrder[2] = "uart" /\ BootOrder[3] = "enable"
  BY DEF BootOrder
<1>3. BootOrder[4] = "plic" /\ BootOrder[5] = "clear" /\ BootOrder[6] = "unmask"
  BY DEF BootOrder
<1>4. BootOrder[7] = "buffer" /\ BootOrder[8] = "table" /\ BootOrder[9] = "priority"
      /\ BootOrder[10] = "source"
  BY DEF BootOrder
<1> QED
  BY <1>1, <1>2, <1>3, <1>4

LEMMA OrderSteps == {BootOrder[i] : i \in DOMAIN BootOrder} \cup {"ready"} = Steps
<1>1. ASSUME NEW i \in 1 .. 10
      PROVE  BootOrder[i] \in Steps
  BY OrderValues DEF Steps, BeforeEnable, Closed
<1>2. ASSUME NEW s \in Steps \ {"ready"}
      PROVE  \E i \in 1 .. 10 : BootOrder[i] = s
  BY OrderValues DEF Steps, BeforeEnable, Closed
<1>3. "ready" \in Steps
  BY DEF Steps
<1> QED
  BY <1>1, <1>2, <1>3, OrderValues

LEMMA OrderOnce ==
  \A i, j \in 1 .. 10 : BootOrder[i] = BootOrder[j] => i = j
  BY OrderValues

LEMMA OrderStep ==
  ASSUME NEW i \in 1 .. 10
  PROVE  After(BootOrder[i]) = IF i = 10 THEN "ready" ELSE BootOrder[i + 1]
<1>1. (CHOOSE j \in DOMAIN BootOrder : BootOrder[j] = BootOrder[i]) = i
  BY OrderValues, OrderOnce
<1> QED
  BY <1>1, OrderValues DEF After

\* What follows each step.
LEMMA OrderAfter ==
  /\ After("zero")   = "uart"   /\ After("uart")   = "enable" /\ After("enable")   = "plic"
  /\ After("plic")   = "clear"  /\ After("clear")  = "unmask" /\ After("unmask")   = "buffer"
  /\ After("buffer") = "table"  /\ After("table")  = "priority"
  /\ After("priority") = "source" /\ After("source") = "ready"
<1>1. \A i \in 1 .. 10 : After(BootOrder[i]) = IF i = 10 THEN "ready" ELSE BootOrder[i + 1]
  BY OrderStep
<1> HIDE DEF After
<1> QED
  BY <1>1, OrderValues

\* What runs after the step that sets mie.MEIE.
Unmasked == {"buffer", "table", "priority", "source", "ready"}

-----------------------------------------------------------------------------
(* The invariant: what each step of boot finds.                            *)

BootInv ==
  /\ boot \in BeforeEnable => ~ mie
  /\ boot \in Closed => ~ enable
  /\ boots = 0 /\ boot # "ready" => ~ enable /\ trap = "none"
  /\ trap # "none" => boot \in {"plic", "ready"}
  /\ boot \in {"priority", "source", "ready"} => table = "uart_isr"
  /\ boot \in NoHandler => table = "NULL" /\ head = tail
  /\ boot # "ready" => pc = "check"
  /\ boot \notin BeforeEnable => mie
  /\ boot \in Unmasked => meie
  /\ boot \in {"source", "ready"} => priority = 1
  /\ boot = "ready" => enable

IrqInv == SlotInv /\ IrqTypeOK /\ BootInv

LEMMA IrqStart == IrqInit => IrqInv
<1> SUFFICES ASSUME IrqInit
             PROVE  IrqInv
  OBVIOUS
<1>1. SlotInv
  BY SlotInit DEF IrqInit
<1>2. IrqTypeOK
  <2>1. /\ trap = "none" /\ claimed = FALSE /\ pending = FALSE /\ enable = FALSE
        /\ meie = FALSE /\ mie = FALSE /\ priority = 0 /\ table = "NULL"
        /\ boot = "zero" /\ boots = 0
    BY DEF IrqInit
  <2>2. claimed = (trap \in {"dispatch", "complete"})
    <3>1. (trap \in {"dispatch", "complete"}) = FALSE
      BY <2>1
    <3>2. claimed = FALSE
      BY <2>1
    <3> QED
      BY <3>1, <3>2, Zenon
  <2>3. boot \in Steps /\ boots \in 0 .. REBOOTS /\ priority \in 0 .. 7
    BY <2>1, RebootsAssumption DEF Steps, BeforeEnable
  <2> QED
    BY <1>1, <2>1, <2>2, <2>3, OrderSteps DEF SlotInv, IrqTypeOK
<1>3. BootInv
  BY DEF IrqInit, Init, BootInv, Unmasked, BeforeEnable, Closed, NoHandler
<1> QED
  BY <1>1, <1>2, <1>3 DEF IrqInv

\* The arrival of a character, a request, and the four steps of a trap.
LEMMA TrapPreserves ==
  ASSUME IrqInv, KeyArrives \/ Gateway \/ Handle
  PROVE  IrqInv'
<1> USE DEF IrqInv
<1>1. CASE KeyArrives
  <2>1. SlotInv'
    BY <1>1, SlotStep DEF KeyArrives, Next
  <2>2. UNCHANGED <<plic, csr, table, trap, boot, boots, head, tail, pc>>
    BY <1>1 DEF KeyArrives, Arrive
  <2> QED
    BY <2>1, <2>2 DEF SlotInv, IrqTypeOK, BootInv, plic, csr
<1>2. CASE Gateway
  <2>1. SlotInv'
    BY <1>2, SlotStep DEF Gateway
  <2> QED
    BY <1>2, <2>1 DEF Gateway, SlotInv, IrqTypeOK, BootInv, csr, rvars
<1>3. CASE Enter
  <2>1. SlotInv'
    BY <1>3, SlotStep DEF Enter
  <2>2. boot \in Steps
    BY OrderSteps DEF IrqTypeOK
  <2>3. boot \in {"plic", "ready"} /\ (boots = 0 => boot = "ready")
    BY <1>3, <2>2 DEF Enter, Interrupted, Raised, BootInv, Steps
  <2>4. UNCHANGED <<rvars, plic, csr, table, boot, boots>> /\ trap' = "claim" /\ trap = "none"
    BY <1>3 DEF Enter, Interrupted
  <2> QED
    BY <2>1, <2>3, <2>4 DEF SlotInv, IrqTypeOK, BootInv, plic, csr, rvars
<1>4. CASE Claim
  <2>1. SlotInv'
    BY <1>4, SlotStep DEF Claim
  <2> QED
    BY <1>4, <2>1 DEF Claim, SlotInv, IrqTypeOK, BootInv, csr, rvars
<1>5. CASE Dispatch
  <2>1. (table = "uart_isr" /\ UartIsr) \/ UNCHANGED rvars
    BY <1>5 DEF Dispatch
  <2>2. SlotInv'
    BY <2>1, SlotStep DEF Next
  <2>3. /\ UNCHANGED <<plic, csr, table, boot, boots>>
        /\ trap = "dispatch" /\ trap' = "complete"
    BY <1>5 DEF Dispatch
  <2>4. pc' = pc /\ (table = "NULL" => head' = head /\ tail' = tail)
    BY <2>1 DEF UartIsr, rvars
  <2>5. claimed' = (trap' \in {"dispatch", "complete"})
    <3>1. trap \in {"dispatch", "complete"} /\ trap' \in {"dispatch", "complete"}
      BY <2>3
    <3>2. claimed' = claimed /\ claimed = (trap \in {"dispatch", "complete"})
      BY <2>3 DEF IrqTypeOK, plic
    <3> QED
      BY <3>1, <3>2, Zenon
  <2>6. IrqTypeOK'
    BY <2>2, <2>3, <2>5 DEF SlotInv, IrqTypeOK, plic, csr
  <2>7. BootInv'
    BY <2>3, <2>4 DEF BootInv, plic, csr
  <2> QED
    BY <2>2, <2>6, <2>7
<1>6. CASE Complete
  <2>1. SlotInv'
    BY <1>6, SlotStep DEF Complete
  <2>2. /\ trap' = "none" /\ claimed' = FALSE
        /\ UNCHANGED <<rvars, enable, priority, pending, csr, table, boot, boots>>
    BY <1>6 DEF Complete
  <2>3. claimed' = (trap' \in {"dispatch", "complete"}) /\ ~ claimed'
    <3>1. (trap' \in {"dispatch", "complete"}) = FALSE
      BY <2>2
    <3>2. claimed' = FALSE
      BY <2>2
    <3> QED
      BY <3>1, <3>2, Zenon
  <2>4. IrqTypeOK'
    BY <2>1, <2>2, <2>3 DEF SlotInv, IrqTypeOK, csr
  <2>5. BootInv'
    BY <2>2 DEF BootInv, csr, rvars
  <2> QED
    BY <2>1, <2>4, <2>5
<1> QED
  BY <1>1, <1>2, <1>3, <1>4, <1>5, <1>6 DEF Handle

\* The steps of boot that touch the buffer.
LEMMA BufferBoot ==
  ASSUME IrqInv, ZeroBss \/ UartInit \/ BufferInit
  PROVE  SlotInv' /\ head' = tail' /\ pc' = "check"
<1> USE DEF IrqInv, SlotInv
<1>1. 0 \in Slots
  BY BufferSizeAssumption DEF Slots
<1>2. CASE ZeroBss
  BY <1>1, <1>2 DEF ZeroBss, TypeOK, SlotStable
<1>3. CASE UartInit
  <2>1. pc = "check" /\ head = tail
    BY <1>3 DEF UartInit, BootAt, BootInv, NoHandler
  <2> QED
    BY <1>3, <2>1 DEF UartInit, TypeOK, SlotStable
<1>4. CASE BufferInit
  <2>1. pc = "check"
    BY <1>4 DEF BufferInit, BootAt, BootInv
  <2> QED
    BY <1>1, <1>4, <2>1 DEF BufferInit, TypeOK, SlotStable
<1> QED
  BY <1>2, <1>3, <1>4

LEMMA BootPreserves ==
  ASSUME IrqInv, Boot
  PROVE  IrqInv'
<1> USE DEF IrqInv, IrqTypeOK
<1> HIDE DEF After
<1>1. trap = "none" /\ UNCHANGED <<pending, claimed, trap, boots>>
  BY DEF Boot, ZeroBss, UartInit, GlobalEnable, PlicInit, ClearTable, Unmask,
         BufferInit, SetHandler, SetPriority, SetEnable, BootAt
<1>2. CASE ZeroBss
  <2>1. boot = "zero" /\ boot' = "uart" /\ table' = "NULL" /\ UNCHANGED <<enable, priority, csr>>
    BY <1>2, OrderAfter DEF ZeroBss, BootAt
  <2> QED
    BY <1>1, <1>2, <2>1, BufferBoot, OrderSteps
       DEF BootInv, Unmasked, SlotInv, Steps, BeforeEnable, Closed, NoHandler, csr
<1>3. CASE UartInit
  <2>1. boot = "uart" /\ boot' = "enable" /\ UNCHANGED <<enable, priority, csr, table>>
    BY <1>3, OrderAfter DEF UartInit, BootAt
  <2> QED
    BY <1>1, <1>3, <2>1, BufferBoot, OrderSteps
       DEF BootInv, Unmasked, SlotInv, Steps, BeforeEnable, Closed, NoHandler, csr
<1>4. CASE BufferInit
  <2>1. boot = "buffer" /\ boot' = "table" /\ UNCHANGED <<enable, priority, csr, table>>
    BY <1>4, OrderAfter DEF BufferInit, BootAt
  <2> QED
    BY <1>1, <1>4, <2>1, BufferBoot, OrderSteps
       DEF BootInv, Unmasked, SlotInv, Steps, BeforeEnable, Closed, NoHandler, csr
<1>5. ASSUME UNCHANGED rvars
      PROVE  SlotInv' /\ UNCHANGED <<head, tail, pc>>
  BY <1>5, SlotStep DEF rvars
<1>6. CASE GlobalEnable
  <2>1. /\ boot = "enable" /\ boot' = "plic" /\ mie' = TRUE
        /\ UNCHANGED <<rvars, enable, priority, meie, table>>
    BY <1>6, OrderAfter DEF GlobalEnable, BootAt
  <2> QED
    BY <1>1, <1>5, <2>1, OrderSteps
       DEF BootInv, Unmasked, SlotInv, Steps, BeforeEnable, Closed, NoHandler
<1>7. CASE PlicInit
  <2>1. /\ boot = "plic" /\ boot' = "clear" /\ enable' = FALSE /\ priority' = 0
        /\ UNCHANGED <<rvars, csr, table>>
    BY <1>7, OrderAfter DEF PlicInit, BootAt
  <2>2. IrqTypeOK'
    <3>1. claimed' = (trap' \in {"dispatch", "complete"}) /\ ~ (pending' /\ claimed')
      BY <1>1
    <3>2. enable' \in BOOLEAN /\ priority' \in 0 .. 7 /\ boot' \in Steps
      <4>1. enable' \in BOOLEAN
        BY <2>1, Zenon
      <4>2. priority' \in 0 .. 7 /\ boot' \in Steps
        BY <2>1 DEF Steps, Closed
      <4> QED
        BY <4>1, <4>2
    <3>3. TypeOK' /\ UNCHANGED <<pending, csr, table, trap, boots>>
      BY <1>1, <1>5, <2>1 DEF SlotInv
    <3> QED
      BY <3>1, <3>2, <3>3, OrderSteps DEF csr
  <2>3. BootInv'
    BY <1>1, <1>5, <2>1 DEF BootInv, Unmasked, BeforeEnable, Closed, NoHandler, csr
  <2> QED
    BY <1>5, <2>1, <2>2, <2>3
<1>8. CASE ClearTable
  <2>1. /\ boot = "clear" /\ boot' = "unmask" /\ table' = "NULL"
        /\ UNCHANGED <<rvars, enable, priority, csr>>
    BY <1>8, OrderAfter DEF ClearTable, BootAt
  <2> QED
    BY <1>1, <1>5, <2>1, OrderSteps
       DEF BootInv, Unmasked, SlotInv, Steps, BeforeEnable, Closed, NoHandler, csr
<1>9. CASE Unmask
  <2>1. /\ boot = "unmask" /\ boot' = "buffer" /\ meie' = TRUE
        /\ UNCHANGED <<rvars, enable, priority, mie, table>>
    BY <1>9, OrderAfter DEF Unmask, BootAt
  <2> QED
    BY <1>1, <1>5, <2>1, OrderSteps
       DEF BootInv, Unmasked, SlotInv, Steps, BeforeEnable, Closed, NoHandler
<1>10. CASE SetHandler
  <2>1. /\ boot = "table" /\ boot' = "priority" /\ table' = "uart_isr"
        /\ UNCHANGED <<rvars, enable, priority, csr>>
    BY <1>10, OrderAfter DEF SetHandler, BootAt
  <2> QED
    BY <1>1, <1>5, <2>1, OrderSteps
       DEF BootInv, Unmasked, SlotInv, Steps, BeforeEnable, Closed, NoHandler, csr
<1>11. CASE SetPriority
  <2>1. /\ boot = "priority" /\ boot' = "source" /\ priority' = 1
        /\ UNCHANGED <<rvars, enable, csr, table>>
    BY <1>11, OrderAfter DEF SetPriority, BootAt
  <2> QED
    BY <1>1, <1>5, <2>1, OrderSteps
       DEF BootInv, Unmasked, SlotInv, Steps, BeforeEnable, Closed, NoHandler, csr
<1>12. CASE SetEnable
  <2>1. /\ boot = "source" /\ boot' = "ready" /\ enable' = TRUE
        /\ UNCHANGED <<rvars, priority, csr, table>>
    BY <1>12, OrderAfter DEF SetEnable, BootAt
  <2> QED
    BY <1>1, <1>5, <2>1, OrderSteps
       DEF BootInv, Unmasked, SlotInv, Steps, BeforeEnable, Closed, NoHandler, csr
<1> QED
  BY <1>2, <1>3, <1>4, <1>6, <1>7, <1>8, <1>9, <1>10, <1>11, <1>12 DEF Boot

LEMMA IrqStep ==
  ASSUME IrqInv, [IrqNext]_irqVars
  PROVE  IrqInv'
<1> USE DEF IrqInv
<1>1. CASE Shell
  <2>1. SlotInv'
    BY <1>1, SlotStep DEF Shell, Next
  <2>2. boot = "ready" /\ UNCHANGED <<plic, csr, table, trap, boot, boots>>
    BY <1>1 DEF Shell
  <2> QED
    BY <2>1, <2>2 DEF SlotInv, IrqTypeOK, BootInv, NoHandler, plic, csr
<1>2. CASE Panic
  <2>1. SlotInv' /\ pc' = "check"
    BY <1>2, SlotStep DEF Panic, rvars
  <2>2. boots' \in 0 .. REBOOTS /\ boots' # 0
    BY <1>2, RebootsAssumption DEF Panic, IrqTypeOK
  <2>3. /\ boot' = "zero" /\ mie' = FALSE /\ trap = "none"
        /\ UNCHANGED <<plic, meie, table, trap>>
    BY <1>2 DEF Panic
  <2>4. IrqTypeOK'
    BY <2>1, <2>2, <2>3, OrderSteps DEF SlotInv, IrqTypeOK, Steps, BeforeEnable, plic
  <2>5. BootInv'
    BY <2>1, <2>2, <2>3 DEF BootInv, Unmasked, BeforeEnable, Closed, NoHandler
  <2> QED
    BY <2>1, <2>4, <2>5
<1>3. CASE UNCHANGED irqVars
  <2>1. SlotInv'
    BY <1>3, SlotStep DEF irqVars
  <2> QED
    BY <1>3, <2>1 DEF irqVars, rvars, plic, csr, SlotInv, IrqTypeOK, BootInv
<1> QED
  BY <1>1, <1>2, <1>3, TrapPreserves, BootPreserves DEF IrqNext

LEMMA IrqInductive == IrqSpec => []IrqInv
<1>1. IrqInv /\ [IrqNext]_irqVars => IrqInv'
  BY IrqStep
<1> QED
  BY <1>1, IrqStart, PTL DEF IrqSpec

-----------------------------------------------------------------------------

\* A source is claimed exactly while its trap lasts, through any number of
\* reboots that leave the PLIC as it was.
THEOREM IrqTypeCorrect == IrqSpec => []IrqTypeOK
<1>1. IrqInv => IrqTypeOK
  BY DEF IrqInv
<1> QED
  BY <1>1, IrqInductive, PTL

\* What cbuf_pop has checked stays true with the real interrupts as well, and no
\* boot begins in the middle of a pop.
THEOREM IrqSlotStable == IrqSpec => []SlotStable
<1>1. IrqInv => SlotStable
  BY DEF IrqInv, SlotInv
<1> QED
  BY <1>1, IrqInductive, PTL

\* No interrupt is dispatched before its handler is in the table, except in a
\* reboot that has not reached hal_plic_init().
THEOREM HandlerReadyHolds == IrqSpec => []HandlerReady
<1>1. IrqInv => HandlerReady
  BY DEF IrqInv, BootInv, HandlerReady
<1> QED
  BY <1>1, IrqInductive, PTL

\* The safety half of DeliversOrStorms: once a boot has ended, through any number of
\* reboots, no waiting character is left without somebody to fetch it: a trap is
\* under way, or one is about to be taken, or the PLIC is free to forward the request,
\* and nothing between the UART and the hart is masked (hal_irq_register(),
\* hal_irq_init(), hal_plic_complete()).
Listening ==
  boot = "ready" /\ line # <<>> =>
    /\ trap # "none" \/ Interrupted \/ (~ pending /\ ~ claimed)
    /\ enable /\ priority = 1 /\ meie /\ mie /\ table = "uart_isr"

THEOREM ListeningHolds == IrqSpec => []Listening
<1>1. ASSUME IrqInv
      PROVE  Listening
  <2> SUFFICES ASSUME boot = "ready", line # <<>>
               PROVE  /\ trap # "none" \/ Interrupted \/ (~ pending /\ ~ claimed)
                      /\ enable /\ priority = 1 /\ meie /\ mie /\ table = "uart_isr"
    BY DEF Listening
  <2>1. enable /\ priority = 1 /\ meie /\ mie /\ table = "uart_isr"
    BY <1>1 DEF IrqInv, BootInv, Unmasked, BeforeEnable
  <2>2. ASSUME trap = "none"
        PROVE  ~ claimed
    BY <1>1, <2>2 DEF IrqInv, IrqTypeOK
  <2>3. pending /\ trap = "none" => Interrupted
    BY <2>1 DEF Interrupted, Raised
  <2> QED
    BY <2>1, <2>2, <2>3
<1> QED
  BY <1>1, IrqInductive, PTL

\* An interrupt that finds the system not yet up (trap_handler() in a reboot) comes
\* between hal_irq_global_enable() and hal_plic_init() of a boot that is not the first,
\* and finds no handler: there is no other such moment.
BootWindow ==
  Interrupted /\ boot # "ready" => boot = "plic" /\ boots > 0 /\ table = "NULL"

THEOREM BootWindowHolds == IrqSpec => []BootWindow
<1>1. ASSUME IrqInv, Interrupted, boot # "ready"
      PROVE  boot = "plic" /\ boots > 0 /\ table = "NULL"
  <2>1. boot \in Steps /\ boots \in Nat
    BY <1>1, OrderSteps, RebootsAssumption DEF IrqInv, IrqTypeOK
  <2>2. boot = "plic" /\ boots # 0
    BY <1>1, <2>1 DEF IrqInv, BootInv, Interrupted, Raised, Steps, BeforeEnable, Closed
  <2> QED
    BY <1>1, <2>1, <2>2 DEF IrqInv, BootInv, NoHandler
<1>2. IrqInv => BootWindow
  BY <1>1 DEF BootWindow
<1> QED
  BY <1>2, IrqInductive, PTL

\* cbuf_init() finds an empty buffer in every boot.
LEMMA InitFindsEmpty ==
  ASSUME IrqInv, BufferInit
  PROVE  UNCHANGED Promise!fvars
<1>1. head = tail /\ head' = tail' /\ line' = line /\ got' = got
  BY DEF BufferInit, BootAt, IrqInv, BootInv, NoHandler
<1>2. TypeOK /\ TypeOK'
  BY BufferBoot DEF IrqInv, SlotInv
<1>3. Waiting = 0 /\ Waiting' = 0
  <2>1. head \in Nat /\ tail \in Nat /\ head' \in Nat /\ tail' \in Nat
    BY <1>2, BufferSizeAssumption DEF TypeOK, Slots
  <2>2. Waiting = 0
    BY <1>1, <2>1 DEF Waiting
  <2>3. Waiting' = 0
    <3>1. head' = 0 /\ tail' = 0
      BY DEF BufferInit
    <3> QED
      BY <3>1 DEF Waiting
  <2> QED
    BY <2>2, <2>3
<1>4. Queued = <<>> /\ Queued' = <<>>
  BY <1>2, <1>3, QueuedShape, QueuedShapeAfter DEF QueuedForm
<1> QED
  BY <1>1, <1>4 DEF Promise!fvars

\* Between two flushes the keyboard is a FIFO, boots and interrupts included.
THEOREM NothingDiscardedHolds == IrqSpec => NothingDiscarded
<1>1. ASSUME IrqInv, [IrqNext]_irqVars
      PROVE  [ZeroBss \/ UartInit \/ Promise!Next]_(Promise!fvars)
  <2>1. CASE [Next]_rvars
    BY <1>1, <2>1, FifoStep DEF IrqInv
  <2>2. CASE BufferInit
    BY <1>1, <2>2, InitFindsEmpty
  <2>3. CASE KeyArrives \/ Gateway \/ Handle \/ Shell \/ Panic \/ UNCHANGED irqVars
    <3>1. [Next]_rvars
      BY <2>3 DEF KeyArrives, Gateway, Handle, Enter, Claim, Dispatch, Complete, Shell,
                  Panic, irqVars, Next
    <3> QED
      BY <2>1, <3>1
  <2>4. CASE Boot
    <3>1. ZeroBss \/ UartInit \/ BufferInit \/ UNCHANGED rvars
      BY <2>4 DEF Boot, GlobalEnable, PlicInit, ClearTable, Unmask, SetHandler,
                  SetPriority, SetEnable
    <3> QED
      BY <2>1, <2>2, <3>1
  <2> QED
    BY <1>1, <2>3, <2>4 DEF IrqNext
<1> QED
  BY <1>1, IrqInductive, PTL DEF IrqSpec, NothingDiscarded
=============================================================================

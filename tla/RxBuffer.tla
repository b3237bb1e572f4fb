------------------------------ MODULE RxBuffer ------------------------------
(***************************************************************************)
(* The keyboard path: uart_isr() pushes into the circular buffer rx_buffer *)
(* from inside an external-interrupt trap, the shell pops from it with     *)
(* interrupts enabled.  A push is one atomic step (interrupts are masked); *)
(* a pop is three, and an interrupt may fall between any two of them.      *)
(***************************************************************************)
EXTENDS Integers, Sequences

CONSTANTS
  BUFFER_SIZE,   \* slots of the buffer
  Chars, None, LineSize

ASSUME BufferSizeAssumption == BUFFER_SIZE \in Nat /\ BUFFER_SIZE >= 2
ASSUME LineSizeAssumption   == LineSize \in Nat \ {0}
ASSUME NoneAssumption       == None \notin Chars

VARIABLES
  line,   \* the receive FIFO of the UART
  data,   \* rx_buffer.data
  head,   \* rx_buffer.head, written by the ISR
  tail,   \* rx_buffer.tail, written by the shell
  pc,     \* where the shell is in cbuf_pop
  c,      \* the local *val of cbuf_pop
  got     \* the last character cbuf_pop returned

rvars == <<line, data, head, tail, pc, c, got>>

Slots == 0 .. BUFFER_SIZE - 1

\* cbuf_init(); the slots are zeroed with BSS.
Init ==
  /\ line = <<>>
  /\ data = [i \in Slots |-> None]
  /\ head = 0
  /\ tail = 0
  /\ pc = "check"
  /\ c = None
  /\ got = None

\* A character comes in on the line.
Arrive ==
  /\ Len(line) < LineSize
  /\ \E ch \in Chars : line' = Append(line, ch)
  /\ UNCHANGED <<data, head, tail, pc, c, got>>

Succ(i) == (i + 1) % BUFFER_SIZE

\* Every slot used, so that full looks like empty (mutant of Full).
FullNever == FALSE

\* One slot stays free.
Full == Succ(head) = tail

\* uart_isr(): reads one character; cbuf_push() drops it when the buffer is full.
UartIsr ==
  /\ line # <<>>
  /\ line' = Tail(line)
  /\ IF Full THEN UNCHANGED <<data, head>>
     ELSE /\ data' = [data EXCEPT ![head] = Head(line)]
          /\ head' = Succ(head)
  /\ UNCHANGED <<tail, pc, c, got>>

\* Empty with one character still in it (mutant of Empty).
EmptyButOne == head = tail \/ head = Succ(tail)

Empty == head = tail

\* cbuf_pop(): head == tail means empty, and the shell sleeps before it looks again.
PopCheck ==
  /\ pc = "check"
  /\ ~ Empty
  /\ pc' = "read"
  /\ UNCHANGED <<line, data, head, tail, c, got>>

PopRead ==
  /\ pc = "read"
  /\ c' = data[tail]
  /\ pc' = "advance"
  /\ UNCHANGED <<line, data, head, tail, got>>

PopAdvance ==
  /\ pc = "advance"
  /\ tail' = Succ(tail)
  /\ got' = c
  /\ pc' = "check"
  /\ UNCHANGED <<line, data, head, c>>

Pop == PopCheck \/ PopRead \/ PopAdvance

Next == Arrive \/ UartIsr \/ Pop

Spec == Init /\ [][Next]_rvars

-----------------------------------------------------------------------------

TypeOK ==
  /\ line \in Seq(Chars)
  /\ data \in [Slots -> Chars \cup {None}]
  /\ head \in Slots
  /\ tail \in Slots
  /\ pc \in {"check", "read", "advance"}
  /\ c \in Chars \cup {None}
  /\ got \in Chars \cup {None}

\* What the shell has seen stays true while it acts on it: no interrupt between
\* the three steps empties the buffer or overwrites the slot being popped.
SlotStable ==
  /\ pc \in {"read", "advance"} => head # tail
  /\ pc = "advance" => c = data[tail]

\* The characters between tail and head, oldest first.
Queued ==
  [i \in 1 .. (head - tail + BUFFER_SIZE) % BUFFER_SIZE |->
     data[(tail + i - 1) % BUFFER_SIZE]]

Promise == INSTANCE Fifo WITH Capacity <- BUFFER_SIZE - 1, queue <- Queued

\* No character is lost before BUFFER_SIZE - 1 wait, none is duplicated,
\* reordered or changed, whatever interrupts fall into a pop (Fifo).
KeyboardOrder == Promise!Init /\ [][Promise!Next]_(Promise!fvars)
=============================================================================

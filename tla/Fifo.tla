-------------------------------- MODULE Fifo --------------------------------
(***************************************************************************)
(* What the keyboard path promises: the characters the UART has received   *)
(* reach the shell one by one, in order and unchanged; one is lost only    *)
(* when Capacity characters already wait.                                  *)
(***************************************************************************)
EXTENDS Naturals, Sequences

CONSTANTS
  Chars,      \* the characters that may be typed
  None,       \* no character read yet
  LineSize,   \* how many characters the UART itself can hold
  Capacity    \* how many characters may wait for the shell

VARIABLES
  line,       \* received by the UART, not yet seen by the kernel
  queue,      \* waiting for the shell
  got         \* the last character handed to the shell

fvars == <<line, queue, got>>

Init == line = <<>> /\ queue = <<>> /\ got = None

Arrive == /\ Len(line) < LineSize
          /\ \E c \in Chars : line' = Append(line, c)
          /\ UNCHANGED <<queue, got>>

Accept == /\ line # <<>>
          /\ line' = Tail(line)
          /\ queue' = IF Len(queue) < Capacity THEN Append(queue, Head(line)) ELSE queue
          /\ UNCHANGED got

Take == /\ queue # <<>>
        /\ got' = Head(queue)
        /\ queue' = Tail(queue)
        /\ UNCHANGED line

Next == Arrive \/ Accept \/ Take

\* What has arrived is accepted and what was accepted is taken.
Fairness == WF_fvars(Accept) /\ WF_fvars(Take)

Spec == Init /\ [][Next]_fvars /\ Fairness
=============================================================================

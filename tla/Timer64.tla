------------------------------ MODULE Timer64 -------------------------------
(***************************************************************************)
(* The 64-bit timer of the CLINT, which a 32-bit CPU reads and programs    *)
(* one half at a time while it runs (hal_timer.c).  Every load and every   *)
(* store of the driver is a step; the clock ticks in between.              *)
(*                                                                         *)
(* A 64-bit value is a pair of halves, each below BASE (2^32).             *)
(***************************************************************************)
EXTENDS Integers

CONSTANTS
  BASE,     \* values of one half
  MAX_HI,   \* bound of the model: mtime never reaches this high half
  Deltas    \* the delays asked for

ASSUME BaseAssumption   == BASE \in Nat \ {0, 1} /\ MAX_HI \in 1 .. BASE - 2
ASSUME DeltasAssumption == Deltas \subseteq 1 .. BASE - 1

Halves == 0 .. BASE - 1
Values == [hi : Halves, lo : Halves]
V(h, l) == [hi |-> h, lo |-> l]

Leq(a, b) == a.hi < b.hi \/ (a.hi = b.hi /\ a.lo <= b.lo)

\* Without the carry (mutant of Plus).
PlusNoCarry(a, d) == V(a.hi, a.lo + d)

Plus(a, d) == IF a.lo + d < BASE THEN V(a.hi, a.lo + d)
                                 ELSE V(a.hi + 1, a.lo + d - BASE)

VARIABLES
  mtime,    \* CLINT_MTIME
  mtimecmp, \* CLINT_MTIMECMP
  pc,       \* the next access of the driver, or "out" of it
  hi, lo,   \* the halves read so far
  job,      \* what the reads are for: "irq", or the "start" or the "wait" of a delay
  delta,    \* the cycles of the call
  called,   \* mtime at the call
  start,    \* the local of hal_timer_delay_ms
  alarm     \* what the comparator was last asked to hold

local == <<job, delta, called, start>>
tvars == <<mtime, mtimecmp, pc, hi, lo, local, alarm>>

\* A restart of the program leaves the comparator as it was: any value.
Init ==
  /\ mtime = V(0, 0)
  /\ mtimecmp \in Values
  /\ pc = "out"
  /\ hi = 0 /\ lo = 0
  /\ job = "irq" /\ delta = 0
  /\ called = V(0, 0) /\ start = V(0, 0)
  /\ alarm = mtimecmp

\* The clock.
Clock ==
  /\ mtime.hi < MAX_HI
  /\ mtime' = Plus(mtime, 1)
  /\ UNCHANGED <<mtimecmp, pc, hi, lo, local, alarm>>

\* hal_timer_set_irq_delta(d), at boot and at every tick.
SetIrqDelta(d) ==
  /\ pc = "out"
  /\ pc' = "hi"
  /\ job' = "irq" /\ delta' = d
  /\ called' = mtime
  /\ UNCHANGED <<mtime, mtimecmp, hi, lo, start, alarm>>

\* hal_timer_delay_ms(), in the exception path, and hal_timer_delay_us(); d is
\* their time in cycles.
Delay(d) ==
  /\ pc = "out"
  /\ pc' = "hi"
  /\ job' = "start" /\ delta' = d
  /\ called' = mtime
  /\ UNCHANGED <<mtime, mtimecmp, hi, lo, start, alarm>>

LoadHi ==
  /\ pc = "hi"
  /\ hi' = mtime.hi
  /\ pc' = "lo"
  /\ UNCHANGED <<mtime, mtimecmp, lo, local, alarm>>

LoadLo ==
  /\ pc = "lo"
  /\ lo' = mtime.lo
  /\ pc' = "hi2"
  /\ UNCHANGED <<mtime, mtimecmp, hi, local, alarm>>

\* The high half is not compared (mutant of SameHi).
SameHiAssumed == TRUE

SameHi == hi = mtime.hi

\* The second load of the high half moved: start over.
ReadAgain ==
  /\ pc = "hi2" /\ ~ SameHi
  /\ pc' = "hi"
  /\ UNCHANGED <<mtime, mtimecmp, hi, lo, local, alarm>>

\* The read of hal_timer_set_irq_delta is done.
ReadForIrq ==
  /\ pc = "hi2" /\ SameHi /\ job = "irq"
  /\ pc' = "mask"
  /\ alarm' = Plus(V(hi, lo), delta)
  /\ UNCHANGED <<mtime, mtimecmp, hi, lo, local>>

\* The first read of a delay is done.
ReadStart ==
  /\ pc = "hi2" /\ SameHi /\ job = "start"
  /\ pc' = "hi"
  /\ job' = "wait" /\ start' = V(hi, lo)
  /\ UNCHANGED <<mtime, mtimecmp, hi, lo, delta, called, alarm>>

\* The end of the wait computed and compared in 32 bits (mutant of Elapsed).
DeadlineInLow == lo >= (start.lo + delta) % BASE

\* Has delta passed since start, at what was just read?
Elapsed == Leq(Plus(start, delta), V(hi, lo))

\* A read in the loop of a delay is done.
ReadWaiting ==
  /\ pc = "hi2" /\ SameHi /\ job = "wait"
  /\ pc' = IF Elapsed THEN "out" ELSE "hi"
  /\ UNCHANGED <<mtime, mtimecmp, hi, lo, local, alarm>>

\* The high half is not raised first (mutant of Masked).
MaskedNot == mtimecmp

Masked == [mtimecmp EXCEPT !.hi = BASE - 1]

StoreMask ==
  /\ pc = "mask"
  /\ mtimecmp' = Masked
  /\ pc' = "cmp_lo"
  /\ UNCHANGED <<mtime, hi, lo, local, alarm>>

StoreLo ==
  /\ pc = "cmp_lo"
  /\ mtimecmp' = [mtimecmp EXCEPT !.lo = alarm.lo]
  /\ pc' = "cmp_hi"
  /\ UNCHANGED <<mtime, hi, lo, local, alarm>>

Stored == [mtimecmp EXCEPT !.hi = alarm.hi]

StoreHi ==
  /\ pc = "cmp_hi"
  /\ mtimecmp' = Stored
  /\ pc' = "out"
  /\ UNCHANGED <<mtime, hi, lo, local, alarm>>

Next ==
  \/ Clock
  \/ \E d \in Deltas : SetIrqDelta(d) \/ Delay(d)
  \/ LoadHi \/ LoadLo \/ ReadAgain \/ ReadForIrq \/ ReadStart \/ ReadWaiting
  \/ StoreMask \/ StoreLo \/ StoreHi

Spec == Init /\ [][Next]_tvars

-----------------------------------------------------------------------------
(* Properties                                                              *)

\* The timer interrupt is a level: high while mtime has reached mtimecmp.
Pending == Leq(mtimecmp, mtime)

\* Every half fits in its register.
TypeOK ==
  /\ {mtime, mtimecmp, called, start, alarm} \subseteq Values
  /\ mtime.hi <= MAX_HI
  /\ pc \in {"out", "hi", "lo", "hi2", "mask", "cmp_lo", "cmp_hi"}
  /\ hi \in Halves /\ lo \in Halves
  /\ job \in {"irq", "start", "wait"}
  /\ delta \in Deltas \cup {0}

\* hal_timer_get_cycles returns a time between its call and its return, also
\* when the low half wraps around between its loads: the alarm it is used for
\* is neither in the past of the call nor more than delta ahead.
ReadInWindow ==
  pc \in {"mask", "cmp_lo", "cmp_hi"} =>
    /\ Leq(Plus(called, delta), alarm)
    /\ Leq(alarm, Plus(mtime, delta))

\* While the comparator is half written the interrupt does not fire, and
\* between two settings it is pending exactly from the alarm on.
FiresAtAlarm ==
  /\ pc = "cmp_lo" \/ pc = "cmp_hi" => ~ Pending
  /\ pc = "out" => (Pending <=> Leq(alarm, mtime))

\* A delay never returns early, wherever the low half wraps around: between the
\* loads of the first read, of a later one, or between the two.
DelayKept ==
  job = "wait" /\ pc = "out" => Leq(Plus(called, delta), mtime)
=============================================================================

---------------------------- MODULE Timer64Proofs ----------------------------
(***************************************************************************)
(* Proofs about Timer64, for every width of a half and every set of        *)
(* delays: what the driver reads is a time between its call and now, the   *)
(* comparator never fires while it is half written, and no delay returns   *)
(* early.                                                                  *)
(*                                                                         *)
(* TypeOK and the four properties are not inductive: they say nothing of a *)
(* read in progress.  IInv adds what is known of the halves read so far.   *)
(***************************************************************************)
EXTENDS Timer64, TLAPS

\* The clock has moved on since the call, and if it still has the high half
\* that was read, the low half belongs to the same time.
ReadSoFar ==
  /\ Leq(called, mtime)
  /\ pc \in {"lo", "hi2"} => hi <= mtime.hi
  /\ pc = "hi2" /\ hi = mtime.hi => Leq(called, V(hi, lo)) /\ lo <= mtime.lo

\* What was read first is not before the call.
StartRead == job = "wait" => Leq(called, start)

\* What the comparator holds at each store: the last alarm, or a high half
\* that the clock never reaches.
Comparator ==
  /\ pc \in {"out", "hi", "lo", "hi2"} => mtimecmp = alarm
  /\ pc \in {"cmp_lo", "cmp_hi"} => mtimecmp.hi = BASE - 1
  /\ pc = "cmp_hi" => mtimecmp.lo = alarm.lo

\* Only an interrupt is programmed, and only a loop of a delay waits.
Jobs == pc \in {"mask", "cmp_lo", "cmp_hi"} => job = "irq"

IInv ==
  /\ TypeOK
  /\ ReadSoFar /\ StartRead /\ Comparator /\ Jobs
  /\ ReadInWindow /\ DelayKept

-----------------------------------------------------------------------------
(* Times as pairs of halves                                                *)

LEMMA Numbers ==
  /\ BASE \in Nat /\ BASE >= 2
  /\ MAX_HI \in Nat /\ 1 <= MAX_HI /\ MAX_HI <= BASE - 2
  /\ \A d \in Deltas \cup {0} : d \in Nat /\ d < BASE
BY BaseAssumption, DeltasAssumption

LEMMA LeqReflexive ==
  ASSUME NEW a \in Values
  PROVE  Leq(a, a)
BY DEF Values, Halves, Leq

LEMMA LeqTransitive ==
  ASSUME NEW a \in Values, NEW b \in Values, NEW c \in Values,
         Leq(a, b), Leq(b, c)
  PROVE  Leq(a, c)
BY Numbers DEF Values, Halves, Leq

\* A sum carries into the high half, and never out of it: the clock stays two
\* below the last high half.
LEMMA PlusTyped ==
  ASSUME NEW a \in Values, a.hi <= MAX_HI, NEW d \in Nat, d < BASE
  PROVE  /\ Plus(a, d) \in Values
         /\ Plus(a, d).hi \in a.hi .. a.hi + 1
BY Numbers DEF Values, Halves, Plus, V

LEMMA PlusMonotone ==
  ASSUME NEW a \in Values, NEW b \in Values, NEW d \in Nat, d < BASE,
         Leq(a, b)
  PROVE  Leq(Plus(a, d), Plus(b, d))
BY Numbers DEF Values, Halves, Leq, Plus, V

LEMMA ClockMovesOn ==
  ASSUME NEW a \in Values, a.hi < MAX_HI
  PROVE  /\ Plus(a, 1) \in Values
         /\ Plus(a, 1).hi <= MAX_HI
         /\ Leq(a, Plus(a, 1))
BY Numbers DEF Values, Halves, Leq, Plus, V
-----------------------------------------------------------------------------
(* The inductive invariant                                                 *)

LEMMA InitSound == Init => IInv
<1> SUFFICES ASSUME Init
             PROVE  IInv
  OBVIOUS
<1>1. V(0, 0) \in Values
  BY Numbers DEF Values, Halves, V
<1>2. TypeOK
  BY <1>1, Numbers DEF Init, TypeOK, Halves, V
<1>3. Leq(called, mtime)
  BY <1>1, LeqReflexive DEF Init
<1> QED
  BY <1>2, <1>3
  DEF Init, IInv, ReadSoFar, StartRead, Comparator, Jobs, ReadInWindow, DelayKept

\* The value of a read that is accepted lies between the call and now.
LEMMA ReadIsInWindow ==
  ASSUME IInv, pc = "hi2", SameHi
  PROVE  /\ V(hi, lo) \in Values
         /\ V(hi, lo).hi <= MAX_HI
         /\ Leq(called, V(hi, lo))
         /\ Leq(V(hi, lo), mtime)
<1>1. V(hi, lo) \in Values /\ V(hi, lo).hi = hi /\ V(hi, lo).lo = lo
  BY DEF IInv, TypeOK, Values, V
<1> QED
  BY <1>1 DEF IInv, TypeOK, ReadSoFar, SameHi, Leq, Values, Halves

LEMMA CallBounded ==
  ASSUME IInv
  PROVE  called.hi <= MAX_HI
BY Numbers DEF IInv, ReadSoFar, TypeOK, Leq, Values, Halves

LEMMA ClockPreserves ==
  ASSUME IInv, Clock
  PROVE  IInv'
<1>1. /\ mtime' = Plus(mtime, 1)
      /\ UNCHANGED <<mtimecmp, pc, hi, lo, job, delta, called, start, alarm>>
  BY DEF Clock, local
<1>2. mtime \in Values /\ called \in Values /\ alarm \in Values
      /\ delta \in Nat /\ delta < BASE
  BY Numbers DEF IInv, TypeOK
<1>3. mtime' \in Values /\ mtime'.hi <= MAX_HI /\ Leq(mtime, mtime')
  BY <1>1, <1>2, ClockMovesOn DEF Clock
<1>4. TypeOK'
  BY <1>1, <1>3 DEF IInv, TypeOK
<1>5. Leq(called, mtime')
  BY <1>2, <1>3, LeqTransitive DEF IInv, ReadSoFar
<1>6. ReadSoFar'
  BY <1>1, <1>2, <1>3, <1>5
  DEF IInv, ReadSoFar, TypeOK, Leq, Values, Halves
<1>7. Leq(Plus(mtime, delta), Plus(mtime', delta))
  BY <1>2, <1>3, PlusMonotone
<1>8. ReadInWindow'
  <2>1. Plus(mtime, delta) \in Values
    BY <1>2, PlusTyped DEF IInv, TypeOK
  <2>2. Plus(mtime', delta) \in Values
    BY <1>2, <1>3, PlusTyped
  <2> QED
    BY <1>1, <1>2, <1>7, <2>1, <2>2, LeqTransitive DEF IInv, ReadInWindow
<1>9. DelayKept'
  <2>1. Plus(called, delta) \in Values
    BY <1>2, CallBounded, PlusTyped
  <2> QED
    BY <1>1, <1>2, <1>3, <2>1, LeqTransitive DEF IInv, DelayKept
<1> QED
  BY <1>1, <1>4, <1>6, <1>8, <1>9 DEF IInv, StartRead, Comparator, Jobs

LEMMA CallPreserves ==
  ASSUME IInv, NEW d \in Deltas, SetIrqDelta(d) \/ Delay(d)
  PROVE  IInv'
<1>1. /\ pc = "out" /\ pc' = "hi" /\ delta' = d /\ called' = mtime
      /\ job' \in {"irq", "start"}
      /\ UNCHANGED <<mtime, mtimecmp, hi, lo, start, alarm>>
  BY DEF SetIrqDelta, Delay
<1>2. TypeOK'
  BY <1>1 DEF IInv, TypeOK
<1>3. ReadSoFar'
  BY <1>1, LeqReflexive DEF IInv, TypeOK, ReadSoFar
<1> QED
  BY <1>1, <1>2, <1>3
  DEF IInv, StartRead, Comparator, Jobs, ReadInWindow, DelayKept

LEMMA LoadPreserves ==
  ASSUME IInv, LoadHi \/ LoadLo \/ ReadAgain
  PROVE  IInv'
<1>1. /\ pc \in {"hi", "lo", "hi2"} /\ pc' \in {"hi", "lo", "hi2"}
      /\ UNCHANGED <<mtime, mtimecmp, job, delta, called, start, alarm>>
      /\ hi' \in {hi, mtime.hi} /\ lo' \in {lo, mtime.lo}
  BY DEF LoadHi, LoadLo, ReadAgain, local
<1>2. TypeOK'
  BY <1>1 DEF IInv, TypeOK, Values
<1>3. ReadSoFar'
  <2>1. CASE LoadHi
    BY <1>1, <2>1 DEF IInv, TypeOK, ReadSoFar, LoadHi, Values, Halves
  <2>2. CASE LoadLo
    BY <1>1, <2>2 DEF IInv, TypeOK, ReadSoFar, LoadLo, Values, Halves, Leq, V
  <2>3. CASE ReadAgain
    BY <1>1, <2>3 DEF IInv, ReadSoFar, ReadAgain
  <2> QED
    BY <2>1, <2>2, <2>3
<1> QED
  BY <1>1, <1>2, <1>3
  DEF IInv, StartRead, Comparator, Jobs, ReadInWindow, DelayKept

LEMMA ReadForIrqPreserves ==
  ASSUME IInv, ReadForIrq
  PROVE  IInv'
<1>1. /\ pc = "hi2" /\ SameHi /\ job = "irq" /\ pc' = "mask"
      /\ alarm' = Plus(V(hi, lo), delta)
      /\ UNCHANGED <<mtime, mtimecmp, hi, lo, job, delta, called, start>>
  BY DEF ReadForIrq, local
<1>2. mtime \in Values /\ called \in Values /\ delta \in Nat /\ delta < BASE
  BY Numbers DEF IInv, TypeOK
<1>3. TypeOK'
  BY <1>1, <1>2, ReadIsInWindow, PlusTyped DEF IInv, TypeOK
<1>4. ReadInWindow'
  BY <1>1, <1>2, ReadIsInWindow, PlusMonotone DEF ReadInWindow
<1> QED
  BY <1>1, <1>3, <1>4
  DEF IInv, ReadSoFar, StartRead, Comparator, Jobs, DelayKept

LEMMA ReadStartPreserves ==
  ASSUME IInv, ReadStart
  PROVE  IInv'
<1>1. /\ pc = "hi2" /\ SameHi /\ job' = "wait" /\ pc' = "hi" /\ start' = V(hi, lo)
      /\ UNCHANGED <<mtime, mtimecmp, hi, lo, delta, called, alarm>>
  BY DEF ReadStart
<1>2. TypeOK'
  BY <1>1, ReadIsInWindow DEF IInv, TypeOK
<1> QED
  BY <1>1, <1>2, ReadIsInWindow
  DEF IInv, ReadSoFar, StartRead, Comparator, Jobs, ReadInWindow, DelayKept

LEMMA ReadWaitingPreserves ==
  ASSUME IInv, ReadWaiting
  PROVE  IInv'
<1>1. /\ pc = "hi2" /\ SameHi /\ job = "wait"
      /\ pc' = IF Elapsed THEN "out" ELSE "hi"
      /\ UNCHANGED <<mtime, mtimecmp, hi, lo, job, delta, called, start, alarm>>
  BY DEF ReadWaiting, local
<1>2. pc' \in {"out", "hi"}
  BY <1>1
<1>3. TypeOK'
  BY <1>1, <1>2 DEF IInv, TypeOK
<1>4. DelayKept'
  <2> SUFFICES ASSUME pc' = "out"
               PROVE  Leq(Plus(called, delta), mtime)
    BY <1>1 DEF DelayKept
  <2>1. Leq(Plus(start, delta), V(hi, lo))
    BY <1>1 DEF Elapsed
  <2>2. mtime \in Values /\ called \in Values /\ start \in Values
        /\ delta \in Nat /\ delta < BASE /\ Leq(called, start)
    BY <1>1, Numbers DEF IInv, TypeOK, StartRead
  <2>3. V(hi, lo) \in Values /\ Leq(V(hi, lo), mtime)
    BY <1>1, ReadIsInWindow
  <2>4. Leq(Plus(called, delta), Plus(start, delta))
    BY <2>2, PlusMonotone
  <2>5. start.hi <= MAX_HI
    <3>1. V(hi, lo).hi <= MAX_HI
      BY <1>1, ReadIsInWindow
    <3> QED
      BY <2>1, <2>2, <2>3, <3>1, Numbers DEF Plus, Leq, V, Values, Halves
  <2>6. Plus(called, delta) \in Values /\ Plus(start, delta) \in Values
    BY <2>2, <2>5, CallBounded, PlusTyped
  <2> QED
    BY <2>1, <2>2, <2>3, <2>4, <2>6, LeqTransitive
<1> QED
  BY <1>1, <1>2, <1>3, <1>4
  DEF IInv, ReadSoFar, StartRead, Comparator, Jobs, ReadInWindow

\* The three stores: mask, low half, high half.
LEMMA StorePreserves ==
  ASSUME IInv, StoreMask \/ StoreLo \/ StoreHi
  PROVE  IInv'
<1>1. /\ pc \in {"mask", "cmp_lo", "cmp_hi"} /\ pc' \in {"cmp_lo", "cmp_hi", "out"}
      /\ UNCHANGED <<mtime, hi, lo, job, delta, called, start, alarm>>
  BY DEF StoreMask, StoreLo, StoreHi, local
<1>2. mtimecmp' \in Values /\ Comparator'
  <2>1. CASE StoreMask
    BY <2>1, Numbers DEF StoreMask, Masked, IInv, TypeOK, Comparator, Values, Halves
  <2>2. CASE StoreLo
    BY <2>2 DEF StoreLo, IInv, TypeOK, Comparator, Values
  <2>3. CASE StoreHi
    BY <2>3 DEF StoreHi, Stored, IInv, TypeOK, Comparator, Values
  <2> QED
    BY <2>1, <2>2, <2>3
<1>3. TypeOK'
  BY <1>1, <1>2 DEF IInv, TypeOK
<1> QED
  BY <1>1, <1>2, <1>3
  DEF IInv, ReadSoFar, StartRead, Jobs, ReadInWindow, DelayKept

LEMMA StepSound == IInv /\ [Next]_tvars => IInv'
<1> SUFFICES ASSUME IInv, [Next]_tvars
             PROVE  IInv'
  OBVIOUS
<1>1. CASE UNCHANGED tvars
  BY <1>1 DEF tvars, local, IInv, TypeOK, ReadSoFar, StartRead, Comparator, Jobs,
              ReadInWindow, DelayKept
<1> QED
  BY <1>1, ClockPreserves, CallPreserves, LoadPreserves, ReadForIrqPreserves,
     ReadStartPreserves, ReadWaitingPreserves, StorePreserves DEF Next

LEMMA Inductive == Spec => []IInv
<1> QED
  BY InitSound, StepSound, PTL DEF Spec

-----------------------------------------------------------------------------
(* The theorems                                                            *)

\* Every half fits in its register: the alarm too, although it is a sum.
THEOREM TypeCorrect == Spec => []TypeOK
<1>1. IInv => TypeOK
  BY DEF IInv
<1> QED
  BY <1>1, Inductive, PTL

\* hal_timer_get_cycles returns a time between its call and its return, so the
\* alarm is not in the past of the call, nor further ahead than was asked for.
THEOREM AlarmInWindow == Spec => []ReadInWindow
<1>1. IInv => ReadInWindow
  BY DEF IInv
<1> QED
  BY <1>1, Inductive, PTL

\* The interrupt does not fire while the comparator is half written, and between
\* two settings it is pending exactly from the alarm on.
THEOREM InterruptOnTime == Spec => []FiresAtAlarm
<1>1. IInv => FiresAtAlarm
  BY Numbers DEF IInv, TypeOK, Comparator, FiresAtAlarm, Pending, Leq, Values, Halves
<1> QED
  BY <1>1, Inductive, PTL

\* hal_timer_delay_ms and hal_timer_delay_us never return early.
THEOREM DelaysKept == Spec => []DelayKept
<1>1. IInv => DelayKept
  BY DEF IInv
<1> QED
  BY <1>1, Inductive, PTL
=============================================================================

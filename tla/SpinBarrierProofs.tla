-------------------------- MODULE SpinBarrierProofs --------------------------
(***************************************************************************)
(* Proofs about SpinBarrier for every finite, nonempty set of CPUs: its    *)
(* inductive invariant, and that it implements AbstractBarrier.            *)
(***************************************************************************)
EXTENDS SpinBarrier, FiniteSetTheorems, TLAPS

\* There is a CPU at the barrier.
LEMMA MaxprocPositive == maxproc \in Nat /\ maxproc > 0
  BY CpuAssumption, FS_CardinalityType, FS_EmptySet DEF maxproc

\* The count of pending CPUs is a number; it is 0 only when nobody is
\* pending and maxproc only when everybody is.
LEMMA PendingBounds ==
  /\ IsFiniteSet(Pending)
  /\ Cardinality(Pending) \in 0..maxproc
  /\ Cardinality(Pending) = 0 => Pending = {}
  /\ Cardinality(Pending) = maxproc => Pending = CPU
  <1>1. Pending \subseteq CPU
    BY DEF Pending
  <1>2. /\ IsFiniteSet(Pending)
        /\ Cardinality(Pending) <= Cardinality(CPU)
        /\ Cardinality(Pending) = Cardinality(CPU) => Pending = CPU
    BY <1>1, CpuAssumption, FS_Subset
  <1>3. Cardinality(Pending) \in Nat
    BY <1>2, FS_CardinalityType
  <1>4. Cardinality(Pending) = 0 => Pending = {}
    BY <1>2, FS_EmptySet
  <1> QED
    BY <1>2, <1>3, <1>4, MaxprocPositive DEF maxproc

\* A CPU that enters the pending set adds one to its size.
LEMMA PendingGrows ==
  ASSUME NEW c \in CPU, c \notin Pending, Pending' = Pending \cup {c}
  PROVE  Cardinality(Pending') = Cardinality(Pending) + 1
  BY PendingBounds, FS_AddElement

\* A CPU that leaves the pending set takes one from its size.
LEMMA PendingShrinks ==
  ASSUME NEW c \in CPU, c \in Pending, Pending' = Pending \ {c}
  PROVE  Cardinality(Pending') = Cardinality(Pending) - 1
  BY PendingBounds, FS_RemoveElement

\* count is 0 only when every CPU is pending and maxproc only when none is.
LEMMA CountExtremes ==
  ASSUME CountInv
  PROVE  /\ count = 0 => \A d \in CPU : d \in Pending
         /\ count = maxproc => \A d \in CPU : d \notin Pending
  BY PendingBounds, MaxprocPositive DEF CountInv

\* Initially nobody is at the barrier.
LEMMA InitIInv == Init => IInv
  <1> SUFFICES ASSUME Init PROVE IInv
    OBVIOUS
  <1>1. Pending = {}
    BY DEF Init, Pending
  <1>2. Cardinality(Pending) = 0
    BY <1>1, FS_EmptySet
  <1>3. TypeOK
    BY MaxprocPositive DEF Init, TypeOK, Pcs
  <1>4. LockInv
    BY DEF Init, LockInv, Critical
  <1>5. CountInv
    BY <1>2, MaxprocPositive DEF Init, CountInv
  <1>6. GateInv
    BY DEF Init, GateInv
  <1> QED
    BY <1>3, <1>4, <1>5, <1>6 DEF IInv

\* No step of a CPU leaves the invariant.
LEMMA StepIInv ==
  ASSUME IInv, NEW c \in CPU, Step(c)
  PROVE  IInv'
  <1> USE DEF Goto, SpinWait, SpinLock, SpinUnlock
  <1>0. TypeOK /\ LockInv /\ CountInv /\ GateInv
    BY DEF IInv
  <1>1. CASE Call(c)
    <2>1. Pending' = Pending
      BY <1>0, <1>1 DEF Call, Pending, TypeOK
    <2>2. CountInv'
      BY <2>1, <1>0, <1>1, PendingBounds, MaxprocPositive DEF Call, CountInv, TypeOK, maxproc
    <2>3. TypeOK'
      BY <2>1, <1>0, <1>1, PendingBounds, MaxprocPositive DEF Call, CountInv, TypeOK, Pcs, Pending
    <2>4. LockInv'
      BY <1>0, <1>1 DEF Call, LockInv, TypeOK, Critical
    <2>5. GateInv'
      BY <1>0, <1>1 DEF Call, GateInv, LockInv, TypeOK, Critical
    <2> QED
      BY <2>2, <2>3, <2>4, <2>5 DEF IInv
  <1>2. CASE PassSt1(c)
    <2>1. Pending' = Pending
      BY <1>0, <1>2 DEF PassSt1, Pending, TypeOK
    <2>2. CountInv'
      BY <2>1, <1>0, <1>2, PendingBounds, MaxprocPositive DEF PassSt1, CountInv, TypeOK, maxproc
    <2>3. TypeOK'
      BY <2>1, <1>0, <1>2, PendingBounds, MaxprocPositive DEF PassSt1, CountInv, TypeOK, Pcs, Pending
    <2>4. LockInv'
      BY <1>0, <1>2 DEF PassSt1, LockInv, TypeOK, Critical
    <2>5. GateInv'
      BY <1>0, <1>2 DEF PassSt1, GateInv, LockInv, TypeOK, Critical
    <2> QED
      BY <2>2, <2>3, <2>4, <2>5 DEF IInv
  <1>3. CASE LockIn(c)
    <2>1. Pending' = Pending
      BY <1>0, <1>3 DEF LockIn, Pending, TypeOK
    <2>2. CountInv'
      BY <2>1, <1>0, <1>3, PendingBounds, MaxprocPositive DEF LockIn, CountInv, TypeOK, maxproc
    <2>3. TypeOK'
      BY <2>1, <1>0, <1>3, PendingBounds, MaxprocPositive DEF LockIn, CountInv, TypeOK, Pcs, Pending
    <2>4. LockInv'
      BY <1>0, <1>3 DEF LockIn, LockInv, TypeOK, Critical
    <2>5. GateInv'
      BY <1>0, <1>3 DEF LockIn, GateInv, LockInv, TypeOK, Critical
    <2> QED
      BY <2>2, <2>3, <2>4, <2>5 DEF IInv
  <1>4. CASE Decrement(c)
    <2>1. Cardinality(Pending') = Cardinality(Pending) + 1
      <3>1. c \notin Pending /\ Pending' = Pending \cup {c}
        BY <1>0, <1>4 DEF Decrement, Pending, TypeOK
      <3> QED
        BY <3>1, PendingGrows
    <2>2. CountInv'
      BY <2>1, <1>0, <1>4, PendingBounds, MaxprocPositive DEF Decrement, CountInv, TypeOK, maxproc
    <2>3. TypeOK'
      BY <2>1, <1>0, <1>4, PendingBounds, MaxprocPositive DEF Decrement, CountInv, TypeOK, Pcs, Pending
    <2>4. LockInv'
      BY <1>0, <1>4 DEF Decrement, LockInv, TypeOK, Critical
    <2>5. GateInv'
      BY <1>0, <1>4 DEF Decrement, GateInv, LockInv, TypeOK, Critical
    <2> QED
      BY <2>2, <2>3, <2>4, <2>5 DEF IInv
  <1>5. CASE CloseSt1(c)
    <2>1. Pending' = Pending
      BY <1>0, <1>5 DEF CloseSt1, Pending, TypeOK
    <2>2. CountInv'
      BY <2>1, <1>0, <1>5, PendingBounds, MaxprocPositive DEF CloseSt1, CountInv, TypeOK, maxproc
    <2>3. TypeOK'
      BY <2>1, <1>0, <1>5, PendingBounds, MaxprocPositive DEF CloseSt1, CountInv, TypeOK, Pcs, Pending
    <2>4. LockInv'
      BY <1>0, <1>5 DEF CloseSt1, LockInv, TypeOK, Critical
    <2>5. GateInv'
      BY <1>0, <1>5, CountExtremes
         DEF CloseSt1, GateInv, LockInv, TypeOK, Critical, Pending
    <2> QED
      BY <2>2, <2>3, <2>4, <2>5 DEF IInv
  <1>6. CASE OpenSt2(c)
    <2>1. Pending' = Pending
      BY <1>0, <1>6 DEF OpenSt2, Pending, TypeOK
    <2>2. CountInv'
      BY <2>1, <1>0, <1>6, PendingBounds, MaxprocPositive DEF OpenSt2, CountInv, TypeOK, maxproc
    <2>3. TypeOK'
      BY <2>1, <1>0, <1>6, PendingBounds, MaxprocPositive DEF OpenSt2, CountInv, TypeOK, Pcs, Pending
    <2>4. LockInv'
      BY <1>0, <1>6 DEF OpenSt2, LockInv, TypeOK, Critical
    <2>5. GateInv'
      BY <1>0, <1>6 DEF OpenSt2, GateInv, LockInv, TypeOK, Critical
    <2> QED
      BY <2>2, <2>3, <2>4, <2>5 DEF IInv
  <1>7. CASE SelfInc(c)
    <2>1. Cardinality(Pending') = Cardinality(Pending) - 1
      <3>1. c \in Pending /\ Pending' = Pending \ {c}
        BY <1>0, <1>7 DEF SelfInc, Pending, TypeOK
      <3> QED
        BY <3>1, PendingShrinks
    <2>2. CountInv'
      BY <2>1, <1>0, <1>7, PendingBounds, MaxprocPositive DEF SelfInc, CountInv, TypeOK, maxproc
    <2>3. TypeOK'
      BY <2>1, <1>0, <1>7, PendingBounds, MaxprocPositive DEF SelfInc, CountInv, TypeOK, Pcs, Pending
    <2>4. LockInv'
      BY <1>0, <1>7 DEF SelfInc, LockInv, TypeOK, Critical
    <2>5. GateInv'
      BY <1>0, <1>7 DEF SelfInc, GateInv, LockInv, TypeOK, Critical
    <2> QED
      BY <2>2, <2>3, <2>4, <2>5 DEF IInv
  <1>8. CASE UnlockLast(c)
    <2>1. Pending' = Pending
      BY <1>0, <1>8 DEF UnlockLast, Pending, TypeOK
    <2>2. CountInv'
      BY <2>1, <1>0, <1>8, PendingBounds, MaxprocPositive DEF UnlockLast, CountInv, TypeOK, maxproc
    <2>3. TypeOK'
      BY <2>1, <1>0, <1>8, PendingBounds, MaxprocPositive DEF UnlockLast, CountInv, TypeOK, Pcs, Pending
    <2>4. LockInv'
      BY <1>0, <1>8 DEF UnlockLast, LockInv, TypeOK, Critical
    <2>5. GateInv'
      BY <1>0, <1>8 DEF UnlockLast, GateInv, LockInv, TypeOK, Critical
    <2> QED
      BY <2>2, <2>3, <2>4, <2>5 DEF IInv
  <1>9. CASE UnlockIn(c)
    <2>1. Pending' = Pending
      BY <1>0, <1>9 DEF UnlockIn, Pending, TypeOK
    <2>2. CountInv'
      BY <2>1, <1>0, <1>9, PendingBounds, MaxprocPositive DEF UnlockIn, CountInv, TypeOK, maxproc
    <2>3. TypeOK'
      BY <2>1, <1>0, <1>9, PendingBounds, MaxprocPositive DEF UnlockIn, CountInv, TypeOK, Pcs, Pending
    <2>4. LockInv'
      BY <1>0, <1>9 DEF UnlockIn, LockInv, TypeOK, Critical
    <2>5. GateInv'
      BY <1>0, <1>9 DEF UnlockIn, GateInv, LockInv, TypeOK, Critical
    <2> QED
      BY <2>2, <2>3, <2>4, <2>5 DEF IInv
  <1>10. CASE PassSt2(c)
    <2>1. Pending' = Pending
      BY <1>0, <1>10 DEF PassSt2, Pending, TypeOK
    <2>2. CountInv'
      BY <2>1, <1>0, <1>10, PendingBounds, MaxprocPositive DEF PassSt2, CountInv, TypeOK, maxproc
    <2>3. TypeOK'
      BY <2>1, <1>0, <1>10, PendingBounds, MaxprocPositive DEF PassSt2, CountInv, TypeOK, Pcs, Pending
    <2>4. LockInv'
      BY <1>0, <1>10 DEF PassSt2, LockInv, TypeOK, Critical
    <2>5. GateInv'
      BY <1>0, <1>10, CountExtremes
         DEF PassSt2, GateInv, LockInv, TypeOK, Critical, Pending
    <2> QED
      BY <2>2, <2>3, <2>4, <2>5 DEF IInv
  <1>11. CASE LockOut(c)
    <2>1. Pending' = Pending
      BY <1>0, <1>11 DEF LockOut, Pending, TypeOK
    <2>2. CountInv'
      BY <2>1, <1>0, <1>11, PendingBounds, MaxprocPositive DEF LockOut, CountInv, TypeOK, maxproc
    <2>3. TypeOK'
      BY <2>1, <1>0, <1>11, PendingBounds, MaxprocPositive DEF LockOut, CountInv, TypeOK, Pcs, Pending
    <2>4. LockInv'
      BY <1>0, <1>11 DEF LockOut, LockInv, TypeOK, Critical
    <2>5. GateInv'
      BY <1>0, <1>11 DEF LockOut, GateInv, LockInv, TypeOK, Critical
    <2> QED
      BY <2>2, <2>3, <2>4, <2>5 DEF IInv
  <1>12. CASE Increment(c)
    <2>1. Cardinality(Pending') = Cardinality(Pending) - 1
      <3>1. c \in Pending /\ Pending' = Pending \ {c}
        BY <1>0, <1>12 DEF Increment, Pending, TypeOK
      <3> QED
        BY <3>1, PendingShrinks
    <2>2. CountInv'
      BY <2>1, <1>0, <1>12, PendingBounds, MaxprocPositive DEF Increment, CountInv, TypeOK, maxproc
    <2>3. TypeOK'
      BY <2>1, <1>0, <1>12, PendingBounds, MaxprocPositive DEF Increment, CountInv, TypeOK, Pcs, Pending
    <2>4. LockInv'
      BY <1>0, <1>12 DEF Increment, LockInv, TypeOK, Critical
    <2>5. GateInv'
      BY <1>0, <1>12 DEF Increment, GateInv, LockInv, TypeOK, Critical
    <2> QED
      BY <2>2, <2>3, <2>4, <2>5 DEF IInv
  <1>13. CASE OpenSt1(c)
    <2>1. Pending' = Pending
      BY <1>0, <1>13 DEF OpenSt1, Pending, TypeOK
    <2>2. CountInv'
      BY <2>1, <1>0, <1>13, PendingBounds, MaxprocPositive DEF OpenSt1, CountInv, TypeOK, maxproc
    <2>3. TypeOK'
      BY <2>1, <1>0, <1>13, PendingBounds, MaxprocPositive DEF OpenSt1, CountInv, TypeOK, Pcs, Pending
    <2>4. LockInv'
      BY <1>0, <1>13 DEF OpenSt1, LockInv, TypeOK, Critical
    <2>5. GateInv'
      BY <1>0, <1>13, CountExtremes
         DEF OpenSt1, GateInv, LockInv, TypeOK, Critical, Pending
    <2> QED
      BY <2>2, <2>3, <2>4, <2>5 DEF IInv
  <1>14. CASE CloseSt2(c)
    <2>1. Pending' = Pending
      BY <1>0, <1>14 DEF CloseSt2, Pending, TypeOK
    <2>2. CountInv'
      BY <2>1, <1>0, <1>14, PendingBounds, MaxprocPositive DEF CloseSt2, CountInv, TypeOK, maxproc
    <2>3. TypeOK'
      BY <2>1, <1>0, <1>14, PendingBounds, MaxprocPositive DEF CloseSt2, CountInv, TypeOK, Pcs, Pending
    <2>4. LockInv'
      BY <1>0, <1>14 DEF CloseSt2, LockInv, TypeOK, Critical
    <2>5. GateInv'
      BY <1>0, <1>14 DEF CloseSt2, GateInv, LockInv, TypeOK, Critical
    <2> QED
      BY <2>2, <2>3, <2>4, <2>5 DEF IInv
  <1>15. CASE UnlockOut(c)
    <2>1. Pending' = Pending
      BY <1>0, <1>15 DEF UnlockOut, Pending, TypeOK
    <2>2. CountInv'
      BY <2>1, <1>0, <1>15, PendingBounds, MaxprocPositive DEF UnlockOut, CountInv, TypeOK, maxproc
    <2>3. TypeOK'
      BY <2>1, <1>0, <1>15, PendingBounds, MaxprocPositive DEF UnlockOut, CountInv, TypeOK, Pcs, Pending
    <2>4. LockInv'
      BY <1>0, <1>15 DEF UnlockOut, LockInv, TypeOK, Critical
    <2>5. GateInv'
      BY <1>0, <1>15 DEF UnlockOut, GateInv, LockInv, TypeOK, Critical
    <2> QED
      BY <2>2, <2>3, <2>4, <2>5 DEF IInv
  <1> QED
    BY <1>1, <1>2, <1>3, <1>4, <1>5, <1>6, <1>7, <1>8, <1>9, <1>10, <1>11, <1>12, <1>13, <1>14, <1>15 DEF Step


\* IInv holds in every reachable state, for any number of CPUs: the count,
\* the lock and the two gates of barrier() always agree with where the CPUs
\* are in the code.
THEOREM Invariance == Spec => []IInv
  <1>1. IInv /\ [Next]_vars => IInv'
    <2> SUFFICES ASSUME IInv, [Next]_vars PROVE IInv'
      OBVIOUS
    <2>1. CASE Next
      BY <2>1, StepIInv DEF Next
    <2>2. CASE UNCHANGED vars
      BY <2>2 DEF vars, IInv, TypeOK, LockInv, CountInv, GateInv, Pending
    <2> QED
      BY <2>1, <2>2
  <1> QED
    BY InitIInv, <1>1, PTL DEF Spec

\* barr->count stays within 0 .. maxproc and every CPU within the code of
\* barrier().
THEOREM TypeCorrect == Spec => []TypeOK
  <1>1. IInv => TypeOK
    BY DEF IInv
  <1> QED
    BY Invariance, <1>1, PTL

\* At most one CPU is between spin_lock and spin_unlock of barr->lck, count
\* loses nobody and the gates are as the CPUs' places in barrier() call for.
THEOREM BarrierConsistent == Spec => []BarrierInv
  <1>1. IInv => BarrierInv
    BY DEF IInv, BarrierInv
  <1> QED
    BY Invariance, <1>1, PTL

\* Every step of barrier() maps to a step of the atomic barrier or to none.
LEMMA StepRefines ==
  ASSUME IInv, IInv', NEW c \in CPU, Step(c)
  PROVE  [Barrier!Next]_progress
  <1> USE DEF Goto, SpinWait, SpinLock, SpinUnlock
  <1> DEFINE at == progress
  <1>0. TypeOK /\ LockInv /\ CountInv /\ GateInv
    BY DEF IInv
  <1>1. CASE Call(c)
    <2>1. at' = at
      BY <1>0, <1>1 DEF Call, progress, Progress, TypeOK, GateInv, Pcs
    <2> QED
      BY <2>1
  <1>2. CASE PassSt1(c)
    <2>1. at' = at
      BY <1>0, <1>2 DEF PassSt1, progress, Progress, TypeOK, GateInv, Pcs
    <2> QED
      BY <2>1
  <1>3. CASE LockIn(c)
    <2>1. at' = at
      BY <1>0, <1>3 DEF LockIn, progress, Progress, TypeOK, GateInv, Pcs
    <2> QED
      BY <2>1
  <1>4. CASE Decrement(c)
    <2>1. at[c] = "running" /\ at' = [at EXCEPT ![c] = "waiting"]
      BY <1>0, <1>4 DEF Decrement, progress, Progress, TypeOK, GateInv
    <2>2. \A d \in CPU : at[d] # "released"
      BY <1>0, <1>4 DEF Decrement, progress, Progress, TypeOK, GateInv, LockInv, Critical, Pcs
    <2>3. Barrier!Arrive(c)
      BY <2>1, <2>2 DEF Barrier!Arrive, progress
    <2> QED
      BY <2>3 DEF Barrier!Next
  <1>5. CASE CloseSt1(c)
    <2>1. at' = at
      BY <1>0, <1>5 DEF CloseSt1, progress, Progress, TypeOK, GateInv, Pcs
    <2> QED
      BY <2>1
  <1>6. CASE OpenSt2(c)
    <2>1. \A d \in CPU : at[d] = "waiting"
      BY <1>0, <1>6, CountExtremes
         DEF OpenSt2, progress, Progress, TypeOK, GateInv, LockInv, Critical, Pending
    <2>2. at' = [d \in CPU |-> "released"]
      BY <1>0, <1>6, CountExtremes
         DEF OpenSt2, progress, Progress, TypeOK, GateInv, LockInv, Critical, Pending
    <2>3. Barrier!Release
      BY <2>1, <2>2 DEF Barrier!Release
    <2> QED
      BY <2>3 DEF Barrier!Next
  <1>7. CASE SelfInc(c)
    <2>1. at' = at
      BY <1>0, <1>7 DEF SelfInc, progress, Progress, TypeOK, GateInv, Pcs
    <2> QED
      BY <2>1
  <1>8. CASE UnlockLast(c)
    <2>1. at[c] = "released" /\ at' = [at EXCEPT ![c] = "running"]
      BY <1>0, <1>8 DEF UnlockLast, progress, Progress, TypeOK, GateInv
    <2>2. Barrier!Resume(c)
      BY <2>1 DEF Barrier!Resume
    <2> QED
      BY <2>2 DEF Barrier!Next
  <1>9. CASE UnlockIn(c)
    <2>1. at' = at
      BY <1>0, <1>9 DEF UnlockIn, progress, Progress, TypeOK, GateInv, Pcs
    <2> QED
      BY <2>1
  <1>10. CASE PassSt2(c)
    <2>1. at' = at
      BY <1>0, <1>10 DEF PassSt2, progress, Progress, TypeOK, GateInv, Pcs
    <2> QED
      BY <2>1
  <1>11. CASE LockOut(c)
    <2>1. at' = at
      BY <1>0, <1>11 DEF LockOut, progress, Progress, TypeOK, GateInv, Pcs
    <2> QED
      BY <2>1
  <1>12. CASE Increment(c)
    <2>1. at' = at
      BY <1>0, <1>12 DEF Increment, progress, Progress, TypeOK, GateInv, Pcs
    <2> QED
      BY <2>1
  <1>13. CASE OpenSt1(c)
    <2>1. at' = at
      BY <1>0, <1>13 DEF OpenSt1, progress, Progress, TypeOK, GateInv, Pcs
    <2> QED
      BY <2>1
  <1>14. CASE CloseSt2(c)
    <2>1. at' = at
      BY <1>0, <1>14, CountExtremes
         DEF CloseSt2, progress, Progress, TypeOK, GateInv, LockInv, Critical, Pending
    <2> QED
      BY <2>1
  <1>15. CASE UnlockOut(c)
    <2>1. at[c] = "released" /\ at' = [at EXCEPT ![c] = "running"]
      BY <1>0, <1>15 DEF UnlockOut, progress, Progress, TypeOK, GateInv
    <2>2. Barrier!Resume(c)
      BY <2>1 DEF Barrier!Resume
    <2> QED
      BY <2>2 DEF Barrier!Next
  <1> QED
    BY <1>1, <1>2, <1>3, <1>4, <1>5, <1>6, <1>7, <1>8, <1>9, <1>10, <1>11, <1>12, <1>13, <1>14, <1>15 DEF Step

\* barrier() implements the atomic barrier: for any number of CPUs, nobody
\* gets out before all have come in, and nobody comes in for the next round
\* before all have got out.
THEOREM Refinement == Spec => ImplementsBarrier
  <1>1. Init => Barrier!Init
    BY DEF Init, Barrier!Init, progress, Progress
  <1>2. IInv /\ IInv' /\ [Next]_vars
          => [Barrier!Next]_progress
    <2> SUFFICES ASSUME IInv, IInv', [Next]_vars
                 PROVE  [Barrier!Next]_progress
      OBVIOUS
    <2>1. CASE Next
      BY <2>1, StepRefines DEF Next
    <2>2. CASE UNCHANGED vars
      BY <2>2 DEF vars, progress, Progress
    <2> QED
      BY <2>1, <2>2
  <1> QED
    BY <1>1, <1>2, Invariance, PTL DEF Spec, ImplementsBarrier, Barrier!Spec

=============================================================================

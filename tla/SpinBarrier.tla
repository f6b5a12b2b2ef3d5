----------------------------- MODULE SpinBarrier -----------------------------
(***************************************************************************)
(* The reusable spinning barrier of memtest86/smp.c.  barrier() and        *)
(* s_barrier() are one algorithm on two sets of fields of struct barrier_s;*)
(* this module is the algorithm, one action per access to shared memory.   *)
(*                                                                         *)
(* A spinlock_t holds 1 when it is free (spin_lock) or open (spin_wait).   *)
(* Memory accesses are sequentially consistent.  The one reordering x86    *)
(* permits, a load that overtakes an older store of its own CPU, can only  *)
(* make a spin_wait read its gate before the unlock ahead of it is seen;   *)
(* the lock then still protects the gate, the load finds it closed and     *)
(* spin_wait reads again.                                                  *)
(***************************************************************************)
EXTENDS Integers, FiniteSets

CONSTANT CPU            \* the CPUs that call the barrier (maxproc of them)

ASSUME CpuAssumption == IsFiniteSet(CPU) /\ CPU # {}

VARIABLES
  count,                \* barr->count
  lck,                  \* barr->lck.slock
  st1,                  \* barr->st1.slock, the entry gate
  st2,                  \* barr->st2.slock, the exit gate
  pc                    \* pc[c]: the access CPU c makes next

vars == <<count, lck, st1, st2, pc>>

maxproc == Cardinality(CPU)

(***************************************************************************)
(* spin_wait, spin_lock and spin_unlock.                                   *)
(***************************************************************************)
SpinWait(gate) == gate = 1

SpinLock == lck = 1 /\ lck' = 0

SpinUnlock == lck' = 1

Goto(c, from, to) ==
  /\ pc[c] = from
  /\ pc' = [pc EXCEPT ![c] = to]

(***************************************************************************)
(* Mutants: the bugs this code could plausibly have, for the runs to catch.*)
(* The specification uses none of them.                                    *)
(***************************************************************************)

\* A caller that does not wait for the entry gate.
SkipSt1(c) ==
  /\ Goto(c, "waitSt1", "lockIn")
  /\ UNCHANGED <<count, lck, st1, st2>>

\* The last arrival resets count as barrier_init does.
ResetCount(c) ==
  /\ Goto(c, "selfInc", "unlockLast")
  /\ count' = maxproc
  /\ UNCHANGED <<lck, st1, st2>>

\* The last arrival does not count itself out.
NoSelfInc(c) ==
  /\ Goto(c, "selfInc", "unlockLast")
  /\ UNCHANGED <<count, lck, st1, st2>>

\* The way out does not take the lock.
LeaveUnlocked(c) ==
  /\ Goto(c, "lockOut", "inc")
  /\ UNCHANGED <<count, lck, st1, st2>>

(***************************************************************************)
(* barrier_init(max).                                                      *)
(***************************************************************************)
Init ==
  /\ count = maxproc
  /\ lck = 1
  /\ st1 = 1
  /\ st2 = 0
  /\ pc = [c \in CPU |-> "out"]

(***************************************************************************)
(* barrier().  A caller that is the only CPU returns at once: no state     *)
(* changes.                                                                *)
(***************************************************************************)
Call(c) ==
  /\ maxproc # 1
  /\ Goto(c, "out", "waitSt1")
  /\ UNCHANGED <<count, lck, st1, st2>>

PassSt1(c) ==
  /\ SpinWait(st1)
  /\ Goto(c, "waitSt1", "lockIn")
  /\ UNCHANGED <<count, lck, st1, st2>>

LockIn(c) ==
  /\ SpinLock
  /\ Goto(c, "lockIn", "dec")
  /\ UNCHANGED <<count, st1, st2>>

\* if (--barr->count == 0)
Decrement(c) ==
  /\ count' = count - 1
  /\ Goto(c, "dec", IF count' = 0 THEN "closeSt1" ELSE "unlockIn")
  /\ UNCHANGED <<lck, st1, st2>>

\* The last arrival: hold up any process re-entering, release the others,
\* count itself out.
CloseSt1(c) ==
  /\ Goto(c, "closeSt1", "openSt2")
  /\ st1' = 0
  /\ UNCHANGED <<count, lck, st2>>

OpenSt2(c) ==
  /\ Goto(c, "openSt2", "selfInc")
  /\ st2' = 1
  /\ UNCHANGED <<count, lck, st1>>

SelfInc(c) ==
  /\ Goto(c, "selfInc", "unlockLast")
  /\ count' = count + 1
  /\ UNCHANGED <<lck, st1, st2>>

UnlockLast(c) ==
  /\ Goto(c, "unlockLast", "out")
  /\ SpinUnlock
  /\ UNCHANGED <<count, st1, st2>>

\* Every other arrival waits for its peers.
UnlockIn(c) ==
  /\ Goto(c, "unlockIn", "waitSt2")
  /\ SpinUnlock
  /\ UNCHANGED <<count, st1, st2>>

PassSt2(c) ==
  /\ SpinWait(st2)
  /\ Goto(c, "waitSt2", "lockOut")
  /\ UNCHANGED <<count, lck, st1, st2>>

LockOut(c) ==
  /\ SpinLock
  /\ Goto(c, "lockOut", "inc")
  /\ UNCHANGED <<count, st1, st2>>

\* if (++barr->count == barr->maxproc)
Increment(c) ==
  /\ count' = count + 1
  /\ Goto(c, "inc", IF count' = maxproc THEN "openSt1" ELSE "unlockOut")
  /\ UNCHANGED <<lck, st1, st2>>

\* The last to leave opens the entry gate and closes the exit gate.
OpenSt1(c) ==
  /\ Goto(c, "openSt1", "closeSt2")
  /\ st1' = 1
  /\ UNCHANGED <<count, lck, st2>>

CloseSt2(c) ==
  /\ Goto(c, "closeSt2", "unlockOut")
  /\ st2' = 0
  /\ UNCHANGED <<count, lck, st1>>

UnlockOut(c) ==
  /\ Goto(c, "unlockOut", "out")
  /\ SpinUnlock
  /\ UNCHANGED <<count, st1, st2>>

Step(c) ==
  \/ Call(c) \/ PassSt1(c) \/ LockIn(c) \/ Decrement(c)
  \/ CloseSt1(c) \/ OpenSt2(c) \/ SelfInc(c) \/ UnlockLast(c)
  \/ UnlockIn(c) \/ PassSt2(c) \/ LockOut(c) \/ Increment(c)
  \/ OpenSt1(c) \/ CloseSt2(c) \/ UnlockOut(c)

Next == \E c \in CPU : Step(c)

Spec == Init /\ [][Next]_vars

(***************************************************************************)
(* Each CPU executes its own instructions and calls the barrier again and  *)
(* again (the test loop of main.c).  The spin lock is not fair, so only    *)
(* weak fairness is assumed: a CPU may lose the race for lck any number of *)
(* times.                                                                  *)
(***************************************************************************)
FairSpec == Spec /\ \A c \in CPU : WF_vars(Step(c))

-----------------------------------------------------------------------------
(***************************************************************************)
(* Invariants                                                              *)
(***************************************************************************)

Pcs == {"out", "waitSt1", "lockIn", "dec", "closeSt1", "openSt2", "selfInc",
        "unlockLast", "unlockIn", "waitSt2", "lockOut", "inc", "openSt1",
        "closeSt2", "unlockOut"}

\* The program counters between spin_lock and spin_unlock.
Critical == {"dec", "closeSt1", "openSt2", "selfInc", "unlockLast",
             "unlockIn", "inc", "openSt1", "closeSt2", "unlockOut"}

\* Counted in by --count and not yet counted out by ++count.
Pending == {c \in CPU : pc[c] \in {"closeSt1", "openSt2", "selfInc",
                                   "unlockIn", "waitSt2", "lockOut", "inc"}}

\* count never leaves 0 .. maxproc (barrier and s_barrier, smp.c).
TypeOK ==
  /\ count \in 0..maxproc
  /\ lck \in {0, 1}
  /\ st1 \in {0, 1}
  /\ st2 \in {0, 1}
  /\ pc \in [CPU -> Pcs]

\* lck is taken exactly while one CPU is between spin_lock and spin_unlock.
LockInv ==
  /\ \A c, d \in CPU : pc[c] \in Critical /\ pc[d] \in Critical => c = d
  /\ (lck = 0) <=> (\E c \in CPU : pc[c] \in Critical)

\* count is the number of CPUs that may still come in: it loses nobody,
\* whatever the order in which one round's CPUs leave while others return.
CountInv == count = maxproc - Cardinality(Pending)

\* Where a CPU can be under which setting of the two gates.  The gates are
\* both open only while the last leaver holds the lock, and both closed only
\* while the last arrival does: no CPU slips in or out in between.
GateInv ==
  /\ \A c \in CPU :
       /\ pc[c] = "lockIn" => st1 = 1
       /\ pc[c] \in {"dec", "closeSt1", "unlockIn"} => st1 = 1 /\ st2 = 0
       /\ pc[c] \in {"closeSt1", "openSt2"} => count = 0
       /\ pc[c] = "openSt2" => st1 = 0 /\ st2 = 0
       /\ pc[c] \in {"selfInc", "unlockLast", "lockOut", "inc", "openSt1"}
            => st1 = 0 /\ st2 = 1
       /\ pc[c] \in {"openSt1", "closeSt2"} => count = maxproc
       /\ pc[c] = "closeSt2" => st1 = 1 /\ st2 = 1
       /\ pc[c] = "unlockOut" => st1 # st2
  /\ st1 = 1 /\ st2 = 1 => \E c \in CPU : pc[c] = "closeSt2"
  /\ st1 = 0 /\ st2 = 0 => \E c \in CPU : pc[c] = "openSt2"

\* The inductive invariant.
IInv == TypeOK /\ LockInv /\ CountInv /\ GateInv

\* What barrier()'s lock, count and two gates say of where the CPUs are, at
\* every single access: one CPU holds the lock, count loses nobody although
\* the way in and the way out share it, and no CPU slips through a gate that
\* another one is about to turn.
BarrierInv == LockInv /\ CountInv /\ GateInv

-----------------------------------------------------------------------------
(***************************************************************************)
(* Refinement                                                              *)
(***************************************************************************)

\* A CPU arrives when it decrements count, and all waiters are released by
\* the one store that opens the exit gate, wherever they are by then.
Progress(c) ==
  CASE pc[c] \in {"out", "waitSt1", "lockIn", "dec"} -> "running"
    [] pc[c] \in {"closeSt1", "openSt2", "unlockIn", "waitSt2"} /\ st2 = 0
         -> "waiting"
    [] OTHER -> "released"

progress == [c \in CPU |-> Progress(c)]

Barrier == INSTANCE AbstractBarrier WITH at <- progress

\* Everything barrier() does is what an atomic barrier may do: nobody leaves
\* before all have arrived, nobody re-enters a round that is being left.
ImplementsBarrier == Barrier!Spec

\* A call of barrier() returns, although the lock is unfair.
EveryCallReturns == \A c \in CPU : pc[c] = "waitSt1" ~> pc[c] = "out"

=============================================================================

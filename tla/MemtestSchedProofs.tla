-------------------------- MODULE MemtestSchedProofs --------------------------
(***************************************************************************)
(* Proofs about MemtestSched, for every number of CPUs, every memory and   *)
(* every list of tests: as long as the windows do not get beyond the PAE   *)
(* limit, the CPUs agree on every branch, no test overwrites the program,  *)
(* and no page that can be tested is left out.                             *)
(***************************************************************************)
EXTENDS MemtestSched, FiniteSetTheorems, WellFoundedInduction, TLAPS

\* No window begins beyond the PAE limit.
BelowPaeLimit == Limit <= MAX_MEM

-----------------------------------------------------------------------------
(***************************************************************************)
(* Pages.                                                                  *)
(***************************************************************************)

\* Every nonempty set of numbers has a least element.
LEMMA LeastNumber ==
  ASSUME NEW S \in SUBSET Nat, S # {}
  PROVE  \E m \in S : \A k \in S : m <= k
<1>1. PICK m \in S : \A k \in S : ~(<<k, m>> \in OpToRel(<, Nat))
  BY NatLessThanWellFounded, WFMin
<1>2. \A k \in S : ~(k < m)
  BY <1>1 DEF OpToRel
<1> QED
  BY <1>2

\* The first page of a part of the memory.
LEMMA FirstPage ==
  ASSUME NEW S \in SUBSET Nat, S # {}
  PROVE  Min(S) \in S /\ \A p \in S : Min(S) <= p
<1>1. \E m \in S : \A k \in S : m <= k
  BY LeastNumber
<1> QED
  BY <1>1 DEF Min

\* The end of the memory is a page number beyond all pages.
LEMMA EndOfMemory == PmapEnd \in Nat /\ \A p \in Mem : p < PmapEnd
<1>1. PICK n \in Nat : \E f \in Surjection(1 .. n, Mem) : TRUE
  BY SchedAssumption, FS_NatSurjection DEF ExistsSurjection
<1>2. PICK f \in [1 .. n -> Mem] : \A p \in Mem : \E i \in 1 .. n : f[i] = p
  BY <1>1 DEF Surjection
<1> DEFINE Bounded(k) == \E b \in Nat : \A i \in 1 .. k : f[i] <= b
           Unbounded == {k \in 0 .. n : ~Bounded(k)}
<1>3. Bounded(n)
  <2> SUFFICES ASSUME ~Bounded(n) PROVE FALSE
    OBVIOUS
  <2> HIDE DEF Bounded
  <2>1. PICK k \in Unbounded : \A j \in Unbounded : k <= j
    <3>1. n \in Unbounded /\ Unbounded \in SUBSET Nat
      OBVIOUS
    <3> QED
      BY <3>1, LeastNumber
  <2>2. k # 0
    <3>1. \A i \in 1 .. 0 : f[i] <= 0
      OBVIOUS
    <3>2. Bounded(0)
      BY <3>1 DEF Bounded
    <3> QED
      BY <3>2
  <2>3. Bounded(k - 1)
    BY <2>1, <2>2
  <2>4. PICK b \in Nat : \A i \in 1 .. k - 1 : f[i] <= b
    BY <2>3 DEF Bounded
  <2>5. k \in 1 .. n /\ f[k] \in Nat /\ \A i \in 1 .. k - 1 : f[i] \in Nat
    <3>1. k \in 1 .. n
      BY <2>2
    <3>2. \A i \in 1 .. n : f[i] \in Nat
      BY <1>2, SchedAssumption
    <3> QED
      BY <3>1, <3>2
  <2>6. \A i \in 1 .. k : f[i] <= IF f[k] > b THEN f[k] ELSE b
    BY <2>4, <2>5
  <2>7. Bounded(k)
    BY <2>4, <2>5, <2>6 DEF Bounded
  <2> QED
    BY <2>7
<1>4. PICK b \in Nat : \A p \in Mem : p <= b
  BY <1>2, <1>3
<1> DEFINE Bounds == {most \in Nat : \A p \in Mem : p <= most}
<1>5. PICK m \in Bounds : \A k \in Bounds : m <= k
  <2>1. Bounds # {} /\ Bounds \in SUBSET Nat
    BY <1>4
  <2> QED
    BY <2>1, LeastNumber
<1>6. m \in Mem
  <2> SUFFICES ASSUME m \notin Mem PROVE FALSE
    OBVIOUS
  <2>1. PICK p \in Mem : TRUE
    BY SchedAssumption
  <2>2. m - 1 \in Bounds
    BY SchedAssumption
  <2> QED
    BY <1>5, <2>2
<1>7. \A x \in Mem : (\A y \in Mem : x >= y) => x = m
  BY <1>6
<1>8. \A y \in Mem : m >= y
  OBVIOUS
<1>9. Max(Mem) = m
  BY <1>7 DEF Max
<1> QED
  BY <1>9, SchedAssumption DEF PmapEnd

\* The program runs below the end of the first two windows.
LEMMA CodeBelow ==
  /\ CodePage["low"] = 0 /\ CodePage["high"] = Win1End
  /\ DOMAIN CodePage = {"low", "high"}
  /\ Win0Start \in Nat /\ Win1End \in Nat
BY SchedAssumption DEF CodePage

\* Where the CPUs go on after a barrier.
LEMMA Releases ==
  /\ DOMAIN AfterBarrier = {"barrier464", "barrier534", "barrier543", "barrier189", "barrier377"}
  /\ AfterBarrier["barrier464"] = "limit467" /\ AfterBarrier["barrier534"] = "barrier543"
  /\ AfterBarrier["barrier543"] = "selected546" /\ AfterBarrier["barrier189"] = "mutex194"
  /\ AfterBarrier["barrier377"] = "top441"
BY DEF AfterBarrier

-----------------------------------------------------------------------------
(***************************************************************************)
(* The invariant.                                                          *)
(***************************************************************************)
USE DEF winVars, testVars, cpuVars, globals, vars, Goto

\* Initially every CPU enters main, and nothing is set up.
LEMMA InitIInv ==
  ASSUME Init
  PROVE  IInv
<1>1. TypeOK
  <2>1. 0 \in CPU /\ 0 \in 0 .. PmapEnd + 2 * WIN_SZ /\ 0 \in 0 .. NumTests /\ -1 \in -1 .. NumTests
    BY SchedAssumption, EndOfMemory DEF CPU
  <2>2. [start |-> 0, end |-> 0] \in [start : Nat, end : Nat]
    OBVIOUS
  <2>3. 0 \in 0 .. BitfLast
    BY SchedAssumption
  <2> QED
    BY <2>1, <2>2, <2>3, CodeBelow DEF Init, TypeOK, Lines
<1>2. Together
  BY SchedAssumption, EndOfMemory, CodeBelow DEF Init, Together, CPU, Lines, Free,
     Testing, Skips, Reachable, Due, InHand, Limit
<1>3. SameCopy
  BY SchedAssumption, EndOfMemory, CodeBelow DEF Init, SameCopy, CPU, Lines, Free, Testing, Exit, House, Skips, Reachable, Due, InHand, Limit
<1>4. Decided
  BY SchedAssumption, EndOfMemory, CodeBelow DEF Init, Decided, CPU, Lines, Free, Testing, Exit, House, Skips, Reachable, Due, InHand, Limit
<1>5. MasterSelected
  BY SchedAssumption, EndOfMemory, CodeBelow DEF Init, MasterSelected, CPU, Lines, Free, Testing, Exit, House, Skips, Reachable, Due, InHand, Limit
<1>6. MasterReady
  BY SchedAssumption, EndOfMemory, CodeBelow DEF Init, MasterReady, CPU, Lines, Free, Testing, Exit, House, Skips, Reachable, Due, InHand, Limit
<1>7. WinNext
  BY SchedAssumption, EndOfMemory, CodeBelow DEF Init, WinNext, CPU, Lines, Free, Testing, Exit, House, Skips, Reachable, Due, InHand, Limit
<1>8. OutsideCode
  BY SchedAssumption, EndOfMemory, CodeBelow DEF Init, OutsideCode, CPU, Lines, Free, Testing, Exit, House, Skips, Reachable, Due, InHand, Limit
<1>9. SetupDue
  BY SchedAssumption, EndOfMemory, CodeBelow DEF Init, SetupDue, CPU, Lines, Free, Testing, Exit, House, Skips, Reachable, Due, InHand, Limit
<1>10. TestedSoFar
  BY SchedAssumption, EndOfMemory, CodeBelow DEF Init, TestedSoFar, CPU, Lines, Free, Testing, Exit, House, Skips, Reachable, Due, InHand, Limit
<1> QED
  BY <1>1, <1>2, <1>3, <1>4, <1>5, <1>6, <1>7, <1>8, <1>9, <1>10 DEF IInv

\* Between two barriers.
LEMMA FreeSteps ==
  ASSUME BelowPaeLimit, IInv, NEW c \in CPU, UNCHANGED mapLimit,
         TestSetup(c) \/ SetLtest(c) \/ SetIterations(c) \/ WhileWindows(c) \/ Selected(c) \/ Window0(c) \/ Window1(c) \/ BumpWindow(c) \/ WindowN(c) \/ WindowEnd(c) \/ Segments(c) \/ DoTest(c) \/ ResetNext(c) \/ ResetWindow(c) \/ NextFade(c) \/ NextCpu(c) \/ NextTest(c) \/ PassDone(c)
  PROVE  IInv'
<1> USE DEF BelowPaeLimit
<1>1. TypeOK /\ Together /\ SameCopy /\ Decided /\ MasterSelected /\ MasterReady /\ WinNext /\ OutsideCode /\ SetupDue /\ TestedSoFar
  BY DEF IInv
<1>2. CASE TestSetup(c)
  <2>1. \A d \in CPU : pc[d] \in Free
    BY <1>1, <1>2 DEF TestSetup, Together, Free, Testing, House, Deciding, Moving
  <2>2. TypeOK'
    BY <1>1, <1>2, <2>1, SchedAssumption, EndOfMemory DEF TestSetup, TypeOK, Together,
       Lines, CPU, Free, Testing, Exit, House
  <2>3. Together'
    BY <1>1, <1>2, <2>1 DEF TestSetup, TypeOK, Together, SameCopy, Decided,
       MasterSelected, MasterReady, WinNext, OutsideCode, SetupDue, TestedSoFar, Free,
       Testing, Exit, House
  <2>4. SameCopy'
    BY <1>1, <1>2, <2>1 DEF TestSetup, Together, SameCopy, Decided, MasterSelected,
       MasterReady, WinNext, OutsideCode, SetupDue, TestedSoFar, Free, Testing, Exit,
       House
  <2>5. Decided'
    BY <1>1, <1>2, <2>1 DEF TestSetup, TypeOK, Together, SameCopy, Decided,
       MasterSelected, MasterReady, WinNext, OutsideCode, SetupDue, TestedSoFar, Free,
       Testing, Exit, House
  <2>6. MasterSelected'
    BY <1>1, <1>2, <2>1 DEF TestSetup, Together, SameCopy, Decided, MasterSelected,
       MasterReady, WinNext, OutsideCode, SetupDue, TestedSoFar, Free, Testing, Exit,
       House
  <2>7. MasterReady'
    BY <1>1, <1>2, <2>1 DEF TestSetup, TypeOK, Together, SameCopy, Decided, MasterSelected, MasterReady, WinNext, OutsideCode, SetupDue, TestedSoFar, Free, Testing, Exit, House, Skips
  <2>8. WinNext'
    BY <1>1, <1>2, <2>1, SchedAssumption, EndOfMemory, CodeBelow DEF TestSetup, TypeOK,
       Together, SameCopy, Decided, MasterSelected, MasterReady, WinNext, OutsideCode,
       SetupDue, TestedSoFar, Free, Testing, Exit, House, Skips
  <2>9. OutsideCode'
    BY <1>1, <1>2, <2>1, SchedAssumption, CodeBelow DEF TestSetup, Together, SameCopy,
       Decided, MasterSelected, MasterReady, WinNext, OutsideCode, SetupDue,
       TestedSoFar, Free, Testing, Exit, House
  <2>10. SetupDue'
    BY <1>1, <1>2, <2>1, SchedAssumption DEF TestSetup, Together, SameCopy, Decided,
       MasterSelected, MasterReady, WinNext, OutsideCode, SetupDue, TestedSoFar, Free,
       Testing, Exit, House
  <2>11. TestedSoFar'
    BY <1>1, <1>2, <2>1, SchedAssumption, EndOfMemory, CodeBelow DEF TestSetup, TypeOK,
       Together, SameCopy, Decided, MasterSelected, MasterReady, WinNext, OutsideCode,
       SetupDue, TestedSoFar, Free, Testing, Exit, House, Reachable, Due, InHand, Pages
  <2> QED
    BY <2>2, <2>3, <2>4, <2>5, <2>6, <2>7, <2>8, <2>9, <2>10, <2>11 DEF IInv
<1>3. CASE SetLtest(c)
  <2>1. \A d \in CPU : pc[d] \in Free
    BY <1>1, <1>3 DEF SetLtest, Together, Free, Testing, House, Deciding, Moving
  <2>2. TypeOK'
    BY <1>1, <1>3, <2>1, SchedAssumption, EndOfMemory DEF SetLtest, TypeOK, Together,
       Lines, CPU, Free, Testing, Exit, House
  <2>3. Together'
    BY <1>1, <1>3, <2>1 DEF SetLtest, TypeOK, Together, SameCopy, Decided,
       MasterSelected, MasterReady, WinNext, OutsideCode, SetupDue, TestedSoFar, Free,
       Testing, Exit, House
  <2>4. SameCopy'
    BY <1>1, <1>3, <2>1 DEF SetLtest, Together, SameCopy, Decided, MasterSelected,
       MasterReady, WinNext, OutsideCode, SetupDue, TestedSoFar, Free, Testing, Exit,
       House
  <2>5. Decided'
    BY <1>1, <1>3, <2>1 DEF SetLtest, TypeOK, Together, SameCopy, Decided,
       MasterSelected, MasterReady, WinNext, OutsideCode, SetupDue, TestedSoFar, Free,
       Testing, Exit, House
  <2>6. MasterSelected'
    BY <1>1, <1>3, <2>1 DEF SetLtest, Together, SameCopy, Decided, MasterSelected,
       MasterReady, WinNext, OutsideCode, SetupDue, TestedSoFar, Free, Testing, Exit,
       House
  <2>7. MasterReady'
    BY <1>1, <1>3, <2>1 DEF SetLtest, TypeOK, Together, SameCopy, Decided, MasterSelected, MasterReady, WinNext, OutsideCode, SetupDue, TestedSoFar, Free, Testing, Exit, House, Skips
  <2>8. WinNext'
    BY <1>1, <1>3, <2>1, SchedAssumption, EndOfMemory, CodeBelow DEF SetLtest, TypeOK,
       Together, SameCopy, Decided, MasterSelected, MasterReady, WinNext, OutsideCode,
       SetupDue, TestedSoFar, Free, Testing, Exit, House, Skips
  <2>9. OutsideCode'
    BY <1>1, <1>3, <2>1, SchedAssumption, CodeBelow DEF SetLtest, Together, SameCopy,
       Decided, MasterSelected, MasterReady, WinNext, OutsideCode, SetupDue,
       TestedSoFar, Free, Testing, Exit, House
  <2>10. SetupDue'
    BY <1>1, <1>3, <2>1, SchedAssumption DEF SetLtest, TypeOK, Together, SameCopy, Decided, MasterSelected, MasterReady, WinNext, OutsideCode, SetupDue, TestedSoFar, Free, Testing, Exit, House
  <2>11. TestedSoFar'
    BY <1>1, <1>3, <2>1, SchedAssumption, EndOfMemory, CodeBelow DEF SetLtest, TypeOK,
       Together, SameCopy, Decided, MasterSelected, MasterReady, WinNext, OutsideCode,
       SetupDue, TestedSoFar, Free, Testing, Exit, House, Reachable, Due, InHand, Pages
  <2> QED
    BY <2>2, <2>3, <2>4, <2>5, <2>6, <2>7, <2>8, <2>9, <2>10, <2>11 DEF IInv
<1>4. CASE SetIterations(c)
  <2>1. \A d \in CPU : pc[d] \in Free
    BY <1>1, <1>4 DEF SetIterations, Together, Free, Testing, House, Deciding, Moving
  <2>2. TypeOK'
    BY <1>1, <1>4, <2>1, SchedAssumption, EndOfMemory DEF SetIterations, TypeOK,
       Together, Lines, CPU, Free, Testing, Exit, House
  <2>3. Together'
    BY <1>1, <1>4, <2>1 DEF SetIterations, TypeOK, Together, SameCopy, Decided,
       MasterSelected, MasterReady, WinNext, OutsideCode, SetupDue, TestedSoFar, Free,
       Testing, Exit, House
  <2>4. SameCopy'
    BY <1>1, <1>4, <2>1 DEF SetIterations, Together, SameCopy, Decided, MasterSelected,
       MasterReady, WinNext, OutsideCode, SetupDue, TestedSoFar, Free, Testing, Exit,
       House
  <2>5. Decided'
    BY <1>1, <1>4, <2>1 DEF SetIterations, TypeOK, Together, SameCopy, Decided,
       MasterSelected, MasterReady, WinNext, OutsideCode, SetupDue, TestedSoFar, Free,
       Testing, Exit, House
  <2>6. MasterSelected'
    BY <1>1, <1>4, <2>1 DEF SetIterations, Together, SameCopy, Decided, MasterSelected,
       MasterReady, WinNext, OutsideCode, SetupDue, TestedSoFar, Free, Testing, Exit,
       House
  <2>7. MasterReady'
    BY <1>1, <1>4, <2>1 DEF SetIterations, TypeOK, Together, SameCopy, Decided, MasterSelected, MasterReady, WinNext, OutsideCode, SetupDue, TestedSoFar, Free, Testing, Exit, House, Skips
  <2>8. WinNext'
    BY <1>1, <1>4, <2>1, SchedAssumption, EndOfMemory, CodeBelow DEF SetIterations,
       TypeOK, Together, SameCopy, Decided, MasterSelected, MasterReady, WinNext,
       OutsideCode, SetupDue, TestedSoFar, Free, Testing, Exit, House, Skips
  <2>9. OutsideCode'
    BY <1>1, <1>4, <2>1, SchedAssumption, CodeBelow DEF SetIterations, Together,
       SameCopy, Decided, MasterSelected, MasterReady, WinNext, OutsideCode, SetupDue,
       TestedSoFar, Free, Testing, Exit, House
  <2>10. SetupDue'
    BY <1>1, <1>4, <2>1, SchedAssumption DEF SetIterations, Together, SameCopy, Decided,
       MasterSelected, MasterReady, WinNext, OutsideCode, SetupDue, TestedSoFar, Free,
       Testing, Exit, House
  <2>11. TestedSoFar'
    BY <1>1, <1>4, <2>1, SchedAssumption, EndOfMemory, CodeBelow DEF SetIterations,
       TypeOK, Together, SameCopy, Decided, MasterSelected, MasterReady, WinNext,
       OutsideCode, SetupDue, TestedSoFar, Free, Testing, Exit, House, Reachable, Due,
       InHand, Pages
  <2> QED
    BY <2>2, <2>3, <2>4, <2>5, <2>6, <2>7, <2>8, <2>9, <2>10, <2>11 DEF IInv
<1>5. CASE WhileWindows(c)
  <2>1. \A d \in CPU : pc[d] \in Free
    BY <1>1, <1>5 DEF WhileWindows, Together, Free, Testing, House, Deciding, Moving
  <2>2. TypeOK'
    BY <1>1, <1>5, Releases, SchedAssumption DEF WhileWindows, TypeOK, Lines, Testing, CPU
  <2>3. Together'
    BY <1>1, <1>5, <2>1 DEF WhileWindows, TypeOK, Together, TestedSoFar, Free, Testing,
       Exit, House, Deciding, Moving
  <2>4. SameCopy'
    BY <1>1, <1>5, <2>1 DEF WhileWindows, Together, SameCopy, Decided, MasterSelected,
       MasterReady, WinNext, OutsideCode, SetupDue, TestedSoFar, Free, Testing, Exit,
       House
  <2>5. Decided'
    BY <1>1, <1>5, <2>1 DEF WhileWindows, TypeOK, Together, SameCopy, Decided,
       MasterSelected, MasterReady, WinNext, OutsideCode, SetupDue, TestedSoFar, Free,
       Testing, Exit, House
  <2>6. MasterSelected'
    BY <1>1, <1>5, <2>1 DEF WhileWindows, Together, SameCopy, Decided, MasterSelected,
       MasterReady, WinNext, OutsideCode, SetupDue, TestedSoFar, Free, Testing, Exit,
       House
  <2>7. MasterReady'
    <3>1. /\ pc'[c] = (IF win_next <= Limit THEN "barrier464" ELSE "exit613")
          /\ pc[c] = "while459" /\ \A d \in CPU : d # c => pc'[d] = pc[d]
          /\ win_next \in Int /\ Limit \in Int /\ mstr_cpu \in CPU
      BY <1>1, <1>5, SchedAssumption, EndOfMemory DEF WhileWindows, TypeOK, Limit
    <3>2. CASE win_next <= Limit
      BY <1>1, <1>5, <3>1, <3>2 DEF WhileWindows, MasterReady, Skips, Exit
    <3>3. CASE ~(win_next <= Limit)
      <4>1. pc[mstr_cpu] \notin {"selected546", "window558", "bump563"}
        BY <1>1, <3>1, <3>3 DEF WinNext
      <4>2. pc'[mstr_cpu] \notin {"selected546", "window558", "bump563"}
        BY <3>1, <4>1
      <4> QED
        BY <1>5, <4>2 DEF WhileWindows, MasterReady
    <3> QED
      BY <3>2, <3>3
  <2>8. WinNext'
    BY <1>1, <1>5, <2>1, SchedAssumption, EndOfMemory, CodeBelow DEF WhileWindows,
       TypeOK, SameCopy, Decided, MasterSelected, MasterReady, WinNext, OutsideCode,
       SetupDue, TestedSoFar, Free, Testing, Exit, House, Skips, Limit
  <2>9. OutsideCode'
    BY <1>1, <1>5, <2>1, SchedAssumption, CodeBelow DEF WhileWindows, Together,
       SameCopy, Decided, MasterSelected, MasterReady, WinNext, OutsideCode, SetupDue,
       TestedSoFar, Free, Testing, Exit, House
  <2>10. SetupDue'
    BY <1>1, <1>5, <2>1, SchedAssumption DEF WhileWindows, Together, SameCopy, Decided,
       MasterSelected, MasterReady, WinNext, OutsideCode, SetupDue, TestedSoFar, Free,
       Testing, Exit, House
  <2>11. TestedSoFar'
    BY <1>1, <1>5, <2>1, SchedAssumption, EndOfMemory, CodeBelow DEF WhileWindows,
       TypeOK, Together, SameCopy, Decided, MasterSelected, MasterReady, WinNext,
       OutsideCode, SetupDue, TestedSoFar, Free, Testing, Exit, House, Reachable, Due,
       InHand, Pages
  <2> QED
    BY <2>2, <2>3, <2>4, <2>5, <2>6, <2>7, <2>8, <2>9, <2>10, <2>11 DEF IInv
<1>6. CASE Selected(c)
  <2>1. \A d \in CPU : pc[d] \in Free
    BY <1>1, <1>6 DEF Selected, Together, Free, Testing, House, Deciding, Moving
  <2>2. TypeOK'
    BY <1>1, <1>6, <2>1, SchedAssumption, EndOfMemory DEF Selected, TypeOK, Together,
       Lines, CPU, Free, Testing, Exit, House
  <2>3. Together'
    BY <1>1, <1>6, <2>1 DEF Selected, TypeOK, Together, SameCopy, Decided,
       MasterSelected, MasterReady, WinNext, OutsideCode, SetupDue, TestedSoFar, Free,
       Testing, Exit, House
  <2>4. SameCopy'
    BY <1>1, <1>6, <2>1 DEF Selected, Together, SameCopy, Decided, MasterSelected,
       MasterReady, WinNext, OutsideCode, SetupDue, TestedSoFar, Free, Testing, Exit,
       House
  <2>5. Decided'
    BY <1>1, <1>6, <2>1 DEF Selected, TypeOK, Together, SameCopy, Decided,
       MasterSelected, MasterReady, WinNext, OutsideCode, SetupDue, TestedSoFar, Free,
       Testing, Exit, House
  <2>6. MasterSelected'
    BY <1>1, <1>6, <2>1 DEF Selected, Together, SameCopy, Decided, MasterSelected,
       MasterReady, WinNext, OutsideCode, SetupDue, TestedSoFar, Free, Testing, Exit,
       House
  <2>7. MasterReady'
    BY <1>1, <1>6, <2>1 DEF Selected, TypeOK, Together, SameCopy, Decided, MasterSelected, MasterReady, WinNext, OutsideCode, SetupDue, TestedSoFar, Free, Testing, Exit, House, Skips
  <2>8. WinNext'
    BY <1>1, <1>6, <2>1, SchedAssumption, EndOfMemory, CodeBelow DEF Selected, TypeOK,
       Together, SameCopy, Decided, MasterSelected, MasterReady, WinNext, OutsideCode,
       SetupDue, TestedSoFar, Free, Testing, Exit, House, Skips
  <2>9. OutsideCode'
    BY <1>1, <1>6, <2>1, SchedAssumption, CodeBelow DEF Selected, Together, SameCopy,
       Decided, MasterSelected, MasterReady, WinNext, OutsideCode, SetupDue,
       TestedSoFar, Free, Testing, Exit, House
  <2>10. SetupDue'
    BY <1>1, <1>6, <2>1, SchedAssumption DEF Selected, Together, SameCopy, Decided,
       MasterSelected, MasterReady, WinNext, OutsideCode, SetupDue, TestedSoFar, Free,
       Testing, Exit, House
  <2>11. TestedSoFar'
    BY <1>1, <1>6, <2>1, SchedAssumption, EndOfMemory, CodeBelow DEF Selected, TypeOK,
       Together, SameCopy, Decided, MasterSelected, MasterReady, WinNext, OutsideCode,
       SetupDue, TestedSoFar, Free, Testing, Exit, House, Reachable, Due, InHand, Pages
  <2> QED
    BY <2>2, <2>3, <2>4, <2>5, <2>6, <2>7, <2>8, <2>9, <2>10, <2>11 DEF IInv
<1>7. CASE Window0(c)
  <2>1. \A d \in CPU : pc[d] \in Free
    BY <1>1, <1>7 DEF Window0, Together, Free, Testing, House, Deciding, Moving
  <2>2. TypeOK'
    BY <1>1, <1>7, <2>1, SchedAssumption, EndOfMemory DEF Window0, TypeOK, Together,
       Lines, CPU, Free, Testing, Exit, House
  <2>3. Together'
    BY <1>1, <1>7, <2>1 DEF Window0, TypeOK, Together, SameCopy, Decided,
       MasterSelected, MasterReady, WinNext, OutsideCode, SetupDue, TestedSoFar, Free,
       Testing, Exit, House
  <2>4. SameCopy'
    BY <1>1, <1>7, <2>1 DEF Window0, Together, SameCopy, Decided, MasterSelected,
       MasterReady, WinNext, OutsideCode, SetupDue, TestedSoFar, Free, Testing, Exit,
       House
  <2>5. Decided'
    BY <1>1, <1>7, <2>1 DEF Window0, TypeOK, Together, SameCopy, Decided,
       MasterSelected, MasterReady, WinNext, OutsideCode, SetupDue, TestedSoFar, Free,
       Testing, Exit, House
  <2>6. MasterSelected'
    BY <1>1, <1>7, <2>1 DEF Window0, Together, SameCopy, Decided, MasterSelected,
       MasterReady, WinNext, OutsideCode, SetupDue, TestedSoFar, Free, Testing, Exit,
       House
  <2>7. MasterReady'
    BY <1>1, <1>7, <2>1 DEF Window0, TypeOK, Together, SameCopy, Decided,
       MasterSelected, MasterReady, WinNext, OutsideCode, SetupDue, TestedSoFar, Free,
       Testing, Exit, House
  <2>8. WinNext'
    BY <1>1, <1>7, <2>1, SchedAssumption, EndOfMemory, CodeBelow DEF Window0, TypeOK,
       Together, SameCopy, Decided, MasterSelected, MasterReady, WinNext, OutsideCode,
       SetupDue, TestedSoFar, Free, Testing, Exit, House, Skips
  <2>9. OutsideCode'
    <3>1. c = mstr_cpu /\ \A d \in CPU : loc[d] = "high"
      BY <1>1, <1>7, CodeBelow DEF Window0, MasterSelected, MasterReady, Testing, TypeOK
    <3>2. winx' = [start |-> 0, end |-> Win1End] /\ loc' = loc /\ mstr_cpu' = mstr_cpu
          /\ pc'[c] = "bump563"
      BY <1>1, <1>7 DEF Window0, TypeOK
    <3> QED
      BY <3>1, <3>2, CodeBelow DEF OutsideCode
  <2>10. SetupDue'
    BY <1>1, <1>7, <2>1, SchedAssumption DEF Window0, SetupDue, Testing
  <2>11. TestedSoFar'
    BY <1>1, <1>7, <2>1, SchedAssumption, EndOfMemory, CodeBelow DEF Window0, TypeOK,
       Together, SameCopy, Decided, MasterSelected, MasterReady, WinNext, OutsideCode,
       SetupDue, TestedSoFar, Free, Testing, Exit, House, Reachable, Due, Pages
  <2> QED
    BY <2>2, <2>3, <2>4, <2>5, <2>6, <2>7, <2>8, <2>9, <2>10, <2>11 DEF IInv
<1>8. CASE Window1(c)
  <2>1. \A d \in CPU : pc[d] \in Free
    BY <1>1, <1>8 DEF Window1, Together, Free, Testing, House, Deciding, Moving
  <2>2. TypeOK'
    BY <1>1, <1>8, <2>1, SchedAssumption, EndOfMemory DEF Window1, TypeOK, Together,
       Lines, CPU, Free, Testing, Exit, House
  <2>3. Together'
    BY <1>1, <1>8, <2>1 DEF Window1, TypeOK, Together, SameCopy, Decided,
       MasterSelected, MasterReady, WinNext, OutsideCode, SetupDue, TestedSoFar, Free,
       Testing, Exit, House
  <2>4. SameCopy'
    BY <1>1, <1>8, <2>1 DEF Window1, Together, SameCopy, Decided, MasterSelected,
       MasterReady, WinNext, OutsideCode, SetupDue, TestedSoFar, Free, Testing, Exit,
       House
  <2>5. Decided'
    BY <1>1, <1>8, <2>1 DEF Window1, TypeOK, Together, SameCopy, Decided,
       MasterSelected, MasterReady, WinNext, OutsideCode, SetupDue, TestedSoFar, Free,
       Testing, Exit, House
  <2>6. MasterSelected'
    BY <1>1, <1>8, <2>1 DEF Window1, Together, SameCopy, Decided, MasterSelected,
       MasterReady, WinNext, OutsideCode, SetupDue, TestedSoFar, Free, Testing, Exit,
       House
  <2>7. MasterReady'
    BY <1>1, <1>8, <2>1 DEF Window1, TypeOK, Together, SameCopy, Decided,
       MasterSelected, MasterReady, WinNext, OutsideCode, SetupDue, TestedSoFar, Free,
       Testing, Exit, House
  <2>8. WinNext'
    BY <1>1, <1>8, <2>1, SchedAssumption, EndOfMemory, CodeBelow DEF Window1, TypeOK, Together, SameCopy, Decided, MasterSelected, MasterReady, WinNext, OutsideCode, SetupDue, TestedSoFar, Free, Testing, Exit, House, Skips, Limit
  <2>9. OutsideCode'
    BY <1>1, <1>8, <2>1, SchedAssumption, CodeBelow DEF Window1, Together, SameCopy,
       Decided, MasterSelected, MasterReady, WinNext, OutsideCode, SetupDue,
       TestedSoFar, Free, Testing, Exit, House
  <2>10. SetupDue'
    BY <1>1, <1>8, <2>1, SchedAssumption DEF Window1, Together, SameCopy, Decided,
       MasterSelected, MasterReady, WinNext, OutsideCode, SetupDue, TestedSoFar, Free,
       Testing, Exit, House
  <2>11. TestedSoFar'
    BY <1>1, <1>8, <2>1, SchedAssumption, EndOfMemory, CodeBelow DEF Window1, TypeOK,
       Together, SameCopy, Decided, MasterSelected, MasterReady, WinNext, OutsideCode,
       SetupDue, TestedSoFar, Free, Testing, Exit, House, Reachable, Due, InHand, Pages
  <2> QED
    BY <2>2, <2>3, <2>4, <2>5, <2>6, <2>7, <2>8, <2>9, <2>10, <2>11 DEF IInv
<1>9. CASE BumpWindow(c)
  <2>1. \A d \in CPU : pc[d] \in Free
    BY <1>1, <1>9 DEF BumpWindow, Together, Free, Testing, House, Deciding, Moving
  <2>2. TypeOK'
    BY <1>1, <1>9, <2>1, SchedAssumption, EndOfMemory, SMTT(30) DEF BumpWindow, TypeOK, Together,
       MasterSelected, MasterReady, WinNext, OutsideCode, SetupDue, TestedSoFar, Lines,
       CPU, Free, Testing, Exit, House
  <2>3. Together'
    BY <1>1, <1>9, <2>1 DEF BumpWindow, TypeOK, Together, SameCopy, Decided,
       MasterSelected, MasterReady, WinNext, OutsideCode, SetupDue, TestedSoFar, Free,
       Testing, Exit, House
  <2>4. SameCopy'
    BY <1>1, <1>9, <2>1 DEF BumpWindow, Together, SameCopy, Decided, MasterSelected,
       MasterReady, WinNext, OutsideCode, SetupDue, TestedSoFar, Free, Testing, Exit,
       House
  <2>5. Decided'
    BY <1>1, <1>9, <2>1 DEF BumpWindow, TypeOK, Together, SameCopy, Decided,
       MasterSelected, MasterReady, WinNext, OutsideCode, SetupDue, TestedSoFar, Free,
       Testing, Exit, House
  <2>6. MasterSelected'
    BY <1>1, <1>9, <2>1 DEF BumpWindow, Together, SameCopy, Decided, MasterSelected,
       MasterReady, WinNext, OutsideCode, SetupDue, TestedSoFar, Free, Testing, Exit,
       House
  <2>7. MasterReady'
    BY <1>1, <1>9, <2>1 DEF BumpWindow, TypeOK, Together, SameCopy, Decided,
       MasterSelected, MasterReady, WinNext, OutsideCode, SetupDue, TestedSoFar, Free,
       Testing, Exit, House
  <2>8. WinNext'
    BY <1>1, <1>9, <2>1, SchedAssumption, EndOfMemory, CodeBelow DEF BumpWindow, TypeOK,
       Together, SameCopy, Decided, MasterSelected, MasterReady, WinNext, OutsideCode,
       SetupDue, TestedSoFar, Free, Testing, Exit, House, Skips
  <2>9. OutsideCode'
    BY <1>1, <1>9, <2>1, SchedAssumption, CodeBelow DEF BumpWindow, Together, SameCopy,
       Decided, MasterSelected, MasterReady, WinNext, OutsideCode, SetupDue,
       TestedSoFar, Free, Testing, Exit, House
  <2>10. SetupDue'
    BY <1>1, <1>9, <2>1, SchedAssumption DEF BumpWindow, Together, SameCopy, Decided,
       MasterSelected, MasterReady, WinNext, OutsideCode, SetupDue, TestedSoFar, Free,
       Testing, Exit, House
  <2>11. TestedSoFar'
    BY <1>1, <1>9, <2>1, SchedAssumption, EndOfMemory, CodeBelow DEF BumpWindow, TypeOK,
       Together, SameCopy, Decided, MasterSelected, MasterReady, WinNext, OutsideCode,
       SetupDue, TestedSoFar, Free, Testing, Exit, House, Reachable, Due, InHand, Pages
  <2> QED
    BY <2>2, <2>3, <2>4, <2>5, <2>6, <2>7, <2>8, <2>9, <2>10, <2>11 DEF IInv
<1>10. CASE WindowN(c)
  <2>1. \A d \in CPU : pc[d] \in Free
    BY <1>1, <1>10 DEF WindowN, Together, Free, Testing, House, Deciding, Moving
  <2>2. TypeOK'
    <3>1. winx' \in [start : Nat, end : Nat]
      BY <1>1, <1>10, SchedAssumption, EndOfMemory DEF WindowN, TypeOK
    <3>2. c = mstr_cpu /\ win_next <= Limit
      BY <1>1, <1>10, SchedAssumption, EndOfMemory DEF WindowN, TypeOK, MasterSelected, WinNext, Testing, Limit
    <3>3. win_next' \in 0 .. PmapEnd + 2 * WIN_SZ
      BY <1>1, <1>10, <3>2, SchedAssumption, EndOfMemory DEF WindowN, TypeOK, Limit
    <3> QED
      BY <1>1, <1>10, <3>1, <3>3, SchedAssumption DEF WindowN, TypeOK, Lines, Testing
  <2>3. Together'
    BY <1>1, <1>10, <2>1 DEF WindowN, TypeOK, Together, TestedSoFar, Free, Testing,
       Exit, House, Deciding, Moving
  <2>4. SameCopy'
    BY <1>1, <1>10, <2>1 DEF WindowN, Together, SameCopy, Decided, MasterSelected,
       MasterReady, WinNext, OutsideCode, SetupDue, TestedSoFar, Free, Testing, Exit,
       House
  <2>5. Decided'
    BY <1>1, <1>10, <2>1 DEF WindowN, TypeOK, Together, SameCopy, Decided,
       MasterSelected, MasterReady, WinNext, OutsideCode, SetupDue, TestedSoFar, Free,
       Testing, Exit, House
  <2>6. MasterSelected'
    BY <1>1, <1>10, <2>1 DEF WindowN, Together, SameCopy, Decided, MasterSelected,
       MasterReady, WinNext, OutsideCode, SetupDue, TestedSoFar, Free, Testing, Exit,
       House
  <2>7. MasterReady'
    BY <1>1, <1>10, <2>1 DEF WindowN, TypeOK, Together, SameCopy, Decided,
       MasterSelected, MasterReady, WinNext, OutsideCode, SetupDue, TestedSoFar, Free,
       Testing, Exit, House
  <2>8. WinNext'
    BY <1>1, <1>10, <2>1, SchedAssumption, EndOfMemory, CodeBelow DEF WindowN, TypeOK,
       Together, SameCopy, Decided, MasterSelected, MasterReady, WinNext, OutsideCode,
       SetupDue, TestedSoFar, Free, Testing, Exit, House, Skips
  <2>9. OutsideCode'
    BY <1>1, <1>10, <2>1, SchedAssumption, CodeBelow DEF WindowN, TypeOK, Together, SameCopy, Decided, MasterSelected, MasterReady, WinNext, OutsideCode, SetupDue, TestedSoFar, Free, Testing, Exit, House
  <2>10. SetupDue'
    BY <1>1, <1>10, <2>1, SchedAssumption DEF WindowN, Together, SameCopy, Decided,
       MasterSelected, MasterReady, WinNext, OutsideCode, SetupDue, TestedSoFar, Free,
       Testing, Exit, House
  <2>11. TestedSoFar'
    BY <1>1, <1>10, <2>1, SchedAssumption, EndOfMemory, CodeBelow DEF WindowN, TypeOK,
       Together, SameCopy, Decided, MasterSelected, MasterReady, WinNext, OutsideCode,
       SetupDue, TestedSoFar, Free, Testing, Exit, House, Reachable, Due, InHand, Pages
  <2> QED
    BY <2>2, <2>3, <2>4, <2>5, <2>6, <2>7, <2>8, <2>9, <2>10, <2>11 DEF IInv
<1>11. CASE WindowEnd(c)
  <2>1. \A d \in CPU : pc[d] \in Free
    BY <1>1, <1>11 DEF WindowEnd, Together, Free, Testing, House, Deciding, Moving
  <2>2. TypeOK'
    <3>1. winx' \in [start : Nat, end : Nat]
      BY <1>1, <1>11, SchedAssumption, EndOfMemory DEF WindowEnd, TypeOK
    <3> QED
      BY <1>1, <1>11, <3>1, SchedAssumption DEF WindowEnd, TypeOK, Lines, Testing
  <2>3. Together'
    BY <1>1, <1>11, <2>1 DEF WindowEnd, TypeOK, Together, TestedSoFar, Free, Testing,
       Exit, House, Deciding, Moving
  <2>4. SameCopy'
    BY <1>1, <1>11, <2>1 DEF WindowEnd, Together, SameCopy, Decided, MasterSelected,
       MasterReady, WinNext, OutsideCode, SetupDue, TestedSoFar, Free, Testing, Exit,
       House
  <2>5. Decided'
    BY <1>1, <1>11, <2>1 DEF WindowEnd, TypeOK, Together, SameCopy, Decided,
       MasterSelected, MasterReady, WinNext, OutsideCode, SetupDue, TestedSoFar, Free,
       Testing, Exit, House
  <2>6. MasterSelected'
    BY <1>1, <1>11, <2>1 DEF WindowEnd, Together, SameCopy, Decided, MasterSelected,
       MasterReady, WinNext, OutsideCode, SetupDue, TestedSoFar, Free, Testing, Exit,
       House
  <2>7. MasterReady'
    BY <1>1, <1>11, <2>1 DEF WindowEnd, TypeOK, Together, SameCopy, Decided,
       MasterSelected, MasterReady, WinNext, OutsideCode, SetupDue, TestedSoFar, Free,
       Testing, Exit, House
  <2>8. WinNext'
    BY <1>1, <1>11, <2>1, SchedAssumption, EndOfMemory, CodeBelow DEF WindowEnd, TypeOK,
       Together, SameCopy, Decided, MasterSelected, MasterReady, WinNext, OutsideCode,
       SetupDue, TestedSoFar, Free, Testing, Exit, House, Skips
  <2>9. OutsideCode'
    <3>1. c = mstr_cpu /\ winx.start >= WIN_SZ /\ winx.start \in Nat
      BY <1>1, <1>11 DEF WindowEnd, MasterSelected, OutsideCode, Testing, TypeOK
    <3>2. winx'.start = winx.start
      BY <1>11 DEF WindowEnd
    <3>3. \A d \in CPU : CodePage[loc[d]] \in Nat /\ CodePage[loc[d]] < WIN_SZ
      BY <1>1, SchedAssumption, CodeBelow DEF TypeOK
    <3>4. \A d \in CPU : ~(winx.start <= CodePage[loc[d]])
      BY <3>1, <3>3, SchedAssumption
    <3> QED
      BY <1>1, <1>11, <3>1, <3>2, <3>4 DEF WindowEnd, OutsideCode
  <2>10. SetupDue'
    BY <1>1, <1>11, <2>1, SchedAssumption DEF WindowEnd, OutsideCode, SetupDue, Testing
  <2>11. TestedSoFar'
    BY <1>1, <1>11, <2>1, SchedAssumption, EndOfMemory, CodeBelow DEF WindowEnd, TypeOK,
       Together, SameCopy, Decided, MasterSelected, MasterReady, WinNext, OutsideCode,
       SetupDue, TestedSoFar, Free, Testing, Exit, House, Reachable, Due, InHand, Pages
  <2> QED
    BY <2>2, <2>3, <2>4, <2>5, <2>6, <2>7, <2>8, <2>9, <2>10, <2>11 DEF IInv
<1>12. CASE Segments(c)
  <2>1. \A d \in CPU : pc[d] \in Free
    BY <1>1, <1>12 DEF Segments, Together, Free, Testing, House, Deciding, Moving
  <2>2. TypeOK'
    BY <1>1, <1>12, <2>1, SchedAssumption, EndOfMemory DEF Segments, TypeOK, Together,
       Lines, CPU, Free, Testing, Exit, House
  <2>3. Together'
    BY <1>1, <1>12, <2>1 DEF Segments, TypeOK, Together, SameCopy, Decided,
       MasterSelected, MasterReady, WinNext, OutsideCode, SetupDue, TestedSoFar, Free,
       Testing, Exit, House
  <2>4. SameCopy'
    BY <1>1, <1>12, <2>1 DEF Segments, Together, SameCopy, Decided, MasterSelected,
       MasterReady, WinNext, OutsideCode, SetupDue, TestedSoFar, Free, Testing, Exit,
       House
  <2>5. Decided'
    BY <1>1, <1>12, <2>1 DEF Segments, TypeOK, Together, SameCopy, Decided,
       MasterSelected, MasterReady, WinNext, OutsideCode, SetupDue, TestedSoFar, Free,
       Testing, Exit, House
  <2>6. MasterSelected'
    BY <1>1, <1>12, <2>1 DEF Segments, Together, SameCopy, Decided, MasterSelected,
       MasterReady, WinNext, OutsideCode, SetupDue, TestedSoFar, Free, Testing, Exit,
       House
  <2>7. MasterReady'
    BY <1>1, <1>12, <2>1 DEF Segments, TypeOK, Together, SameCopy, Decided,
       MasterSelected, MasterReady, WinNext, OutsideCode, SetupDue, TestedSoFar, Free,
       Testing, Exit, House
  <2>8. WinNext'
    BY <1>1, <1>12, <2>1, SchedAssumption, EndOfMemory, CodeBelow DEF Segments, TypeOK,
       Together, SameCopy, Decided, MasterSelected, MasterReady, WinNext, OutsideCode,
       SetupDue, TestedSoFar, Free, Testing, Exit, House, Skips
  <2>9. OutsideCode'
    BY <1>1, <1>12, <2>1, SchedAssumption, CodeBelow DEF Segments, Together, SameCopy,
       Decided, MasterSelected, MasterReady, WinNext, OutsideCode, SetupDue,
       TestedSoFar, Free, Testing, Exit, House
  <2>10. SetupDue'
    BY <1>1, <1>12, <2>1, SchedAssumption DEF Segments, Together, SameCopy, Decided,
       MasterSelected, MasterReady, WinNext, OutsideCode, SetupDue, TestedSoFar, Free,
       Testing, Exit, House
  <2>11. TestedSoFar'
    <3>1. /\ c = mstr_cpu /\ mstr_cpu' = mstr_cpu /\ pc[c] = "segs583"
          /\ pc'[c] = (IF Pages(winx) = {} THEN "while459"
                      ELSE IF Min(Pages(winx)) >= mapLimit THEN "exit613" ELSE "test599")
          /\ winx' = winx /\ tested' = tested /\ window' = window /\ win_next' = win_next
          /\ test' = test
      BY <1>1, <1>12 DEF Segments, MasterSelected, Testing, TypeOK
    <3>2. Reachable' = Reachable /\ \A p \in Reachable : Due(p)' <=> Due(p)
      BY <3>1 DEF Reachable, Due
    <3>3. \A p \in Reachable :
            /\ p \in Nat /\ p \in Mem /\ p < mapLimit
            /\ Due(p) => p \in tested \/ (winx.start <= p /\ p < winx.end)
            /\ p < winx.start => p \in tested
      BY <1>1, <3>1, SchedAssumption DEF TestedSoFar, InHand, Reachable
    <3>4. CASE Pages(winx) = {}
      <4>1. \A p \in Reachable : Due(p) => p \in tested
        BY <3>3, <3>4 DEF Pages
      <4> QED
        BY <3>1, <3>2, <3>4, <4>1 DEF TestedSoFar, Exit
    <3>5. CASE Pages(winx) # {} /\ Min(Pages(winx)) >= mapLimit
      <4>1. Pages(winx) \in SUBSET Nat
        BY SchedAssumption DEF Pages
      <4>2. /\ Min(Pages(winx)) \in Nat /\ winx.start <= Min(Pages(winx))
            /\ Min(Pages(winx)) < winx.end
            /\ \A p \in Pages(winx) : Min(Pages(winx)) <= p
        BY <3>5, <4>1, FirstPage DEF Pages
      <4>3. winx.start \in Nat /\ winx.end \in Nat /\ mapLimit \in Nat
        BY <1>1, SchedAssumption DEF TypeOK
      <4>4. \A p \in Reachable : p \in tested
        <5>1. \A p \in Reachable : p \notin Pages(winx)
          BY <3>3, <3>5, <4>2, <4>3
        <5>2. \A p \in Reachable : p < winx.end
          BY <3>3, <3>5, <4>2, <4>3
        <5> QED
          BY <3>3, <4>3, <5>1, <5>2 DEF Pages
      <4> QED
        BY <3>1, <3>2, <4>4 DEF TestedSoFar
    <3>6. CASE Pages(winx) # {} /\ ~(Min(Pages(winx)) >= mapLimit)
      BY <3>1, <3>2, <3>3, <3>6 DEF TestedSoFar, InHand, Exit
    <3> QED
      BY <3>4, <3>5, <3>6
  <2> QED
    BY <2>2, <2>3, <2>4, <2>5, <2>6, <2>7, <2>8, <2>9, <2>10, <2>11 DEF IInv
<1>13. CASE DoTest(c)
  <2>1. \A d \in CPU : pc[d] \in Free
    BY <1>1, <1>13 DEF DoTest, Together, Free, Testing, House, Deciding, Moving
  <2>2. TypeOK'
    BY <1>1, <1>13, Releases, SchedAssumption DEF DoTest, TypeOK, Lines, Testing, CPU, Pages
  <2>3. Together'
    BY <1>1, <1>13, <2>1 DEF DoTest, TypeOK, Together, TestedSoFar, Free, Testing, Exit,
       House, Deciding, Moving
  <2>4. SameCopy'
    BY <1>1, <1>13, <2>1 DEF DoTest, Together, SameCopy, Decided, MasterSelected,
       MasterReady, WinNext, OutsideCode, SetupDue, TestedSoFar, Free, Testing, Exit,
       House
  <2>5. Decided'
    BY <1>1, <1>13, <2>1 DEF DoTest, TypeOK, Together, SameCopy, Decided,
       MasterSelected, MasterReady, WinNext, OutsideCode, SetupDue, TestedSoFar, Free,
       Testing, Exit, House
  <2>6. MasterSelected'
    BY <1>1, <1>13, <2>1 DEF DoTest, Together, SameCopy, Decided, MasterSelected,
       MasterReady, WinNext, OutsideCode, SetupDue, TestedSoFar, Free, Testing, Exit,
       House
  <2>7. MasterReady'
    BY <1>1, <1>13, <2>1 DEF DoTest, TypeOK, Together, SameCopy, Decided,
       MasterSelected, MasterReady, WinNext, OutsideCode, SetupDue, TestedSoFar, Free,
       Testing, Exit, House
  <2>8. WinNext'
    BY <1>1, <1>13, <2>1, SchedAssumption, EndOfMemory, CodeBelow DEF DoTest, TypeOK,
       Together, SameCopy, Decided, MasterSelected, MasterReady, WinNext, OutsideCode,
       SetupDue, TestedSoFar, Free, Testing, Exit, House, Skips
  <2>9. OutsideCode'
    BY <1>1, <1>13, <2>1, SchedAssumption, CodeBelow DEF DoTest, Together, SameCopy,
       Decided, MasterSelected, MasterReady, WinNext, OutsideCode, SetupDue,
       TestedSoFar, Free, Testing, Exit, House
  <2>10. SetupDue'
    BY <1>1, <1>13, <2>1, SchedAssumption DEF DoTest, Together, SameCopy, Decided,
       MasterSelected, MasterReady, WinNext, OutsideCode, SetupDue, TestedSoFar, Free,
       Testing, Exit, House
  <2>11. TestedSoFar'
    BY <1>1, <1>13, <2>1, SchedAssumption, EndOfMemory, CodeBelow DEF DoTest, TypeOK,
       Together, SameCopy, Decided, MasterSelected, MasterReady, WinNext, OutsideCode,
       SetupDue, TestedSoFar, Free, Testing, Exit, House, Reachable, Due, InHand, Pages
  <2> QED
    BY <2>2, <2>3, <2>4, <2>5, <2>6, <2>7, <2>8, <2>9, <2>10, <2>11 DEF IInv
<1>14. CASE ResetNext(c)
  <2>1. \A d \in CPU : pc[d] \in Free
    BY <1>1, <1>14 DEF ResetNext, Together, Free, Testing, House, Deciding, Moving
  <2>2. TypeOK'
    BY <1>1, <1>14, SchedAssumption, EndOfMemory DEF ResetNext, TypeOK, Lines
  <2>3. Together'
    BY <1>1, <1>14, <2>1 DEF ResetNext, TypeOK, Together, TestedSoFar, Free, Testing,
       Exit, House, Deciding, Moving
  <2>4. SameCopy'
    BY <1>1, <1>14, <2>1 DEF ResetNext, Together, SameCopy, Decided, MasterSelected,
       MasterReady, WinNext, OutsideCode, SetupDue, TestedSoFar, Free, Testing, Exit,
       House
  <2>5. Decided'
    BY <1>1, <1>14, <2>1 DEF ResetNext, TypeOK, Together, SameCopy, Decided,
       MasterSelected, MasterReady, WinNext, OutsideCode, SetupDue, TestedSoFar, Free,
       Testing, Exit, House
  <2>6. MasterSelected'
    BY <1>1, <1>14, <2>1 DEF ResetNext, Together, SameCopy, Decided, MasterSelected,
       MasterReady, WinNext, OutsideCode, SetupDue, TestedSoFar, Free, Testing, Exit,
       House
  <2>7. MasterReady'
    BY <1>1, <1>14, <2>1 DEF ResetNext, TypeOK, Together, SameCopy, Decided,
       MasterSelected, MasterReady, WinNext, OutsideCode, SetupDue, TestedSoFar, Free,
       Testing, Exit, House
  <2>8. WinNext'
    BY <1>1, <1>14, <2>1, SchedAssumption, EndOfMemory, CodeBelow DEF ResetNext, TypeOK, Together, SameCopy, Decided, MasterSelected, MasterReady, WinNext, OutsideCode, SetupDue, TestedSoFar, Free, Testing, Exit, House, Skips, Limit
  <2>9. OutsideCode'
    BY <1>1, <1>14, <2>1, SchedAssumption, CodeBelow DEF ResetNext, Together, SameCopy,
       Decided, MasterSelected, MasterReady, WinNext, OutsideCode, SetupDue,
       TestedSoFar, Free, Testing, Exit, House
  <2>10. SetupDue'
    BY <1>1, <1>14, <2>1, SchedAssumption DEF ResetNext, Together, SameCopy, Decided,
       MasterSelected, MasterReady, WinNext, OutsideCode, SetupDue, TestedSoFar, Free,
       Testing, Exit, House
  <2>11. TestedSoFar'
    BY <1>1, <1>14, <2>1, SchedAssumption, EndOfMemory, CodeBelow DEF ResetNext, TypeOK,
       Together, SameCopy, Decided, MasterSelected, MasterReady, WinNext, OutsideCode,
       SetupDue, TestedSoFar, Free, Testing, Exit, House, Reachable, Due, InHand, Pages
  <2> QED
    BY <2>2, <2>3, <2>4, <2>5, <2>6, <2>7, <2>8, <2>9, <2>10, <2>11 DEF IInv
<1>15. CASE ResetWindow(c)
  <2>1. \A d \in CPU : pc[d] \in Free
    BY <1>1, <1>15 DEF ResetWindow, Together, Free, Testing, House, Deciding, Moving
  <2>2. TypeOK'
    BY <1>1, <1>15, <2>1, SchedAssumption, EndOfMemory DEF ResetWindow, TypeOK,
       Together, Lines, CPU, Free, Testing, Exit, House
  <2>3. Together'
    BY <1>1, <1>15, <2>1 DEF ResetWindow, TypeOK, Together, SameCopy, Decided,
       MasterSelected, MasterReady, WinNext, OutsideCode, SetupDue, TestedSoFar, Free,
       Testing, Exit, House
  <2>4. SameCopy'
    BY <1>1, <1>15, <2>1 DEF ResetWindow, Together, SameCopy, Decided, MasterSelected,
       MasterReady, WinNext, OutsideCode, SetupDue, TestedSoFar, Free, Testing, Exit,
       House
  <2>5. Decided'
    BY <1>1, <1>15, <2>1 DEF ResetWindow, TypeOK, Together, SameCopy, Decided,
       MasterSelected, MasterReady, WinNext, OutsideCode, SetupDue, TestedSoFar, Free,
       Testing, Exit, House
  <2>6. MasterSelected'
    BY <1>1, <1>15, <2>1 DEF ResetWindow, Together, SameCopy, Decided, MasterSelected,
       MasterReady, WinNext, OutsideCode, SetupDue, TestedSoFar, Free, Testing, Exit,
       House
  <2>7. MasterReady'
    BY <1>1, <1>15, <2>1 DEF ResetWindow, TypeOK, Together, SameCopy, Decided,
       MasterSelected, MasterReady, WinNext, OutsideCode, SetupDue, TestedSoFar, Free,
       Testing, Exit, House
  <2>8. WinNext'
    BY <1>1, <1>15, <2>1, SchedAssumption, EndOfMemory, CodeBelow DEF ResetWindow,
       TypeOK, Together, SameCopy, Decided, MasterSelected, MasterReady, WinNext,
       OutsideCode, SetupDue, TestedSoFar, Free, Testing, Exit, House, Skips
  <2>9. OutsideCode'
    BY <1>1, <1>15, <2>1, SchedAssumption, CodeBelow DEF ResetWindow, Together,
       SameCopy, Decided, MasterSelected, MasterReady, WinNext, OutsideCode, SetupDue,
       TestedSoFar, Free, Testing, Exit, House
  <2>10. SetupDue'
    BY <1>1, <1>15, <2>1, SchedAssumption DEF ResetWindow, Together, SameCopy, Decided,
       MasterSelected, MasterReady, WinNext, OutsideCode, SetupDue, TestedSoFar, Free,
       Testing, Exit, House
  <2>11. TestedSoFar'
    BY <1>1, <1>15, <2>1, SchedAssumption, EndOfMemory, CodeBelow DEF ResetWindow,
       TypeOK, Together, SameCopy, Decided, MasterSelected, MasterReady, WinNext,
       OutsideCode, SetupDue, TestedSoFar, Free, Testing, Exit, House, Reachable, Due,
       Pages
  <2> QED
    BY <2>2, <2>3, <2>4, <2>5, <2>6, <2>7, <2>8, <2>9, <2>10, <2>11 DEF IInv
<1>16. CASE NextFade(c)
  <2>1. \A d \in CPU : pc[d] \in Free
    BY <1>1, <1>16 DEF NextFade, Together, Free, Testing, House, Deciding, Moving
  <2>2. TypeOK'
    BY <1>1, <1>16, <2>1, SchedAssumption, EndOfMemory DEF NextFade, TypeOK, Together,
       Lines, CPU, Free, Testing, Exit, House
  <2>3. Together'
    BY <1>1, <1>16, <2>1 DEF NextFade, TypeOK, Together, SameCopy, Decided,
       MasterSelected, MasterReady, WinNext, OutsideCode, SetupDue, TestedSoFar, Free,
       Testing, Exit, House
  <2>4. SameCopy'
    BY <1>1, <1>16, <2>1 DEF NextFade, Together, SameCopy, Decided, MasterSelected,
       MasterReady, WinNext, OutsideCode, SetupDue, TestedSoFar, Free, Testing, Exit,
       House
  <2>5. Decided'
    BY <1>1, <1>16, <2>1 DEF NextFade, TypeOK, Together, SameCopy, Decided,
       MasterSelected, MasterReady, WinNext, OutsideCode, SetupDue, TestedSoFar, Free,
       Testing, Exit, House
  <2>6. MasterSelected'
    BY <1>1, <1>16, <2>1 DEF NextFade, Together, SameCopy, Decided, MasterSelected,
       MasterReady, WinNext, OutsideCode, SetupDue, TestedSoFar, Free, Testing, Exit,
       House
  <2>7. MasterReady'
    BY <1>1, <1>16, <2>1 DEF NextFade, TypeOK, Together, SameCopy, Decided,
       MasterSelected, MasterReady, WinNext, OutsideCode, SetupDue, TestedSoFar, Free,
       Testing, Exit, House
  <2>8. WinNext'
    BY <1>1, <1>16, <2>1, SchedAssumption, EndOfMemory, CodeBelow DEF NextFade, TypeOK,
       Together, SameCopy, Decided, MasterSelected, MasterReady, WinNext, OutsideCode,
       SetupDue, TestedSoFar, Free, Testing, Exit, House, Skips
  <2>9. OutsideCode'
    BY <1>1, <1>16, <2>1, SchedAssumption, CodeBelow DEF NextFade, Together, SameCopy,
       Decided, MasterSelected, MasterReady, WinNext, OutsideCode, SetupDue,
       TestedSoFar, Free, Testing, Exit, House
  <2>10. SetupDue'
    BY <1>1, <1>16, <2>1, SchedAssumption DEF NextFade, Together, SameCopy, Decided,
       MasterSelected, MasterReady, WinNext, OutsideCode, SetupDue, TestedSoFar, Free,
       Testing, Exit, House
  <2>11. TestedSoFar'
    BY <1>1, <1>16, <2>1, SchedAssumption, EndOfMemory, CodeBelow DEF NextFade, TypeOK,
       Together, SameCopy, Decided, MasterSelected, MasterReady, WinNext, OutsideCode,
       SetupDue, TestedSoFar, Free, Testing, Exit, House, Reachable, Due, Pages
  <2> QED
    BY <2>2, <2>3, <2>4, <2>5, <2>6, <2>7, <2>8, <2>9, <2>10, <2>11 DEF IInv
<1>17. CASE NextCpu(c)
  <2>1. \A d \in CPU : pc[d] \in Free
    BY <1>1, <1>17 DEF NextCpu, Together, Free, Testing, House, Deciding, Moving
  <2>2. TypeOK'
    <3>1. (cpu_sel + 1) % NumCpus \in CPU
      BY <1>1, SchedAssumption, SMTT(30) DEF TypeOK, CPU
    <3> QED
      BY <1>1, <1>17, <3>1, SchedAssumption DEF NextCpu, TypeOK, Lines
  <2>3. Together'
    BY <1>1, <1>17, <2>1 DEF NextCpu, TypeOK, Together, TestedSoFar, Free, Testing,
       Exit, House, Deciding, Moving
  <2>4. SameCopy'
    BY <1>1, <1>17, <2>1 DEF NextCpu, Together, SameCopy, Decided, MasterSelected,
       MasterReady, WinNext, OutsideCode, SetupDue, TestedSoFar, Free, Testing, Exit,
       House
  <2>5. Decided'
    BY <1>1, <1>17, <2>1 DEF NextCpu, TypeOK, Together, SameCopy, Decided,
       MasterSelected, MasterReady, WinNext, OutsideCode, SetupDue, TestedSoFar, Free,
       Testing, Exit, House
  <2>6. MasterSelected'
    BY <1>1, <1>17, <2>1 DEF NextCpu, Together, SameCopy, Decided, MasterSelected,
       MasterReady, WinNext, OutsideCode, SetupDue, TestedSoFar, Free, Testing, Exit,
       House
  <2>7. MasterReady'
    BY <1>1, <1>17, <2>1 DEF NextCpu, TypeOK, Together, SameCopy, Decided,
       MasterSelected, MasterReady, WinNext, OutsideCode, SetupDue, TestedSoFar, Free,
       Testing, Exit, House
  <2>8. WinNext'
    BY <1>1, <1>17, <2>1, SchedAssumption, EndOfMemory, CodeBelow DEF NextCpu, TypeOK,
       Together, SameCopy, Decided, MasterSelected, MasterReady, WinNext, OutsideCode,
       SetupDue, TestedSoFar, Free, Testing, Exit, House, Skips
  <2>9. OutsideCode'
    BY <1>1, <1>17, <2>1, SchedAssumption, CodeBelow DEF NextCpu, Together, SameCopy,
       Decided, MasterSelected, MasterReady, WinNext, OutsideCode, SetupDue,
       TestedSoFar, Free, Testing, Exit, House
  <2>10. SetupDue'
    BY <1>1, <1>17, <2>1, SchedAssumption DEF NextCpu, Together, SameCopy, Decided,
       MasterSelected, MasterReady, WinNext, OutsideCode, SetupDue, TestedSoFar, Free,
       Testing, Exit, House
  <2>11. TestedSoFar'
    BY <1>1, <1>17, <2>1, SchedAssumption, EndOfMemory, CodeBelow DEF NextCpu, TypeOK,
       Together, SameCopy, Decided, MasterSelected, MasterReady, WinNext, OutsideCode,
       SetupDue, TestedSoFar, Free, Testing, Exit, House, Reachable, Due, Pages
  <2> QED
    BY <2>2, <2>3, <2>4, <2>5, <2>6, <2>7, <2>8, <2>9, <2>10, <2>11 DEF IInv
<1>18. CASE NextTest(c)
  <2>1. \A d \in CPU : pc[d] \in Free
    BY <1>1, <1>18 DEF NextTest, Together, Free, Testing, House, Deciding, Moving
  <2>2. TypeOK'
    BY <1>1, <1>18, <2>1, SchedAssumption, EndOfMemory, SMTT(30) DEF NextTest, TypeOK, Together, SameCopy, Decided, MasterSelected, MasterReady, WinNext, OutsideCode, SetupDue, TestedSoFar, Lines, CPU, Free, Testing, Exit, House
  <2>3. Together'
    BY <1>1, <1>18, <2>1 DEF NextTest, TypeOK, Together, SameCopy, Decided,
       MasterSelected, MasterReady, WinNext, OutsideCode, SetupDue, TestedSoFar, Free,
       Testing, Exit, House
  <2>4. SameCopy'
    BY <1>1, <1>18, <2>1 DEF NextTest, Together, SameCopy, Decided, MasterSelected,
       MasterReady, WinNext, OutsideCode, SetupDue, TestedSoFar, Free, Testing, Exit,
       House
  <2>5. Decided'
    BY <1>1, <1>18, <2>1 DEF NextTest, TypeOK, Together, SameCopy, Decided,
       MasterSelected, MasterReady, WinNext, OutsideCode, SetupDue, TestedSoFar, Free,
       Testing, Exit, House
  <2>6. MasterSelected'
    BY <1>1, <1>18, <2>1 DEF NextTest, Together, SameCopy, Decided, MasterSelected,
       MasterReady, WinNext, OutsideCode, SetupDue, TestedSoFar, Free, Testing, Exit,
       House
  <2>7. MasterReady'
    BY <1>1, <1>18, <2>1 DEF NextTest, TypeOK, Together, SameCopy, Decided,
       MasterSelected, MasterReady, WinNext, OutsideCode, SetupDue, TestedSoFar, Free,
       Testing, Exit, House
  <2>8. WinNext'
    BY <1>1, <1>18, <2>1, SchedAssumption, EndOfMemory, CodeBelow DEF NextTest, TypeOK,
       Together, SameCopy, Decided, MasterSelected, MasterReady, WinNext, OutsideCode,
       SetupDue, TestedSoFar, Free, Testing, Exit, House, Skips
  <2>9. OutsideCode'
    BY <1>1, <1>18, <2>1, SchedAssumption, CodeBelow DEF NextTest, Together, SameCopy,
       Decided, MasterSelected, MasterReady, WinNext, OutsideCode, SetupDue,
       TestedSoFar, Free, Testing, Exit, House
  <2>10. SetupDue'
    BY <1>1, <1>18, <2>1, SchedAssumption DEF NextTest, TypeOK, Together, SameCopy, Decided, MasterSelected, MasterReady, WinNext, OutsideCode, SetupDue, TestedSoFar, Free, Testing, Exit, House
  <2>11. TestedSoFar'
    BY <1>1, <1>18, <2>1, SchedAssumption, EndOfMemory, CodeBelow DEF NextTest, TypeOK,
       Together, SameCopy, Decided, MasterSelected, MasterReady, WinNext, OutsideCode,
       SetupDue, TestedSoFar, Free, Testing, Exit, House, Reachable, Due, Pages
  <2> QED
    BY <2>2, <2>3, <2>4, <2>5, <2>6, <2>7, <2>8, <2>9, <2>10, <2>11 DEF IInv
<1>19. CASE PassDone(c)
  <2>1. \A d \in CPU : pc[d] \in Free
    BY <1>1, <1>19 DEF PassDone, Together, Free, Testing, House, Deciding, Moving
  <2>2. TypeOK'
    BY <1>1, <1>19, <2>1, SchedAssumption, EndOfMemory DEF PassDone, TypeOK, Together,
       Lines, CPU, Free, Testing, Exit, House
  <2>3. Together'
    BY <1>1, <1>19, <2>1 DEF PassDone, TypeOK, Together, SameCopy, Decided,
       MasterSelected, MasterReady, WinNext, OutsideCode, SetupDue, TestedSoFar, Free,
       Testing, Exit, House
  <2>4. SameCopy'
    BY <1>1, <1>19, <2>1 DEF PassDone, Together, SameCopy, Decided, MasterSelected,
       MasterReady, WinNext, OutsideCode, SetupDue, TestedSoFar, Free, Testing, Exit,
       House
  <2>5. Decided'
    BY <1>1, <1>19, <2>1 DEF PassDone, TypeOK, Together, SameCopy, Decided,
       MasterSelected, MasterReady, WinNext, OutsideCode, SetupDue, TestedSoFar, Free,
       Testing, Exit, House
  <2>6. MasterSelected'
    BY <1>1, <1>19, <2>1 DEF PassDone, Together, SameCopy, Decided, MasterSelected,
       MasterReady, WinNext, OutsideCode, SetupDue, TestedSoFar, Free, Testing, Exit,
       House
  <2>7. MasterReady'
    BY <1>1, <1>19, <2>1 DEF PassDone, TypeOK, Together, SameCopy, Decided,
       MasterSelected, MasterReady, WinNext, OutsideCode, SetupDue, TestedSoFar, Free,
       Testing, Exit, House
  <2>8. WinNext'
    BY <1>1, <1>19, <2>1, SchedAssumption, EndOfMemory, CodeBelow DEF PassDone, TypeOK,
       Together, SameCopy, Decided, MasterSelected, MasterReady, WinNext, OutsideCode,
       SetupDue, TestedSoFar, Free, Testing, Exit, House, Skips
  <2>9. OutsideCode'
    BY <1>1, <1>19, <2>1, SchedAssumption, CodeBelow DEF PassDone, Together, SameCopy,
       Decided, MasterSelected, MasterReady, WinNext, OutsideCode, SetupDue,
       TestedSoFar, Free, Testing, Exit, House
  <2>10. SetupDue'
    BY <1>1, <1>19, <2>1, SchedAssumption DEF PassDone, Together, SameCopy, Decided,
       MasterSelected, MasterReady, WinNext, OutsideCode, SetupDue, TestedSoFar, Free,
       Testing, Exit, House
  <2>11. TestedSoFar'
    BY <1>1, <1>19, <2>1, SchedAssumption, EndOfMemory, CodeBelow DEF PassDone, TypeOK,
       Together, SameCopy, Decided, MasterSelected, MasterReady, WinNext, OutsideCode,
       SetupDue, TestedSoFar, Free, Testing, Exit, House, Reachable, Due, Pages
  <2> QED
    BY <2>2, <2>3, <2>4, <2>5, <2>6, <2>7, <2>8, <2>9, <2>10, <2>11 DEF IInv
<1> QED
  BY <1>2, <1>3, <1>4, <1>5, <1>6, <1>7, <1>8, <1>9, <1>10, <1>11, <1>12, <1>13, <1>14, <1>15, <1>16, <1>17, <1>18, <1>19

\* While the copy and the CPU are chosen.
LEMMA DecidingSteps ==
  ASSUME BelowPaeLimit, IInv, NEW c \in CPU, UNCHANGED mapLimit,
         PaeLimit(c) \/ SkipWindow0(c) \/ SetWindow1(c) \/ Relocate(c) \/ Select(c)
  PROVE  IInv'
<1> USE DEF BelowPaeLimit
<1>1. TypeOK /\ Together /\ SameCopy /\ Decided /\ MasterSelected /\ MasterReady /\ WinNext /\ OutsideCode /\ SetupDue /\ TestedSoFar
  BY DEF IInv
<1>2. CASE PaeLimit(c)
  <2>1. \A d \in CPU : pc[d] \in Deciding
    BY <1>1, <1>2 DEF PaeLimit, Together, Free, Testing, Exit, House, Deciding, Moving
  <2>2. ~(win_next > MAX_MEM)
    <3>1. ~(win_next > Limit)
      BY <1>1, <2>1 DEF Deciding, WinNext, TypeOK
    <3> QED
      BY <1>1, <3>1, SchedAssumption, EndOfMemory DEF TypeOK, Limit
  <2>3. TypeOK'
    BY <1>1, <1>2, <2>1, <2>2, SchedAssumption, EndOfMemory DEF PaeLimit, TypeOK, Lines,
       CPU, Testing
  <2>4. Together'
    BY <1>1, <1>2, <2>1, <2>2 DEF PaeLimit, TypeOK, Together, SameCopy, Decided,
       MasterSelected, MasterReady, WinNext, OutsideCode, SetupDue, TestedSoFar, Free,
       Testing, Exit, House, Deciding, Deciding
  <2>5. SameCopy'
    BY <1>1, <1>2, <2>1, <2>2 DEF PaeLimit, TypeOK, Together, SameCopy, Decided, MasterSelected, MasterReady, WinNext, OutsideCode, SetupDue, TestedSoFar, Free, Testing, Exit, House, Deciding
  <2>6. Decided'
    BY <1>1, <1>2, <2>1, <2>2 DEF PaeLimit, TypeOK, Together, SameCopy, Decided, MasterSelected, MasterReady, WinNext, OutsideCode, SetupDue, TestedSoFar, Free, Testing, Exit, House, Skips, Deciding
  <2>7. MasterSelected'
    BY <1>1, <1>2, <2>1, <2>2 DEF PaeLimit, TypeOK, Together, SameCopy, Decided, MasterSelected, MasterReady, WinNext, OutsideCode, SetupDue, TestedSoFar, Free, Testing, Exit, House, Deciding
  <2>8. MasterReady'
    BY <1>1, <1>2, <2>1, <2>2 DEF PaeLimit, TypeOK, Together, SameCopy, Decided,
       MasterSelected, MasterReady, WinNext, OutsideCode, SetupDue, TestedSoFar, Free,
       Testing, Exit, House, Deciding
  <2>9. WinNext'
    BY <1>1, <1>2, <2>1, <2>2, SchedAssumption, EndOfMemory, CodeBelow DEF PaeLimit, TypeOK, Together, SameCopy, Decided, MasterSelected, MasterReady, WinNext, OutsideCode, SetupDue, TestedSoFar, Free, Testing, Exit, House, Skips, Limit, Deciding
  <2>10. OutsideCode'
    BY <1>1, <1>2, <2>1, <2>2, SchedAssumption, CodeBelow DEF PaeLimit, TypeOK, Together, SameCopy, Decided, MasterSelected, MasterReady, WinNext, OutsideCode, SetupDue, TestedSoFar, Free, Testing, Exit, House, Deciding
  <2>11. SetupDue'
    BY <1>1, <1>2, <2>1, <2>2, SchedAssumption DEF PaeLimit, TypeOK, Together, SameCopy, Decided, MasterSelected, MasterReady, WinNext, OutsideCode, SetupDue, TestedSoFar, Free, Testing, Exit, House, Deciding
  <2>12. TestedSoFar'
    BY <1>1, <1>2, <2>1, <2>2, SchedAssumption, EndOfMemory, CodeBelow DEF PaeLimit,
       TypeOK, Together, SameCopy, Decided, MasterSelected, MasterReady, WinNext,
       OutsideCode, SetupDue, TestedSoFar, Free, Testing, Exit, House, Reachable, Due,
       InHand, Pages, Limit, Deciding
  <2> QED
    BY <2>3, <2>4, <2>5, <2>6, <2>7, <2>8, <2>9, <2>10, <2>11, <2>12 DEF IInv
<1>3. CASE SkipWindow0(c)
  <2>1. \A d \in CPU : pc[d] \in Deciding
    BY <1>1, <1>3 DEF SkipWindow0, Together, Free, Testing, Exit, House, Deciding, Moving
  <2>2. TypeOK'
    BY <1>1, <1>3, <2>1, SchedAssumption, EndOfMemory DEF SkipWindow0, TypeOK, Together,
       Lines, CPU, Free, Testing, Exit, House, Deciding
  <2>3. Together'
    BY <1>1, <1>3, <2>1 DEF SkipWindow0, TypeOK, Together, SameCopy, Decided,
       MasterSelected, MasterReady, WinNext, OutsideCode, SetupDue, TestedSoFar, Free,
       Testing, Exit, House, Deciding, Deciding
  <2>4. SameCopy'
    BY <1>1, <1>3, <2>1 DEF SkipWindow0, TypeOK, Together, SameCopy, Decided, MasterSelected, MasterReady, WinNext, OutsideCode, SetupDue, TestedSoFar, Free, Testing, Exit, House, Deciding
  <2>5. Decided'
    BY <1>1, <1>3, <2>1 DEF SkipWindow0, TypeOK, Together, SameCopy, Decided, MasterSelected, MasterReady, WinNext, OutsideCode, SetupDue, TestedSoFar, Free, Testing, Exit, House, Skips, Deciding
  <2>6. MasterSelected'
    BY <1>1, <1>3, <2>1 DEF SkipWindow0, TypeOK, Together, SameCopy, Decided, MasterSelected, MasterReady, WinNext, OutsideCode, SetupDue, TestedSoFar, Free, Testing, Exit, House, Deciding
  <2>7. MasterReady'
    BY <1>1, <1>3, <2>1 DEF SkipWindow0, TypeOK, Together, SameCopy, Decided,
       MasterSelected, MasterReady, WinNext, OutsideCode, SetupDue, TestedSoFar, Free,
       Testing, Exit, House, Deciding
  <2>8. WinNext'
    BY <1>1, <1>3, <2>1, SchedAssumption, EndOfMemory, CodeBelow DEF SkipWindow0,
       TypeOK, Together, SameCopy, Decided, MasterSelected, MasterReady, WinNext,
       OutsideCode, SetupDue, TestedSoFar, Free, Testing, Exit, House, Skips, Deciding
  <2>9. OutsideCode'
    BY <1>1, <1>3, <2>1, SchedAssumption, CodeBelow DEF SkipWindow0, TypeOK, Together, SameCopy, Decided, MasterSelected, MasterReady, WinNext, OutsideCode, SetupDue, TestedSoFar, Free, Testing, Exit, House, Deciding
  <2>10. SetupDue'
    BY <1>1, <1>3, <2>1, SchedAssumption DEF SkipWindow0, TypeOK, Together, SameCopy, Decided, MasterSelected, MasterReady, WinNext, OutsideCode, SetupDue, TestedSoFar, Free, Testing, Exit, House, Deciding
  <2>11. TestedSoFar'
    BY <1>1, <1>3, <2>1, SchedAssumption, EndOfMemory, CodeBelow DEF SkipWindow0,
       TypeOK, Together, SameCopy, Decided, MasterSelected, MasterReady, WinNext,
       OutsideCode, SetupDue, TestedSoFar, Free, Testing, Exit, House, Reachable, Due,
       InHand, Pages, Deciding
  <2> QED
    BY <2>2, <2>3, <2>4, <2>5, <2>6, <2>7, <2>8, <2>9, <2>10, <2>11 DEF IInv
<1>4. CASE SetWindow1(c)
  <2>1. \A d \in CPU : pc[d] \in Deciding
    BY <1>1, <1>4 DEF SetWindow1, Together, Free, Testing, Exit, House, Deciding, Moving
  <2>2. TypeOK'
    BY <1>1, <1>4, <2>1, SchedAssumption, EndOfMemory DEF SetWindow1, TypeOK, Together,
       Lines, CPU, Free, Testing, Exit, House, Deciding
  <2>3. Together'
    BY <1>1, <1>4, <2>1 DEF SetWindow1, TypeOK, Together, SameCopy, Decided,
       MasterSelected, MasterReady, WinNext, OutsideCode, SetupDue, TestedSoFar, Free,
       Testing, Exit, House, Deciding, Deciding
  <2>4. SameCopy'
    BY <1>1, <1>4, <2>1 DEF SetWindow1, TypeOK, Together, SameCopy, Decided, MasterSelected, MasterReady, WinNext, OutsideCode, SetupDue, TestedSoFar, Free, Testing, Exit, House, Deciding
  <2>5. Decided'
    BY <1>1, <1>4, <2>1 DEF SetWindow1, TypeOK, Together, SameCopy, Decided, MasterSelected, MasterReady, WinNext, OutsideCode, SetupDue, TestedSoFar, Free, Testing, Exit, House, Skips, Deciding
  <2>6. MasterSelected'
    BY <1>1, <1>4, <2>1 DEF SetWindow1, TypeOK, Together, SameCopy, Decided, MasterSelected, MasterReady, WinNext, OutsideCode, SetupDue, TestedSoFar, Free, Testing, Exit, House, Deciding
  <2>7. MasterReady'
    BY <1>1, <1>4, <2>1 DEF SetWindow1, TypeOK, Together, SameCopy, Decided,
       MasterSelected, MasterReady, WinNext, OutsideCode, SetupDue, TestedSoFar, Free,
       Testing, Exit, House, Deciding
  <2>8. WinNext'
    BY <1>1, <1>4, <2>1, SchedAssumption, EndOfMemory, CodeBelow DEF SetWindow1, TypeOK,
       Together, SameCopy, Decided, MasterSelected, MasterReady, WinNext, OutsideCode,
       SetupDue, TestedSoFar, Free, Testing, Exit, House, Skips, Deciding
  <2>9. OutsideCode'
    BY <1>1, <1>4, <2>1, SchedAssumption, CodeBelow DEF SetWindow1, TypeOK, Together, SameCopy, Decided, MasterSelected, MasterReady, WinNext, OutsideCode, SetupDue, TestedSoFar, Free, Testing, Exit, House, Deciding
  <2>10. SetupDue'
    BY <1>1, <1>4, <2>1, SchedAssumption DEF SetWindow1, TypeOK, Together, SameCopy, Decided, MasterSelected, MasterReady, WinNext, OutsideCode, SetupDue, TestedSoFar, Free, Testing, Exit, House, Deciding
  <2>11. TestedSoFar'
    BY <1>1, <1>4, <2>1, SchedAssumption, EndOfMemory, CodeBelow DEF SetWindow1, TypeOK,
       Together, SameCopy, Decided, MasterSelected, MasterReady, WinNext, OutsideCode,
       SetupDue, TestedSoFar, Free, Testing, Exit, House, Reachable, Due, Pages,
       Deciding
  <2> QED
    BY <2>2, <2>3, <2>4, <2>5, <2>6, <2>7, <2>8, <2>9, <2>10, <2>11 DEF IInv
<1>5. CASE Relocate(c)
  <2>1. \A d \in CPU : pc[d] \in Deciding
    BY <1>1, <1>5 DEF Relocate, Together, Free, Testing, Exit, House, Deciding, Moving
  <2>2. TypeOK'
    BY <1>1, <1>5, Releases, SchedAssumption DEF Relocate, TypeOK, Lines, Testing, CPU
  <2>3. Together'
    BY <1>1, <1>5, <2>1 DEF Relocate, TypeOK, Together, Testing, House, Deciding,
       Moving, Deciding
  <2>4. SameCopy'
    BY <1>1, <1>5, <2>1 DEF Relocate, TypeOK, Together, SameCopy, Decided, MasterSelected, MasterReady, WinNext, OutsideCode, SetupDue, TestedSoFar, Free, Testing, Exit, House, Deciding
  <2>5. Decided'
    BY <1>1, <1>5, <2>1 DEF Relocate, TypeOK, Together, SameCopy, Decided, MasterSelected, MasterReady, WinNext, OutsideCode, SetupDue, TestedSoFar, Free, Testing, Exit, House, Skips, Deciding
  <2>6. MasterSelected'
    BY <1>1, <1>5, <2>1 DEF Relocate, TypeOK, Together, SameCopy, Decided, MasterSelected, MasterReady, WinNext, OutsideCode, SetupDue, TestedSoFar, Free, Testing, Exit, House, Deciding
  <2>7. MasterReady'
    BY <1>1, <1>5, <2>1 DEF Relocate, TypeOK, Together, SameCopy, Decided,
       MasterSelected, MasterReady, WinNext, OutsideCode, SetupDue, TestedSoFar, Free,
       Testing, Exit, House, Deciding
  <2>8. WinNext'
    BY <1>1, <1>5, <2>1, SchedAssumption, EndOfMemory, CodeBelow DEF Relocate, TypeOK,
       Together, SameCopy, Decided, MasterSelected, MasterReady, WinNext, OutsideCode,
       SetupDue, TestedSoFar, Free, Testing, Exit, House, Skips, Deciding
  <2>9. OutsideCode'
    BY <1>1, <1>5, <2>1, SchedAssumption, CodeBelow DEF Relocate, TypeOK, Together, SameCopy, Decided, MasterSelected, MasterReady, WinNext, OutsideCode, SetupDue, TestedSoFar, Free, Testing, Exit, House, Deciding
  <2>10. SetupDue'
    BY <1>1, <1>5, <2>1, SchedAssumption DEF Relocate, TypeOK, Together, SameCopy, Decided, MasterSelected, MasterReady, WinNext, OutsideCode, SetupDue, TestedSoFar, Free, Testing, Exit, House, Deciding
  <2>11. TestedSoFar'
    BY <1>1, <1>5, <2>1, SchedAssumption, EndOfMemory, CodeBelow DEF Relocate, TypeOK,
       Together, SameCopy, Decided, MasterSelected, MasterReady, WinNext, OutsideCode,
       SetupDue, TestedSoFar, Free, Testing, Exit, House, Reachable, Due, InHand, Pages,
       Deciding
  <2> QED
    BY <2>2, <2>3, <2>4, <2>5, <2>6, <2>7, <2>8, <2>9, <2>10, <2>11 DEF IInv
<1>6. CASE Select(c)
  <2>1. \A d \in CPU : pc[d] \in Deciding
    BY <1>1, <1>6 DEF Select, Together, Free, Testing, Exit, House, Deciding, Moving
  <2>2. TypeOK'
    BY <1>1, <1>6, Releases, SchedAssumption DEF Select, TypeOK, Lines, Testing, CPU
  <2>3. Together'
    BY <1>1, <1>6, <2>1 DEF Select, TypeOK, Together, Testing, House, Deciding, Moving,
       Deciding
  <2>4. SameCopy'
    BY <1>1, <1>6, <2>1 DEF Select, TypeOK, Together, SameCopy, Decided, MasterSelected, MasterReady, WinNext, OutsideCode, SetupDue, TestedSoFar, Free, Testing, Exit, House, Deciding
  <2>5. Decided'
    BY <1>1, <1>6, <2>1 DEF Select, TypeOK, Together, SameCopy, Decided, MasterSelected, MasterReady, WinNext, OutsideCode, SetupDue, TestedSoFar, Free, Testing, Exit, House, Skips, Deciding
  <2>6. MasterSelected'
    <3>1. /\ run'[c] <=> c = cpu_sel
          /\ pc'[c] = "barrier534" /\ cpu_sel' = cpu_sel
          /\ mstr_cpu' = IF c = cpu_sel THEN cpu_sel ELSE mstr_cpu
          /\ \A d \in CPU : d # c => pc'[d] = pc[d] /\ run'[d] = run[d]
      BY <1>1, <1>6 DEF Select, TypeOK
    <3>2. \A d \in CPU : pc[d] \notin Testing \cup House \cup {"selected546"}
      BY <2>1 DEF Deciding, Testing, House
    <3>3. ASSUME NEW d \in CPU, d # c
          PROVE  /\ pc'[d] \in {"barrier534", "barrier543"} =>
                      (run'[d] <=> d = cpu_sel') /\ (d = cpu_sel' => mstr_cpu' = d)
                 /\ ~(pc'[d] = "selected546") /\ pc'[d] \notin Testing \cup House
      BY <1>1, <3>1, <3>2, <3>3 DEF MasterSelected
    <3>4. pc'[c] \notin Testing \cup House \cup {"selected546"}
      BY <3>1 DEF Testing, House
    <3> QED
      BY <3>1, <3>3, <3>4 DEF MasterSelected
  <2>7. MasterReady'
    BY <1>1, <1>6, <2>1 DEF Select, MasterSelected, MasterReady, Testing, Exit, House,
       Skips, Deciding
  <2>8. WinNext'
    BY <1>1, <1>6, <2>1, SchedAssumption, EndOfMemory, CodeBelow DEF Select, TypeOK,
       Together, SameCopy, Decided, MasterSelected, MasterReady, WinNext, OutsideCode,
       SetupDue, TestedSoFar, Free, Testing, Exit, House, Skips, Deciding
  <2>9. OutsideCode'
    BY <1>1, <1>6, <2>1, SchedAssumption, CodeBelow DEF Select, TypeOK, Together, SameCopy, Decided, MasterSelected, MasterReady, WinNext, OutsideCode, SetupDue, TestedSoFar, Free, Testing, Exit, House, Deciding
  <2>10. SetupDue'
    BY <1>1, <1>6, <2>1, SchedAssumption DEF Select, TypeOK, Together, SameCopy, Decided, MasterSelected, MasterReady, WinNext, OutsideCode, SetupDue, TestedSoFar, Free, Testing, Exit, House, Deciding
  <2>11. TestedSoFar'
    BY <1>1, <1>6, <2>1, SchedAssumption, EndOfMemory, CodeBelow DEF Select, TypeOK,
       Together, SameCopy, Decided, MasterSelected, MasterReady, WinNext, OutsideCode,
       SetupDue, TestedSoFar, Free, Testing, Exit, House, Reachable, Due, InHand, Pages,
       Deciding
  <2> QED
    BY <2>2, <2>3, <2>4, <2>5, <2>6, <2>7, <2>8, <2>9, <2>10, <2>11 DEF IInv
<1> QED
  BY <1>2, <1>3, <1>4, <1>5, <1>6

\* While the CPUs jump to the other copy.
LEMMA MovingSteps ==
  ASSUME BelowPaeLimit, IInv, NEW c \in CPU, UNCHANGED mapLimit,
         Jump(c) \/ Restart(c)
  PROVE  IInv'
<1> USE DEF BelowPaeLimit
<1>1. TypeOK /\ Together /\ SameCopy /\ Decided /\ MasterSelected /\ MasterReady /\ WinNext /\ OutsideCode /\ SetupDue /\ TestedSoFar
  BY DEF IInv
<1>2. CASE Jump(c)
  <2>1. \A d \in CPU : pc[d] \in Moving
    BY <1>1, <1>2 DEF Jump, Together, Free, Testing, Exit, House, Deciding, Moving
  <2>2. TypeOK'
    <3>1. loc' \in [CPU -> DOMAIN CodePage]
      BY <1>1, <1>2, CodeBelow DEF Jump, TypeOK
    <3>2. pc' \in [CPU -> Lines]
      BY <1>1, <1>2 DEF Jump, TypeOK, Lines
    <3> QED
      BY <1>1, <1>2, <3>1, <3>2 DEF Jump, TypeOK
  <2>3. Together'
    BY <1>1, <1>2, <2>1 DEF Jump, TypeOK, Together, Testing, House, Deciding, Moving,
       Moving
  <2>4. SameCopy'
    <3>1. /\ loc[c] \in {"low", "high"} /\ \A d \in CPU : loc[d] \in {"low", "high"}
          /\ loc'[c] = IF loc[c] = "low" THEN "high" ELSE "low"
          /\ \A d \in CPU : d # c => loc'[d] = loc[d] /\ pc'[d] = pc[d]
          /\ pc[c] = "mutex194" /\ pc'[c] = "unlock369"
      BY <1>1, <1>2, CodeBelow DEF Jump, TypeOK
    <3> QED
      BY <1>1, <3>1 DEF SameCopy
  <2>5. Decided'
    BY <1>1, <1>2, <2>1 DEF Jump, SameCopy, Decided, Testing, Exit, House, Skips, Moving
  <2>6. MasterSelected'
    BY <1>1, <1>2, <2>1 DEF Jump, TypeOK, Together, SameCopy, Decided, MasterSelected, MasterReady, WinNext, OutsideCode, SetupDue, TestedSoFar, Free, Testing, Exit, House, Moving
  <2>7. MasterReady'
    BY <1>1, <1>2, <2>1 DEF Jump, TypeOK, Together, SameCopy, Decided, MasterSelected,
       MasterReady, WinNext, OutsideCode, SetupDue, TestedSoFar, Free, Testing, Exit,
       House, Moving
  <2>8. WinNext'
    BY <1>1, <1>2, <2>1, SchedAssumption, EndOfMemory, CodeBelow DEF Jump, TypeOK,
       Together, SameCopy, Decided, MasterSelected, MasterReady, WinNext, OutsideCode,
       SetupDue, TestedSoFar, Free, Testing, Exit, House, Skips, Moving
  <2>9. OutsideCode'
    BY <1>1, <1>2, <2>1, SchedAssumption, CodeBelow DEF Jump, TypeOK, Together, SameCopy, Decided, MasterSelected, MasterReady, WinNext, OutsideCode, SetupDue, TestedSoFar, Free, Testing, Exit, House, Moving
  <2>10. SetupDue'
    BY <1>1, <1>2, <2>1, SchedAssumption DEF Jump, TypeOK, Together, SameCopy, Decided, MasterSelected, MasterReady, WinNext, OutsideCode, SetupDue, TestedSoFar, Free, Testing, Exit, House, Moving
  <2>11. TestedSoFar'
    BY <1>1, <1>2, <2>1, SchedAssumption, EndOfMemory, CodeBelow DEF Jump, TypeOK,
       Together, SameCopy, Decided, MasterSelected, MasterReady, WinNext, OutsideCode,
       SetupDue, TestedSoFar, Free, Testing, Exit, House, Reachable, Due, InHand, Pages,
       Moving
  <2> QED
    BY <2>2, <2>3, <2>4, <2>5, <2>6, <2>7, <2>8, <2>9, <2>10, <2>11 DEF IInv
<1>3. CASE Restart(c)
  <2>1. \A d \in CPU : pc[d] \in Moving
    BY <1>1, <1>3 DEF Restart, Together, Free, Testing, Exit, House, Deciding, Moving
  <2>2. TypeOK'
    BY <1>1, <1>3, Releases, SchedAssumption DEF Restart, TypeOK, Lines, Testing, CPU
  <2>3. Together'
    BY <1>1, <1>3, <2>1 DEF Restart, TypeOK, Together, Testing, House, Deciding, Moving,
       Moving
  <2>4. SameCopy'
    BY <1>1, <1>3, <2>1 DEF Restart, TypeOK, Together, SameCopy, Decided, MasterSelected, MasterReady, WinNext, OutsideCode, SetupDue, TestedSoFar, Free, Testing, Exit, House, Moving
  <2>5. Decided'
    BY <1>1, <1>3, <2>1 DEF Restart, TypeOK, Together, SameCopy, Decided,
       MasterSelected, MasterReady, WinNext, OutsideCode, SetupDue, TestedSoFar, Free,
       Testing, Exit, House, Moving
  <2>6. MasterSelected'
    BY <1>1, <1>3, <2>1 DEF Restart, TypeOK, Together, SameCopy, Decided, MasterSelected, MasterReady, WinNext, OutsideCode, SetupDue, TestedSoFar, Free, Testing, Exit, House, Moving
  <2>7. MasterReady'
    BY <1>1, <1>3, <2>1 DEF Restart, TypeOK, Together, SameCopy, Decided,
       MasterSelected, MasterReady, WinNext, OutsideCode, SetupDue, TestedSoFar, Free,
       Testing, Exit, House, Moving
  <2>8. WinNext'
    BY <1>1, <1>3, <2>1, SchedAssumption, EndOfMemory, CodeBelow DEF Restart, TypeOK,
       Together, SameCopy, Decided, MasterSelected, MasterReady, WinNext, OutsideCode,
       SetupDue, TestedSoFar, Free, Testing, Exit, House, Skips, Moving
  <2>9. OutsideCode'
    BY <1>1, <1>3, <2>1, SchedAssumption, CodeBelow DEF Restart, TypeOK, Together, SameCopy, Decided, MasterSelected, MasterReady, WinNext, OutsideCode, SetupDue, TestedSoFar, Free, Testing, Exit, House, Moving
  <2>10. SetupDue'
    BY <1>1, <1>3, <2>1, SchedAssumption DEF Restart, TypeOK, Together, SameCopy, Decided, MasterSelected, MasterReady, WinNext, OutsideCode, SetupDue, TestedSoFar, Free, Testing, Exit, House, Moving
  <2>11. TestedSoFar'
    BY <1>1, <1>3, <2>1, SchedAssumption, EndOfMemory, CodeBelow DEF Restart, TypeOK,
       Together, SameCopy, Decided, MasterSelected, MasterReady, WinNext, OutsideCode,
       SetupDue, TestedSoFar, Free, Testing, Exit, House, Reachable, Due, InHand, Pages,
       Moving
  <2> QED
    BY <2>2, <2>3, <2>4, <2>5, <2>6, <2>7, <2>8, <2>9, <2>10, <2>11 DEF IInv
<1> QED
  BY <1>2, <1>3

\* barrier() lets go when all CPUs are in the same call of it.
LEMMA Agreement ==
  ASSUME IInv
  PROVE  PhaseAgreement
<1>1. Together /\ SameCopy /\ Decided
  BY DEF IInv
<1> SUFFICES ASSUME NEW c \in CPU, NEW d \in CPU, InBarrier(c), InBarrier(d)
             PROVE  pc[c] = pc[d]
  BY DEF PhaseAgreement
<1>2. CASE \A e \in CPU : pc[e] \in Free
  BY <1>2, Releases DEF InBarrier, Free, Testing, Exit, House
<1>3. CASE \A e \in CPU : pc[e] \in Deciding
  <2>1. /\ pc[c] \in {"barrier534", "barrier189"} /\ pc[d] \in {"barrier534", "barrier189"}
        /\ loc[c] = loc[d]
    BY <1>1, <1>3, Releases DEF InBarrier, Deciding, SameCopy
  <2> QED
    BY <1>1, <2>1 DEF Decided
<1>4. CASE \A e \in CPU : pc[e] = "barrier543"
  BY <1>4
<1>5. CASE \A e \in CPU : pc[e] \in Moving
  BY <1>5, Releases DEF InBarrier, Moving
<1> QED
  BY <1>1, <1>2, <1>3, <1>4, <1>5 DEF Together

\* A release of the barrier takes all CPUs from one line to the next.
LEMMA BarrierStep ==
  ASSUME IInv, Barrier
  PROVE  IInv'
<1>1. TypeOK /\ Together /\ SameCopy /\ Decided /\ MasterSelected /\ MasterReady /\ WinNext /\ OutsideCode /\ SetupDue /\ TestedSoFar
  BY DEF IInv
<1>2. PICK b \in DOMAIN AfterBarrier : \A c \in CPU : pc[c] = b /\ pc'[c] = AfterBarrier[b]
  <2>1. 0 \in CPU
    BY SchedAssumption DEF CPU
  <2>2. \A c \in CPU : pc[c] = pc[0]
    BY <2>1, Agreement DEF Barrier, PhaseAgreement
  <2>3. \A c \in CPU : pc'[c] = AfterBarrier[pc[0]]
    BY <2>2 DEF Barrier
  <2> QED
    BY <2>1, <2>2, <2>3 DEF Barrier, InBarrier
<1>3. pc' \in [CPU -> Lines]
  BY <1>2, Releases DEF Barrier, Lines
<1>4. UNCHANGED <<cpuVars, mapLimit, globals, tested>> /\ mstr_cpu \in CPU
  BY <1>1 DEF Barrier, TypeOK
<1>5. TypeOK'
  BY <1>1, <1>3, <1>4 DEF TypeOK
<1>6. CASE b = "barrier464"
  <2>1. /\ \A c \in CPU : pc[c] = "barrier464" /\ pc'[c] = "limit467"
        /\ cpu_sel \in CPU
    BY <1>1, <1>2, <1>6, Releases DEF TypeOK
  <2>2. Together'
    BY <1>1, <1>4, <2>1 DEF TypeOK, Together, Testing, Deciding, Moving, Deciding,
       Moving
  <2>3. SameCopy'
    BY <1>1, <1>4, <2>1 DEF SameCopy, Decided, MasterSelected, MasterReady, WinNext,
       OutsideCode, SetupDue, TestedSoFar, Free, Testing, Exit, House, Deciding, Moving
  <2>4. Decided'
    BY <1>1, <1>4, <2>1 DEF SameCopy, Decided, MasterSelected, MasterReady, WinNext,
       OutsideCode, SetupDue, TestedSoFar, Free, Testing, Exit, House, Deciding, Moving
  <2>5. MasterSelected'
    BY <1>1, <1>4, <2>1 DEF MasterSelected, MasterReady, WinNext, OutsideCode, SetupDue,
       TestedSoFar, Free, Testing, Exit, House, Deciding, Moving
  <2>6. MasterReady'
    BY <1>1, <1>4, <2>1 DEF MasterSelected, MasterReady, WinNext, OutsideCode, SetupDue,
       TestedSoFar, Free, Testing, Exit, House, Deciding, Moving
  <2>7. WinNext'
    BY <1>1, <1>4, <2>1, SchedAssumption, EndOfMemory, CodeBelow DEF MasterSelected,
       MasterReady, WinNext, OutsideCode, SetupDue, TestedSoFar, Free, Testing, Exit,
       House, Skips, Deciding, Moving
  <2>8. OutsideCode'
    BY <1>1, <1>4, <2>1, SchedAssumption, CodeBelow DEF WinNext, OutsideCode, SetupDue,
       TestedSoFar, Free, Testing, Exit, House, Deciding, Moving
  <2>9. SetupDue'
    BY <1>1, <1>4, <2>1, SchedAssumption DEF SetupDue, TestedSoFar, Free, Testing, Exit,
       House, Deciding, Moving
  <2>10. TestedSoFar'
    BY <1>1, <1>4, <2>1, SchedAssumption, EndOfMemory, CodeBelow DEF TypeOK, Together,
       SameCopy, Decided, MasterSelected, MasterReady, WinNext, OutsideCode, SetupDue,
       TestedSoFar, Free, Testing, Exit, House, Reachable, Due, InHand, Pages, Deciding,
       Moving
  <2> QED
    BY <1>5, <2>2, <2>3, <2>4, <2>5, <2>6, <2>7, <2>8, <2>9, <2>10 DEF IInv
<1>7. CASE b = "barrier534"
  <2>1. /\ \A c \in CPU : pc[c] = "barrier534" /\ pc'[c] = "barrier543"
        /\ cpu_sel \in CPU
    BY <1>1, <1>2, <1>7, Releases DEF TypeOK
  <2>2. Together'
    BY <1>1, <1>4, <2>1 DEF Together
  <2>3. SameCopy'
    BY <1>1, <1>4, <2>1 DEF SameCopy, Decided, MasterSelected, MasterReady, WinNext,
       OutsideCode, SetupDue, TestedSoFar, Free, Testing, Exit, House, Deciding, Moving
  <2>4. Decided'
    BY <1>1, <1>4, <2>1 DEF SameCopy, Decided, MasterSelected, MasterReady, WinNext,
       OutsideCode, SetupDue, TestedSoFar, Free, Testing, Exit, House, Skips, Deciding,
       Moving
  <2>5. MasterSelected'
    BY <1>1, <1>4, <2>1 DEF MasterSelected, MasterReady, WinNext, OutsideCode, SetupDue,
       TestedSoFar, Free, Testing, Exit, House, Deciding, Moving
  <2>6. MasterReady'
    BY <1>1, <1>4, <2>1 DEF MasterSelected, MasterReady, WinNext, OutsideCode, SetupDue,
       TestedSoFar, Free, Testing, Exit, House, Deciding, Moving
  <2>7. WinNext'
    BY <1>1, <1>4, <2>1, SchedAssumption, EndOfMemory, CodeBelow DEF MasterSelected,
       MasterReady, WinNext, OutsideCode, SetupDue, TestedSoFar, Free, Testing, Exit,
       House, Skips, Deciding, Moving
  <2>8. OutsideCode'
    BY <1>1, <1>4, <2>1, SchedAssumption, CodeBelow DEF WinNext, OutsideCode, SetupDue,
       TestedSoFar, Free, Testing, Exit, House, Deciding, Moving
  <2>9. SetupDue'
    BY <1>1, <1>4, <2>1, SchedAssumption DEF SetupDue, TestedSoFar, Free, Testing, Exit,
       House, Deciding, Moving
  <2>10. TestedSoFar'
    BY <1>1, <1>4, <2>1, SchedAssumption, EndOfMemory, CodeBelow DEF TypeOK, Together,
       SameCopy, Decided, MasterSelected, MasterReady, WinNext, OutsideCode, SetupDue,
       TestedSoFar, Free, Testing, Exit, House, Reachable, Due, InHand, Pages, Deciding,
       Moving
  <2> QED
    BY <1>5, <2>2, <2>3, <2>4, <2>5, <2>6, <2>7, <2>8, <2>9, <2>10 DEF IInv
<1>8. CASE b = "barrier543"
  <2>1. /\ \A c \in CPU : pc[c] = "barrier543" /\ pc'[c] = "selected546"
        /\ cpu_sel \in CPU
    BY <1>1, <1>2, <1>8, Releases DEF TypeOK
  <2>2. Together'
    BY <1>1, <1>4, <2>1 DEF TypeOK, Together, TestedSoFar, Free, Testing, Exit, House,
       Deciding, Moving, Deciding, Moving
  <2>3. SameCopy'
    BY <1>1, <1>4, <2>1 DEF SameCopy, Decided, MasterSelected, MasterReady, WinNext,
       OutsideCode, SetupDue, TestedSoFar, Free, Testing, Exit, House, Deciding, Moving
  <2>4. Decided'
    BY <1>1, <1>4, <2>1 DEF SameCopy, Decided, MasterSelected, MasterReady, WinNext,
       OutsideCode, SetupDue, TestedSoFar, Free, Testing, Exit, House, Deciding, Moving
  <2>5. MasterSelected'
    BY <1>1, <1>4, <2>1 DEF MasterSelected, MasterReady, WinNext, OutsideCode, SetupDue,
       TestedSoFar, Free, Testing, Exit, House, Deciding, Moving
  <2>6. MasterReady'
    BY <1>1, <1>4, <2>1 DEF SameCopy, Decided, MasterSelected, MasterReady, WinNext,
       OutsideCode, SetupDue, TestedSoFar, Free, Testing, Exit, House, Skips, Deciding,
       Moving
  <2>7. WinNext'
    BY <1>1, <1>4, <2>1, SchedAssumption, EndOfMemory, CodeBelow DEF MasterSelected,
       MasterReady, WinNext, OutsideCode, SetupDue, TestedSoFar, Free, Testing, Exit,
       House, Skips, Deciding, Moving
  <2>8. OutsideCode'
    BY <1>1, <1>4, <2>1, SchedAssumption, CodeBelow DEF WinNext, OutsideCode, SetupDue,
       TestedSoFar, Free, Testing, Exit, House, Deciding, Moving
  <2>9. SetupDue'
    BY <1>1, <1>4, <2>1, SchedAssumption DEF SetupDue, TestedSoFar, Free, Testing, Exit,
       House, Deciding, Moving
  <2>10. TestedSoFar'
    BY <1>1, <1>4, <2>1, SchedAssumption, EndOfMemory, CodeBelow DEF TypeOK, Together,
       SameCopy, Decided, MasterSelected, MasterReady, WinNext, OutsideCode, SetupDue,
       TestedSoFar, Free, Testing, Exit, House, Reachable, Due, InHand, Pages, Deciding,
       Moving
  <2> QED
    BY <1>5, <2>2, <2>3, <2>4, <2>5, <2>6, <2>7, <2>8, <2>9, <2>10 DEF IInv
<1>9. CASE b = "barrier189"
  <2>1. /\ \A c \in CPU : pc[c] = "barrier189" /\ pc'[c] = "mutex194"
        /\ cpu_sel \in CPU
    BY <1>1, <1>2, <1>9, Releases DEF TypeOK
  <2>2. Together'
    BY <1>1, <1>4, <2>1 DEF TypeOK, Together, Testing, Deciding, Moving, Deciding,
       Moving
  <2>3. SameCopy'
    BY <1>1, <1>4, <2>1 DEF SameCopy, Decided, MasterSelected, MasterReady, WinNext,
       OutsideCode, SetupDue, TestedSoFar, Free, Testing, Exit, House, Deciding, Moving
  <2>4. Decided'
    BY <1>1, <1>4, <2>1 DEF SameCopy, Decided, MasterSelected, MasterReady, WinNext,
       OutsideCode, SetupDue, TestedSoFar, Free, Testing, Exit, House, Deciding, Moving
  <2>5. MasterSelected'
    BY <1>1, <1>4, <2>1 DEF MasterSelected, MasterReady, WinNext, OutsideCode, SetupDue,
       TestedSoFar, Free, Testing, Exit, House, Deciding, Moving
  <2>6. MasterReady'
    BY <1>1, <1>4, <2>1 DEF MasterSelected, MasterReady, WinNext, OutsideCode, SetupDue,
       TestedSoFar, Free, Testing, Exit, House, Deciding, Moving
  <2>7. WinNext'
    BY <1>1, <1>4, <2>1, SchedAssumption, EndOfMemory, CodeBelow DEF MasterSelected,
       MasterReady, WinNext, OutsideCode, SetupDue, TestedSoFar, Free, Testing, Exit,
       House, Skips, Deciding, Moving
  <2>8. OutsideCode'
    BY <1>1, <1>4, <2>1, SchedAssumption, CodeBelow DEF WinNext, OutsideCode, SetupDue,
       TestedSoFar, Free, Testing, Exit, House, Deciding, Moving
  <2>9. SetupDue'
    BY <1>1, <1>4, <2>1, SchedAssumption DEF SetupDue, TestedSoFar, Free, Testing, Exit,
       House, Deciding, Moving
  <2>10. TestedSoFar'
    BY <1>1, <1>4, <2>1, SchedAssumption, EndOfMemory, CodeBelow DEF TypeOK, Together,
       SameCopy, Decided, MasterSelected, MasterReady, WinNext, OutsideCode, SetupDue,
       TestedSoFar, Free, Testing, Exit, House, Reachable, Due, InHand, Pages, Deciding,
       Moving
  <2> QED
    BY <1>5, <2>2, <2>3, <2>4, <2>5, <2>6, <2>7, <2>8, <2>9, <2>10 DEF IInv
<1>10. CASE b = "barrier377"
  <2>1. /\ \A c \in CPU : pc[c] = "barrier377" /\ pc'[c] = "top441"
        /\ cpu_sel \in CPU
    BY <1>1, <1>2, <1>10, Releases DEF TypeOK
  <2>2. Together'
    BY <1>1, <1>4, <2>1 DEF TypeOK, Together, TestedSoFar, Free, Testing, Exit, House,
       Deciding, Moving, Deciding, Moving
  <2>3. SameCopy'
    BY <1>1, <1>4, <2>1 DEF SameCopy, Decided, MasterSelected, MasterReady, WinNext,
       OutsideCode, SetupDue, TestedSoFar, Free, Testing, Exit, House, Deciding, Moving
  <2>4. Decided'
    BY <1>1, <1>4, <2>1 DEF SameCopy, Decided, MasterSelected, MasterReady, WinNext,
       OutsideCode, SetupDue, TestedSoFar, Free, Testing, Exit, House, Deciding, Moving
  <2>5. MasterSelected'
    BY <1>1, <1>4, <2>1 DEF MasterSelected, MasterReady, WinNext, OutsideCode, SetupDue,
       TestedSoFar, Free, Testing, Exit, House, Deciding, Moving
  <2>6. MasterReady'
    BY <1>1, <1>4, <2>1 DEF MasterSelected, MasterReady, WinNext, OutsideCode, SetupDue,
       TestedSoFar, Free, Testing, Exit, House, Deciding, Moving
  <2>7. WinNext'
    BY <1>1, <1>4, <2>1, SchedAssumption, EndOfMemory, CodeBelow DEF MasterSelected,
       MasterReady, WinNext, OutsideCode, SetupDue, TestedSoFar, Free, Testing, Exit,
       House, Skips, Deciding, Moving
  <2>8. OutsideCode'
    BY <1>1, <1>4, <2>1, SchedAssumption, CodeBelow DEF WinNext, OutsideCode, SetupDue,
       TestedSoFar, Free, Testing, Exit, House, Deciding, Moving
  <2>9. SetupDue'
    BY <1>1, <1>4, <2>1, SchedAssumption DEF SetupDue, TestedSoFar, Free, Testing, Exit,
       House, Deciding, Moving
  <2>10. TestedSoFar'
    BY <1>1, <1>4, <2>1, SchedAssumption, EndOfMemory, CodeBelow DEF TypeOK, Together,
       SameCopy, Decided, MasterSelected, MasterReady, WinNext, OutsideCode, SetupDue,
       TestedSoFar, Free, Testing, Exit, House, Reachable, Due, InHand, Pages, Deciding,
       Moving
  <2> QED
    BY <1>5, <2>2, <2>3, <2>4, <2>5, <2>6, <2>7, <2>8, <2>9, <2>10 DEF IInv
<1> QED
  BY <1>6, <1>7, <1>8, <1>9, <1>10, Releases

\* Every step keeps the invariant.
LEMMA StepIInv ==
  ASSUME BelowPaeLimit, IInv, [Next]_vars
  PROVE  IInv'
<1>1. CASE Barrier
  BY <1>1, BarrierStep
<1>2. CASE UNCHANGED vars
  <2>1. TypeOK /\ Together /\ SameCopy /\ Decided /\ MasterSelected /\ MasterReady /\ WinNext /\ OutsideCode /\ SetupDue /\ TestedSoFar
    BY DEF IInv
  <2>2. TypeOK'
    BY <1>2, <2>1 DEF TypeOK
  <2>3. Together'
    BY <1>2, <2>1 DEF Together
  <2>4. SameCopy'
    BY <1>2, <2>1 DEF SameCopy
  <2>5. Decided'
    BY <1>2, <2>1 DEF Decided, Skips
  <2>6. MasterSelected'
    BY <1>2, <2>1 DEF MasterSelected
  <2>7. MasterReady'
    BY <1>2, <2>1 DEF MasterReady, Skips
  <2>8. WinNext'
    BY <1>2, <2>1 DEF WinNext
  <2>9. OutsideCode'
    BY <1>2, <2>1 DEF OutsideCode
  <2>10. SetupDue'
    BY <1>2, <2>1 DEF SetupDue
  <2>11. TestedSoFar'
    BY <1>2, <2>1 DEF TestedSoFar, Reachable, Due, InHand
  <2> QED
    BY <2>2, <2>3, <2>4, <2>5, <2>6, <2>7, <2>8, <2>9, <2>10, <2>11 DEF IInv
<1>3. ASSUME NEW c \in CPU, Step(c) PROVE IInv'
  BY <1>3, FreeSteps, DecidingSteps, MovingSteps DEF Step
<1> QED
  BY <1>1, <1>2, <1>3 DEF Next, Halted

-----------------------------------------------------------------------------
(***************************************************************************)
(* The theorems.                                                           *)
(***************************************************************************)

\* The invariant holds of every state below the PAE limit.
THEOREM Invariance ==
  ASSUME BelowPaeLimit
  PROVE  Spec => []IInv
<1>1. Init => IInv
  BY InitIInv
<1>2. IInv /\ [Next]_vars => IInv'
  BY StepIInv
<1> QED
  BY <1>1, <1>2, PTL DEF Spec

\* All CPUs take the same branches of the window loop, on globals that others
\* are writing, so that barrier() never joins two of its calls; and at most
\* one CPU is the master.
THEOREM SchedulingAgreed ==
  ASSUME BelowPaeLimit
  PROVE  Spec => []SchedInv
<1>1. IInv => PhaseAgreement
  BY Agreement
<1>2. IInv => OneMaster
  BY DEF IInv, MasterSelected, OneMaster
<1>3. IInv => SchedInv
  BY <1>1, <1>2 DEF SchedInv
<1> QED
  BY <1>3, Invariance, PTL

\* No CPU's program is in the window that is tested.
THEOREM ProgramSpared ==
  ASSUME BelowPaeLimit
  PROVE  Spec => []NoSelfTest
<1>1. IInv => NoSelfTest
  BY DEF IInv, MasterSelected, OutsideCode, NoSelfTest, Testing
<1> QED
  BY <1>1, Invariance, PTL

\* Who tests has the set-up of the test it runs.
THEOREM TestSetUp ==
  ASSUME BelowPaeLimit
  PROVE  Spec => []SetupMatches
<1>1. IInv => SetupMatches
  BY DEF IInv, MasterSelected, SetupDue, SetupMatches, Testing
<1> QED
  BY <1>1, Invariance, PTL

\* No page that can be tested is left out of a round, whatever the window
\* bookkeeping of the CPUs that leave the loop early does.
THEOREM MemoryCovered ==
  ASSUME BelowPaeLimit
  PROVE  Spec => []Coverage
<1>1. IInv => Coverage
  BY DEF IInv, TestedSoFar, Coverage
<1> QED
  BY <1>1, Invariance, PTL

\* No global changes while CPU 0 copies the program.
LEMMA CopyingStep ==
  ASSUME IInv, [Next]_vars, pc[0] = "barrier189", pc'[0] = "barrier189"
  PROVE  UNCHANGED globals
<1>1. TypeOK /\ Together /\ SameCopy /\ Decided
  BY DEF IInv
<1>2. 0 \in CPU
  BY SchedAssumption DEF CPU
<1>3. \A d \in CPU : pc[d] \in Deciding
  BY <1>1, <1>2 DEF Together, Free, Testing, Exit, House, Moving
<1>4. CASE Barrier
  BY <1>4 DEF Barrier
<1>5. ASSUME NEW c \in CPU, Step(c) PROVE UNCHANGED globals
  <2>1. CASE SetWindow1(c)
    BY <1>1, <1>2, <2>1 DEF SetWindow1, Decided, Skips
  <2>2. CASE Select(c)
    <3>1. pc[c] = "select507" /\ loc[c] = loc[0]
      BY <1>1, <1>2, <2>2 DEF Select, SameCopy
    <3> QED
      BY <1>1, <1>2, <3>1 DEF Decided
  <2>3. CASE PaeLimit(c) \/ SkipWindow0(c) \/ Relocate(c)
    BY <2>3 DEF PaeLimit, SkipWindow0, Relocate
  <2>4. pc[c] \in Deciding
    BY <1>3
  <2> QED
    BY <1>5, <2>1, <2>2, <2>3, <2>4 DEF Deciding, Step, TestSetup, SetLtest, SetIterations,
       WhileWindows, Selected, Window0, Window1, BumpWindow, WindowN, WindowEnd, Segments,
       DoTest, ResetNext, ResetWindow, NextFade, NextCpu, NextTest, PassDone, Jump, Restart
<1> QED
  BY <1>4, <1>5 DEF Next, Halted

\* What CPU 0 copies does not change under it.
THEOREM CopyUndisturbed ==
  ASSUME BelowPaeLimit
  PROVE  Spec => CopyStable
<1>1. IInv /\ [Next]_vars
        => [pc[0] = "barrier189" /\ pc'[0] = "barrier189" => UNCHANGED globals]_vars
  BY CopyingStep
<1> QED
  BY <1>1, Invariance, PTL DEF Spec, CopyStable

=============================================================================

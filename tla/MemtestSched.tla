----------------------------- MODULE MemtestSched -----------------------------
(***************************************************************************)
(* The test loop of memtest86/main.c: every CPU runs test_start's loop     *)
(* over tests and memory windows, the CPUs meet at barrier(), one of them  *)
(* (CPM_RROBIN, the only mode this build can be in) does the testing, and  *)
(* the whole program moves between two load addresses so that it never     *)
(* tests the memory it runs from.                                          *)
(*                                                                         *)
(* All of win_next, window, test, ltest, ... are plain globals: between    *)
(* two barriers the CPUs access them in any order.  An action is one       *)
(* CPU's work between two accesses another CPU may disturb; pc[c] names    *)
(* the line of main.c.  barrier() is atomic (see AbstractBarrier, which    *)
(* SpinBarrier implements) and does not know which of its calls it is in:  *)
(* it lets go when as many CPUs have arrived as there are, wherever.       *)
(*                                                                         *)
(* run_cpus is 1 in this mode, so s_barrier() always returns at once; bail,*)
(* reloc_pending and the restart flags are never set in this build.  Time, *)
(* error counts and the test patterns are left out.                        *)
(***************************************************************************)
EXTENDS Integers, FiniteSets, FiniteSetsExt

CONSTANTS
  NumCpus,              \* act_cpus = num_cpus
  NumTests,             \* tests in tseq, the sentinel not counted
  BitFade,              \* the tests with pattern 11
  BitfLast,             \* last value of bitf_seq (6)
  Mem,                  \* the pages of memory in v->pmap
  WIN_SZ,               \* pages of a window
  MAX_MEM,              \* the PAE limit
  Win0Start,            \* win0_start
  Win1End,              \* win1_end, the page of high_test_adr
  MapLimits             \* the pages from which on map_page may fail

ASSUME SchedAssumption ==
  /\ NumCpus \in Nat \ {0} /\ NumTests \in Nat \ {0} /\ BitfLast \in Nat
  /\ BitFade \subseteq 0 .. NumTests - 1
  /\ IsFiniteSet(Mem) /\ Mem \subseteq Nat /\ Mem # {}
  /\ WIN_SZ \in Nat /\ MAX_MEM \in Nat /\ MapLimits \subseteq Nat
  /\ {Win0Start, Win1End} \subseteq Nat
  /\ 0 < Win0Start /\ Win0Start < Win1End /\ Win1End < WIN_SZ

CPU == 0 .. NumCpus - 1         \* CPUs by ordinal; ordinal 0 is CPU 0

\* v->pmap[v->msegs-1].end
PmapEnd == Max(Mem) + 1

VARIABLES
  pc,                   \* pc[c]: the line CPU c is about to execute
  loc,                  \* loc[c]: the copy of the program CPU c runs from
  run,                  \* run[c]: local variable of test_start
  mutex,                \* barr->mutex.slock, 1 = free
  mapLimit,             \* the page from which on map_page fails here
  win_next, window, winx,
  test, ltest,
  setup,                \* the test c_iter and test_ticks were computed for
  cpu_sel, mstr_cpu, bitf_seq,
  tested                \* history: pages tested since the last next test

winVars  == <<win_next, window, winx>>
testVars == <<test, ltest, setup, cpu_sel, bitf_seq>>
cpuVars  == <<loc, run, mutex>>
globals  == <<winVars, testVars, mstr_cpu>>
vars     == <<pc, cpuVars, mapLimit, globals, tested>>

Goto(c, from, to) ==
  /\ pc[c] = from
  /\ pc' = [pc EXCEPT ![c] = to]

\* The page the program occupies when it runs at LOW_TEST_ADR or at
\* high_test_adr.
CodePage == [low |-> 0, high |-> Win1End]

Pages(win) == {p \in Mem : win.start <= p /\ p < win.end}

-----------------------------------------------------------------------------
(***************************************************************************)
(* Mutants: the bugs this code could plausibly have, for the runs to catch.*)
(* The specification uses none of them.                                    *)
(***************************************************************************)

\* No main scheduling barrier.
NoSchedBarrier(c) ==
  /\ Goto(c, "while459",
          IF win_next <= PmapEnd + WIN_SZ THEN "limit467" ELSE "exit613")
  /\ UNCHANGED <<cpuVars, globals, tested>>

\* The window loop stops short of the last, partial window.
StopShort(c) ==
  /\ Goto(c, "while459",
          IF win_next + WIN_SZ <= PmapEnd THEN "barrier464" ELSE "exit613")
  /\ UNCHANGED <<cpuVars, globals, tested>>

\* Only CPU 0 does the setup.
SetupOnCpu0(c) ==
  /\ Goto(c, "top441", IF test = ltest \/ c # 0 THEN "while459" ELSE "setup700")
  /\ UNCHANGED <<cpuVars, globals, tested>>

\* Only the way up is taken.
RelocateHighOnly(c) ==
  /\ Goto(c, "reloc478",
          IF window = 0 /\ loc[c] = "low" THEN "barrier189" ELSE "select507")
  /\ UNCHANGED <<cpuVars, globals, tested>>

\* win_next is not advanced.
SameWindow(c) ==
  /\ window \notin {0, 1}
  /\ Goto(c, "window558", "end576")
  /\ winx' = [winx EXCEPT !.start = win_next]
  /\ UNCHANGED <<cpuVars, win_next, window, testVars, mstr_cpu, tested>>

-----------------------------------------------------------------------------
\* set_defaults, and every CPU past the startup barrier (see SmpBoot).
Init ==
  /\ pc = [c \in CPU |-> "top441"]
  /\ loc = [c \in CPU |-> "low"]
  /\ run = [c \in CPU |-> FALSE]
  /\ mutex = 1 /\ mapLimit \in MapLimits
  /\ win_next = 0 /\ window = 0 /\ winx = [start |-> 0, end |-> 0]
  /\ test = 0 /\ ltest = -1 /\ setup = -1
  /\ cpu_sel = 0 /\ mstr_cpu = 0 /\ bitf_seq = 0
  /\ tested = {}

(***************************************************************************)
(* barrier(), from wherever it is called.                                  *)
(***************************************************************************)
AfterBarrier ==
  [barrier464 |-> "limit467", barrier534 |-> "barrier543",
   barrier543 |-> "selected546", barrier189 |-> "mutex194",
   barrier377 |-> "top441"]

InBarrier(c) == pc[c] \in DOMAIN AfterBarrier

Barrier ==
  /\ \A c \in CPU : InBarrier(c)
  /\ pc' = [c \in CPU |-> AfterBarrier[pc[c]]]
  /\ UNCHANGED <<cpuVars, mapLimit, globals, tested>>

(***************************************************************************)
(* test_setup                                                              *)
(***************************************************************************)
TestSetup(c) ==
  /\ Goto(c, "top441", IF test = ltest THEN "while459" ELSE "setup700")
  /\ UNCHANGED <<cpuVars, globals, tested>>

SetLtest(c) ==
  /\ Goto(c, "setup700", "setup703")
  /\ ltest' = test
  /\ UNCHANGED <<cpuVars, winVars, test, setup, cpu_sel, bitf_seq, mstr_cpu,
                 tested>>

SetIterations(c) ==
  /\ Goto(c, "setup703", "while459")
  /\ setup' = test
  /\ UNCHANGED <<cpuVars, winVars, test, ltest, cpu_sel, bitf_seq, mstr_cpu,
                 tested>>

(***************************************************************************)
(* The window loop, up to the choice of the CPU.                           *)
(***************************************************************************)
WhileWindows(c) ==
  /\ Goto(c, "while459",
          IF win_next <= PmapEnd + WIN_SZ THEN "barrier464" ELSE "exit613")
  /\ UNCHANGED <<cpuVars, globals, tested>>

PaeLimit(c) ==
  /\ Goto(c, "limit467", IF win_next > MAX_MEM THEN "exit613" ELSE "fade473")
  /\ UNCHANGED <<cpuVars, globals, tested>>

\* The bit fade test cannot relocate.
SkipWindow0(c) ==
  /\ Goto(c, "fade473",
          IF test \in BitFade /\ window = 0 THEN "fade474" ELSE "reloc478")
  /\ UNCHANGED <<cpuVars, globals, tested>>

SetWindow1(c) ==
  /\ Goto(c, "fade474", "reloc478")
  /\ window' = 1
  /\ UNCHANGED <<cpuVars, win_next, winx, testVars, mstr_cpu, tested>>

\* plim_lower is 0 and below win0_start: only the two run_at calls are left.
\* In run_at CPU 0 copies the program before it joins the barrier.
Relocate(c) ==
  /\ Goto(c, "reloc478",
          IF (window # 0) = (loc[c] # "low") THEN "barrier189" ELSE "select507")
  /\ UNCHANGED <<cpuVars, globals, tested>>

\* The rest of run_at: jump to the other copy, one CPU at a time ...
Jump(c) ==
  /\ NumCpus > 1 => mutex = 1
  /\ Goto(c, "mutex194", "unlock369")
  /\ mutex' = IF NumCpus > 1 THEN 0 ELSE mutex
  /\ loc' = [loc EXCEPT ![c] = IF @ = "low" THEN "high" ELSE "low"]
  /\ UNCHANGED <<run, globals, tested>>

\* ... and test_start again from its beginning, with start_seq = 2.
Restart(c) ==
  /\ Goto(c, "unlock369", "barrier377")
  /\ mutex' = IF NumCpus > 1 THEN 1 ELSE mutex
  /\ UNCHANGED <<loc, run, globals, tested>>

\* CPM_RROBIN: run the test on the CPU whose turn it is.
Select(c) ==
  /\ Goto(c, "select507", "barrier534")
  /\ run' = [run EXCEPT ![c] = (c = cpu_sel)]
  /\ mstr_cpu' = IF c = cpu_sel THEN cpu_sel ELSE mstr_cpu
  /\ UNCHANGED <<loc, mutex, winVars, testVars, tested>>

\* Not selected CPUs continue with the window loop.
Selected(c) ==
  /\ Goto(c, "selected546", IF run[c] THEN "window558" ELSE "while459")
  /\ UNCHANGED <<cpuVars, globals, tested>>

(***************************************************************************)
(* The master hands itself the next window and tests it.                   *)
(***************************************************************************)
Window0(c) ==
  /\ window = 0
  /\ Goto(c, "window558", "bump563")
  /\ winx' = [start |-> 0, end |-> Win1End]
  /\ UNCHANGED <<cpuVars, win_next, window, testVars, mstr_cpu, tested>>

Window1(c) ==
  /\ window = 1
  /\ Goto(c, "window558", "bump563")
  /\ winx' = [start |-> Win0Start, end |-> WIN_SZ]
  /\ win_next' = WIN_SZ
  /\ UNCHANGED <<cpuVars, window, testVars, mstr_cpu, tested>>

BumpWindow(c) ==
  /\ Goto(c, "bump563", "segs583")
  /\ window' = window + 1
  /\ UNCHANGED <<cpuVars, win_next, winx, testVars, mstr_cpu, tested>>

\* For all other windows: start, advance, and end, which reads win_next again.
WindowN(c) ==
  /\ window \notin {0, 1}
  /\ Goto(c, "window558", "end576")
  /\ winx' = [winx EXCEPT !.start = win_next]
  /\ win_next' = win_next + WIN_SZ
  /\ UNCHANGED <<cpuVars, window, testVars, mstr_cpu, tested>>

WindowEnd(c) ==
  /\ Goto(c, "end576", "segs583")
  /\ winx' = [winx EXCEPT !.end = win_next]
  /\ UNCHANGED <<cpuVars, win_next, window, testVars, mstr_cpu, tested>>

\* compute_segments, and the ways out: no memory here, or not mappable.
Segments(c) ==
  /\ Goto(c, "segs583",
          IF Pages(winx) = {} THEN "while459"
          ELSE IF Min(Pages(winx)) >= mapLimit THEN "exit613" ELSE "test599")
  /\ UNCHANGED <<cpuVars, globals, tested>>

DoTest(c) ==
  /\ Goto(c, "test599", "while459")
  /\ tested' = tested \cup Pages(winx)
  /\ UNCHANGED <<cpuVars, globals>>

(***************************************************************************)
(* After the last window: every CPU resets, the master does the            *)
(* housekeeping.                                                           *)
(***************************************************************************)
ResetNext(c) ==
  /\ Goto(c, "exit613", "exit614")
  /\ win_next' = 0
  /\ UNCHANGED <<cpuVars, window, winx, testVars, mstr_cpu, tested>>

ResetWindow(c) ==
  /\ Goto(c, "exit614", IF c = mstr_cpu THEN "house636" ELSE "top441")
  /\ window' = 0
  /\ UNCHANGED <<cpuVars, win_next, winx, testVars, mstr_cpu, tested>>

\* The bit fade test goes on with its next step.
NextFade(c) ==
  /\ test \in BitFade /\ bitf_seq < BitfLast
  /\ Goto(c, "house636", "top441")
  /\ bitf_seq' = bitf_seq + 1
  /\ tested' = {}
  /\ UNCHANGED <<cpuVars, winVars, test, ltest, setup, cpu_sel, mstr_cpu>>

\* The next CPU ...
NextCpu(c) ==
  /\ ~(test \in BitFade /\ bitf_seq < BitfLast)
  /\ Goto(c, "house636", "next108")
  /\ bitf_seq' = 0
  /\ cpu_sel' = (cpu_sel + 1) % NumCpus
  /\ tested' = {}
  /\ UNCHANGED <<cpuVars, winVars, test, ltest, setup, mstr_cpu>>

\* ... does the next test; every test of tseq is selected.
NextTest(c) ==
  /\ Goto(c, "next108", IF test + 1 = NumTests THEN "wrap116" ELSE "top441")
  /\ test' = test + 1
  /\ UNCHANGED <<cpuVars, winVars, ltest, setup, cpu_sel, bitf_seq, mstr_cpu,
                 tested>>

\* The end of the list: a pass is complete, and the machine halts.
PassDone(c) ==
  /\ Goto(c, "wrap116", "halt687")
  /\ test' = 0
  /\ ltest' = -1
  /\ UNCHANGED <<cpuVars, winVars, setup, cpu_sel, bitf_seq, mstr_cpu, tested>>

Halted == (\E c \in CPU : pc[c] = "halt687") /\ UNCHANGED vars

-----------------------------------------------------------------------------
Step(c) ==
  /\ UNCHANGED mapLimit
  /\ \/ TestSetup(c) \/ SetLtest(c) \/ SetIterations(c)
     \/ WhileWindows(c) \/ PaeLimit(c) \/ SkipWindow0(c) \/ SetWindow1(c)
     \/ Relocate(c) \/ Jump(c) \/ Restart(c) \/ Select(c) \/ Selected(c)
     \/ Window0(c) \/ Window1(c) \/ BumpWindow(c) \/ WindowN(c) \/ WindowEnd(c)
     \/ Segments(c) \/ DoTest(c)
     \/ ResetNext(c) \/ ResetWindow(c)
     \/ NextFade(c) \/ NextCpu(c) \/ NextTest(c) \/ PassDone(c)

Next == Barrier \/ Halted \/ \E c \in CPU : Step(c)

Spec == Init /\ [][Next]_vars

\* Every CPU executes its own instructions; the barrier releases.
FairSpec == Spec /\ WF_vars(Barrier) /\ \A c \in CPU : WF_vars(Step(c))

-----------------------------------------------------------------------------
(***************************************************************************)
(* Properties                                                              *)
(***************************************************************************)

Testing == {"window558", "bump563", "end576", "segs583", "test599"}

Lines == DOMAIN AfterBarrier \cup Testing \cup
  {"top441", "setup700", "setup703", "while459", "limit467", "fade473",
   "fade474", "reloc478", "mutex194", "unlock369", "select507", "selected546",
   "exit613", "exit614", "house636", "next108", "wrap116", "halt687"}

\* window counts the windows of one round, win_next their pages, and the
\* selection stays within the CPUs.
TypeOK ==
  /\ pc \in [CPU -> Lines]
  /\ loc \in [CPU -> DOMAIN CodePage]
  /\ run \in [CPU -> BOOLEAN]
  /\ mutex \in {0, 1} /\ mapLimit \in MapLimits
  /\ win_next \in 0 .. PmapEnd + 2 * WIN_SZ
  /\ window \in 0 .. 2
  /\ winx \in [start : Nat, end : Nat]
  /\ test \in 0 .. NumTests /\ {ltest, setup} \subseteq -1 .. NumTests
  /\ cpu_sel \in CPU /\ mstr_cpu \in CPU /\ bitf_seq \in 0 .. BitfLast
  /\ tested \subseteq Mem

\* barrier() does not know which of its five calls a CPU is in, yet the CPUs
\* that wait in it are all in the same call: no decision of the loop, taken
\* on globals that other CPUs are writing, splits them.
PhaseAgreement ==
  \A c, d \in CPU : InBarrier(c) /\ InBarrier(d) => pc[c] = pc[d]

\* At most one CPU is past the scheduling of a window, and it is the one
\* whose turn it is and who does the housekeeping.
OneMaster ==
  /\ \A c, d \in CPU : pc[c] \in Testing /\ pc[d] \in Testing => c = d
  /\ \A c \in CPU : pc[c] \in Testing => c = cpu_sel /\ c = mstr_cpu

\* No window holds the copy of the program any CPU executes at the time.
NoSelfTest ==
  \A c, d \in CPU : pc[c] = "test599" =>
    ~(winx.start <= CodePage[loc[d]] /\ CodePage[loc[d]] < winx.end)

\* Who tests has the iteration count of this test, not of the one before.
SetupMatches == \A c \in CPU : pc[c] = "test599" => setup = test /\ ltest = test

\* The pages a test of one CPU has to reach: all that can be mapped, and for
\* the bit fade test, which does not relocate, none below win0_start.
Reachable ==
  {p \in Mem : /\ p < mapLimit /\ p < MAX_MEM
               /\ test \in BitFade => p >= Win0Start}

\* No page is left out: the master gets to the end of the round only when it
\* has tested every page it can reach.
Coverage == pc[mstr_cpu] = "house636" => Reachable \subseteq tested

\* While CPU 0 copies the program and has not joined the barrier of run_at,
\* no other CPU changes what the copy contains.
CopyStable ==
  [][pc[0] = "barrier189" /\ pc'[0] = "barrier189" => UNCHANGED globals]_vars

\* The CPUs never all get stuck in a barrier or in the window bookkeeping:
\* some memory is tested again and again, or the machine halts.
NoHang == []<>(\E c \in CPU : pc[c] \in {"test599", "halt687"})

\* main.c:188, "Wait for the copy": no CPU leaves the barrier of run_at, to jump
\* to the copy, before CPU 0 has copied and joined it.
WaitForCopy ==
  [][\A c \in CPU : pc[c] = "barrier189" /\ pc'[c] = "mutex194"
                      => pc[0] = "barrier189"]_vars

\* main.c:545, "Not selected CPUs go back to the scheduling barrier": a CPU
\* leaves the window loop only if it was selected.
NotSelectedGoBack == \A c \in CPU : pc[c] = "exit613" => run[c]

(***************************************************************************)
(* What every step keeps below the PAE limit, and what makes the           *)
(* properties above true: the parts of IInv.                               *)
(***************************************************************************)
Limit == PmapEnd + WIN_SZ

Exit  == {"exit613", "exit614"}
House == {"house636", "next108", "wrap116", "halt687"}

\* The lines between two barriers.
Free     == {"selected546", "top441", "setup700", "setup703", "while459", "barrier464"}
              \cup Testing \cup Exit \cup House
Deciding == {"limit467", "fade473", "fade474", "reloc478", "select507",
             "barrier534", "barrier189"}
Moving   == {"mutex194", "unlock369", "barrier377"}

\* The CPUs are all between the same two barriers ...
Together ==
  \/ \A c \in CPU : pc[c] \in Free
  \/ \A c \in CPU : pc[c] \in Deciding
  \/ \A c \in CPU : pc[c] = "barrier543"
  \/ \A c \in CPU : pc[c] \in Moving

\* ... and run the same copy of the program, but for those that have still to
\* jump.
SameCopy ==
  \A c, d \in CPU :
    loc[c] = loc[d] <=> (pc[c] = "mutex194" <=> pc[d] = "mutex194")

Skips == test \in BitFade /\ window = 0

\* What a CPU decided on window and on its copy stays true until all have
\* decided.
Decided ==
  \A c \in CPU :
    /\ pc[c] = "fade474" => test \in BitFade /\ window \in {0, 1}
    /\ pc[c] \in {"reloc478", "select507", "barrier534", "barrier189", "barrier543"}
         => ~Skips
    /\ pc[c] = "barrier189" => (window # 0 <=> loc[c] # "low")
    /\ pc[c] \in {"select507", "barrier534", "barrier543"}
         => (window # 0 <=> loc[c] = "low")

\* The CPU that was selected is the master until it has done the housekeeping.
MasterSelected ==
  \A c \in CPU :
    /\ pc[c] \in {"barrier534", "barrier543"} =>
         (run[c] <=> c = cpu_sel) /\ (c = cpu_sel => mstr_cpu = c)
    /\ (pc[c] = "selected546" /\ run[c]) \/ pc[c] \in Testing =>
         c = cpu_sel /\ c = mstr_cpu
    /\ pc[c] \in House => c = mstr_cpu

\* Nobody leaves the window loop while the master is about to take a window,
\* which it takes for the copy it runs.
MasterReady ==
  /\ pc[mstr_cpu] \in {"selected546", "window558"} =>
       ~Skips /\ \A c \in CPU : window # 0 <=> loc[c] = "low"
  /\ pc[mstr_cpu] \in {"selected546", "window558", "bump563"} =>
       \A c \in CPU : pc[c] \notin Exit

\* win_next is beyond the memory only after the master's last window; it goes
\* with window, and whoever resets one resets the other.
WinNext ==
  /\ win_next > Limit =>
       pc[mstr_cpu] \in {"end576", "segs583", "test599", "while459", "exit613"}
  /\ \/ win_next = 0 \/ window = 2
     \/ window = 1 /\ win_next = WIN_SZ /\ pc[mstr_cpu] = "bump563"
  /\ \A c \in CPU : pc[c] = "exit614" => win_next = 0
  /\ window = 2 => win_next >= WIN_SZ \/ \E c \in CPU : pc[c] = "exit614"
  /\ pc[mstr_cpu] \in House => window = 0 /\ win_next = 0
  /\ pc[mstr_cpu] = "bump563" =>
       \/ window = 0 /\ winx = [start |-> 0, end |-> Win1End] /\ test \notin BitFade
       \/ window = 1 /\ winx = [start |-> Win0Start, end |-> WIN_SZ] /\ win_next = WIN_SZ

\* The window the master holds does not have the program in it.
OutsideCode ==
  /\ pc[mstr_cpu] = "end576" => winx.start >= WIN_SZ
  /\ pc[mstr_cpu] \in {"bump563", "segs583", "test599"} =>
       \A d \in CPU : ~(winx.start <= CodePage[loc[d]] /\ CodePage[loc[d]] < winx.end)

\* A new test is set up by its master, if nobody has done or begun it.
SetupDue ==
  /\ ltest # test => pc[mstr_cpu] \in {"top441", "setup700", "wrap116", "halt687"}
  /\ setup # test => ltest # test \/ \E c \in CPU : pc[c] = "setup703"
  /\ pc[mstr_cpu] \in {"selected546"} \cup Testing => setup = test
  /\ test = NumTests => pc[mstr_cpu] = "wrap116"

\* What window and win_next say was tested was, but for the window in hand;
\* so was all below that window; and at the end all that there is.
Due(p) ==
  \/ window = 1 /\ test \notin BitFade /\ p < Win1End
  \/ window = 2 /\ p < win_next

InHand(p) ==
  \/ pc[mstr_cpu] = "end576" /\ winx.start <= p
  \/ pc[mstr_cpu] \in {"segs583", "test599"} /\ winx.start <= p /\ p < winx.end

TestedSoFar ==
  \A p \in Reachable :
    /\ Due(p) => p \in tested \/ InHand(p)
    /\ pc[mstr_cpu] \in {"bump563", "end576", "segs583", "test599"} /\ p < winx.start
         => p \in tested
    /\ pc[mstr_cpu] \in Exit \cup {"house636"} => p \in tested

IInv ==
  /\ TypeOK /\ Together /\ SameCopy /\ Decided /\ MasterSelected /\ MasterReady
  /\ WinNext /\ OutsideCode /\ SetupDue /\ TestedSoFar

\* All CPUs take the same branches of the window loop although they decide
\* on globals that others are writing, and one of them is the master.
SchedInv == IInv /\ PhaseAgreement /\ OneMaster

=============================================================================

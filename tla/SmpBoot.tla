------------------------------- MODULE SmpBoot -------------------------------
(***************************************************************************)
(* How memtest86 brings up its CPUs: initialise_cpus and smp_boot_ap of    *)
(* smp.c and the first-time half of test_start in main.c, up to the point  *)
(* where every CPU enters the test loop.                                   *)
(*                                                                         *)
(* CPU 0 is the boot processor (BSP).  It sizes the barrier, starts the    *)
(* application processors one after the other and waits for each of them,  *)
(* but not for ever.  An AP may come up at any time after it was kicked,   *)
(* before or after the BSP lost patience, or never (CPUs outside Healthy). *)
(* The barrier is the atomic one of AbstractBarrier: SpinBarrier           *)
(* implements it.                                                          *)
(***************************************************************************)
EXTENDS CpuFind

CONSTANTS
  Firmwares,            \* what the firmware may have put into memory, see CpuFind
  Cpuids,               \* what CPUID may say
  MaxDead               \* how many of the APs may never come up

ASSUME BootAssumption == MaxDead \in Nat

\* What a MADT and an MP table consist of.
MadtEntries == [apic_id : Nat, enabled : BOOLEAN]
MpEntries ==
  [type : {"MP_PROCESSOR"}, apic_id : Nat, boot : BOOLEAN, local : BOOLEAN]
    \cup [type : STRING \ {"MP_PROCESSOR"}]

ASSUME FirmwareAssumption ==
  \A fw \in Firmwares : /\ fw.madts \in Seq([good : BOOLEAN, entries : Seq(MadtEntries)])
                        /\ fw.mp \in Seq(MpEntries)

\* The fields of CPUID have 8, 8 and 4 bits; the cores are counted from 1.
ASSUME CpuidAssumption ==
  \A cpu \in Cpuids :
    cpu.logical \in 0 .. 255 /\ cpu.cores \in 1 .. 256 /\ cpu.core_bits \in 0 .. 15

\* The MP tables that are read keep to their specification.
TablesSorted == \A fw \in Firmwares : fw.fp = "table" => MpSorted(fw.mp)

\* The CPU numbers.  CpuNumbersExact is why a CPU may be identified with the
\* number it has in cpu_num_to_apic_id.
CPU == Slots
BSP == 0
APs == CPU \ {BSP}

VARIABLES
  Healthy,              \* the APs that come up at all; chosen once
  pc,                   \* pc[c]: the line of main.c or smp.c CPU c is at
  num_cpus, act_cpus,   \* smp.c
  maxproc,              \* barr->maxproc
  mutex,                \* barr->mutex.slock, 1 = free
  start_seq,            \* main.c
  cpu_ord,              \* main.c: next ordinal to hand out
  num_to_ord,           \* smp.c: ordinal of each CPU, -1 = not set
  seen,                 \* seen[c]: c's register copy of cpu_ord
  started,              \* AP[].started
  next,                 \* initialise_cpus: loop variable i
  timedOut              \* the APs for which a boot timeout was reported

\* The CPUs that were found.
Present == {c \in CPU : c < num_cpus}

sizes == <<num_cpus, act_cpus, maxproc>>
ords  == <<cpu_ord, num_to_ord, seen>>
boots == <<started, next, timedOut>>
vars  == <<Healthy, pc, mutex, start_seq, sizes, ords, boots>>

Goto(c, from, to) ==
  /\ pc[c] = from
  /\ pc' = [pc EXCEPT ![c] = to]

-----------------------------------------------------------------------------
(***************************************************************************)
(* Mutants: the bugs this code could plausibly have, for the runs to catch.*)
(* The specification uses none of them.                                    *)
(***************************************************************************)

\* The ordinal is taken without the lock.
NoLock(c) ==
  /\ Goto(c, "lock", "readOrd")
  /\ UNCHANGED <<Healthy, sizes, ords, boots, mutex, start_seq>>

\* The lock is not released.
KeepLock(c) ==
  /\ Goto(c, "unlock", "barrier377")
  /\ UNCHANGED <<Healthy, sizes, ords, boots, mutex, start_seq>>

\* CPU 0, the only one that measures, does so without the others.
SkipMemSpeed(c) ==
  /\ Goto(c, "startSeq383", IF c = BSP THEN "barrier388" ELSE "setSeq438")
  /\ UNCHANGED <<Healthy, sizes, ords, boots, mutex, start_seq>>

-----------------------------------------------------------------------------
Init ==
  /\ Healthy \in {S \in SUBSET APs : Cardinality(APs \ S) <= MaxDead}
  /\ pc = [c \in CPU |-> IF c = BSP THEN "begin" ELSE "off"]
  /\ num_cpus = 1 /\ act_cpus = 0
  /\ maxproc = 0
  /\ mutex = 0
  /\ start_seq = 0
  /\ cpu_ord = 0
  /\ num_to_ord = [c \in CPU |-> -1]
  /\ seen = [c \in CPU |-> -1]
  /\ started = [c \in CPU |-> FALSE]
  /\ next = 1
  /\ timedOut = {}

(***************************************************************************)
(* The BSP.                                                                *)
(***************************************************************************)

\* test_start with start_seq = 0: take ordinal 0, barrier_init(1), allow APs
\* to take the AP path.
BspBegin ==
  /\ Goto(BSP, "begin", "initialise")
  /\ num_to_ord' = [num_to_ord EXCEPT ![BSP] = cpu_ord]
  /\ cpu_ord' = cpu_ord + 1
  /\ maxproc' = 1 /\ mutex' = 1
  /\ start_seq' = 1
  /\ UNCHANGED <<Healthy, boots, num_cpus, act_cpus, seen>>

\* What smp_find_cpus may leave in num_cpus.
CpuCounts == {SmpFindCpus(fw).num_cpus : fw \in Firmwares}

\* initialise_cpus: find the CPUs, then barrier_init(act_cpus) before any
\* AP runs.  cpu_mask selects every CPU.
InitialiseCpus ==
  /\ Goto(BSP, "initialise", "kick")
  /\ num_cpus' \in CpuCounts
  /\ act_cpus' = num_cpus'
  /\ started' = [c \in CPU |-> FALSE]
  /\ maxproc' = act_cpus' /\ mutex' = 1
  /\ UNCHANGED <<Healthy, ords, start_seq, next, timedOut>>

\* boot_ap(i): INIT and STARTUP IPIs; from here on the AP may run.
KickAp ==
  /\ pc[BSP] = "kick"
  /\ next < num_cpus
  /\ pc' = [pc EXCEPT ![BSP] = "awaitAp", ![next] = "kicked"]
  /\ UNCHANGED <<Healthy, sizes, ords, boots, mutex, start_seq>>

\* smp_boot_ap returns because the AP has reported in ...
ApReported ==
  /\ Goto(BSP, "awaitAp", "kick")
  /\ started[next]
  /\ next' = next + 1
  /\ UNCHANGED <<Healthy, sizes, ords, mutex, start_seq, started, timedOut>>

\* ... or because the timeout ran out: "Boot timeout for", "Turning off SMP".
ApTimeout ==
  /\ Goto(BSP, "awaitAp", "kick")
  /\ ~started[next]
  /\ timedOut' = timedOut \cup {next}
  /\ next' = next + 1
  /\ UNCHANGED <<Healthy, sizes, ords, mutex, start_seq, started>>

\* All APs kicked: init(), set_defaults() and on to the startup barrier.
BspReady ==
  /\ next >= num_cpus
  /\ Goto(BSP, "kick", "barrier377")
  /\ UNCHANGED <<Healthy, sizes, ords, boots, mutex, start_seq>>

(***************************************************************************)
(* An AP.                                                                  *)
(***************************************************************************)

\* Out of the trampoline onto the one boot stack all CPUs share.
ApWake(c) ==
  /\ c \in Healthy
  /\ Goto(c, "kicked", "bootStack")
  /\ UNCHANGED <<Healthy, sizes, ords, boots, mutex, start_seq>>

\* test_start reads start_seq, moves to its own stack and takes the branch
\* start_seq selects: first boot as CPU 0, AP registration or relocation.
ApStart(c) ==
  /\ Goto(c, "bootStack", CASE start_seq = 0 -> "begin"
                            [] start_seq = 1 -> "report"
                            [] OTHER -> "relocated")
  /\ UNCHANGED <<Healthy, sizes, ords, boots, mutex, start_seq>>

\* smp_ap_booted
ApReport(c) ==
  /\ Goto(c, "report", "lock")
  /\ started' = [started EXCEPT ![c] = TRUE]
  /\ UNCHANGED <<Healthy, sizes, ords, mutex, start_seq, next, timedOut>>

ApLock(c) ==
  /\ mutex = 1
  /\ Goto(c, "lock", "readOrd")
  /\ mutex' = 0
  /\ UNCHANGED <<Healthy, sizes, ords, boots, start_seq>>

\* my_cpu_ord = cpu_ord++ on a volatile int: a load and a store.
ApReadOrd(c) ==
  /\ Goto(c, "readOrd", "bumpOrd")
  /\ seen' = [seen EXCEPT ![c] = cpu_ord]
  /\ UNCHANGED <<Healthy, sizes, boots, mutex, start_seq, cpu_ord, num_to_ord>>

ApBumpOrd(c) ==
  /\ Goto(c, "bumpOrd", "unlock")
  /\ cpu_ord' = seen[c] + 1
  /\ num_to_ord' = [num_to_ord EXCEPT ![c] = seen[c]]
  /\ UNCHANGED <<Healthy, sizes, boots, mutex, start_seq, seen>>

ApUnlock(c) ==
  /\ Goto(c, "unlock", "barrier377")
  /\ mutex' = 1
  /\ UNCHANGED <<Healthy, sizes, ords, boots, start_seq>>

(***************************************************************************)
(* All CPUs: the startup barrier and the two barriers of get_mem_speed.    *)
(***************************************************************************)
AfterBarrier == [barrier377 |-> "startSeq383", barrier388 |-> "memspeed",
                 barrier391 |-> "setSeq438"]

InBarrier(c) == pc[c] \in DOMAIN AfterBarrier

\* barrier(): maxproc CPUs have arrived, at whatever call of it; or there is
\* only one CPU and the call returns at once.
BarrierRelease ==
  LET inside == {c \in CPU : InBarrier(c)}
  IN  /\ inside # {}
      /\ num_cpus = 1 \/ Cardinality(inside) = maxproc
      /\ pc' = [c \in CPU |-> IF c \in inside THEN AfterBarrier[pc[c]] ELSE pc[c]]
      /\ UNCHANGED <<Healthy, sizes, ords, boots, mutex, start_seq>>

\* if (start_seq < 2): only then does a CPU take part in get_mem_speed.
CheckStartSeq(c) ==
  /\ Goto(c, "startSeq383", IF start_seq < 2 THEN "barrier388" ELSE "setSeq438")
  /\ UNCHANGED <<Healthy, sizes, ords, boots, mutex, start_seq>>

\* CPU 0 measures, the others go straight to the second barrier.
MemSpeed(c) ==
  /\ Goto(c, "memspeed", "barrier391")
  /\ UNCHANGED <<Healthy, sizes, ords, boots, mutex, start_seq>>

SetStartSeq(c) ==
  /\ Goto(c, "setSeq438", "tests")
  /\ start_seq' = 2
  /\ UNCHANGED <<Healthy, sizes, ords, boots, mutex>>

\* Every CPU is in the test loop: the boot is over.
BootOver ==
  /\ \A c \in Present : pc[c] = "tests"
  /\ UNCHANGED vars

-----------------------------------------------------------------------------
BspStep == BspBegin \/ InitialiseCpus \/ KickAp \/ ApReported \/ ApTimeout
           \/ BspReady

ApStep(c) == ApStart(c) \/ ApReport(c) \/ ApLock(c) \/ ApReadOrd(c)
             \/ ApBumpOrd(c) \/ ApUnlock(c)

AnyStep(c) == CheckStartSeq(c) \/ MemSpeed(c) \/ SetStartSeq(c)

Next ==
  \/ BspStep
  \/ BarrierRelease
  \/ \E c \in APs : ApWake(c) \/ ApStep(c)
  \/ \E c \in CPU : AnyStep(c)
  \/ BootOver

Spec == Init /\ [][Next]_vars

\* A CPU that executes keeps executing, a healthy AP answers its kick some
\* time, and the barrier lets its CPUs go (AbstractBarrier).
FairSpec ==
  /\ Spec
  /\ WF_vars(BspStep)
  /\ WF_vars(BarrierRelease)
  /\ \A c \in APs : WF_vars(ApWake(c)) /\ WF_vars(ApStep(c))
  /\ \A c \in CPU : WF_vars(AnyStep(c))

-----------------------------------------------------------------------------
(***************************************************************************)
(* Properties                                                              *)
(***************************************************************************)

Lines == {"off", "begin", "initialise", "kick", "awaitAp", "kicked",
          "bootStack", "report", "lock", "readOrd", "bumpOrd", "unlock",
          "relocated", "barrier377", "startSeq383", "barrier388", "memspeed",
          "barrier391", "setSeq438", "tests"}

\* The counters of smp.c and main.c stay within the CPUs the firmware lists.
TypeOK ==
  /\ Healthy \subseteq APs
  /\ pc \in [CPU -> Lines]
  /\ num_cpus \in 1..MAX_CPUS /\ act_cpus \in 0..MAX_CPUS
  /\ maxproc \in 0..MAX_CPUS
  /\ mutex \in {0, 1}
  /\ start_seq \in 0..2
  /\ cpu_ord \in 0..MAX_CPUS
  /\ num_to_ord \in [CPU -> -1 .. MAX_CPUS - 1]
  /\ seen \in [CPU -> -1 .. MAX_CPUS - 1]
  /\ started \in [CPU -> BOOLEAN]
  /\ next \in 1..MAX_CPUS
  /\ timedOut \subseteq APs

\* No two CPUs share an ordinal and, when the tests start, the ordinals are
\* 0 .. act_cpus - 1: the round robin over cpu_sel (main.c) meets each of
\* them exactly once.
OrdinalsDense ==
  /\ \A c, d \in CPU : num_to_ord[c] = num_to_ord[d] /\ num_to_ord[c] # -1
                         => c = d
  /\ (\E c \in CPU : pc[c] = "tests")
       => {num_to_ord[c] : c \in Present} = 0 .. act_cpus - 1

\* As long as no boot timeout was reported, no two CPUs run on the boot
\* stack at once: smp_boot_ap waits until an AP has reported from a stack of
\* its own.
BootStackExclusive ==
  timedOut = {} =>
    \A c, d \in APs : pc[c] = "bootStack" /\ pc[d] = "bootStack" => c = d

\* However late an AP comes up, test_start takes it for neither the boot CPU
\* (start_seq = 0) nor a CPU that is back from a relocation (start_seq = 2),
\* which would release a mutex it does not hold.
ApTakesApPath == \A c \in APs : pc[c] \notin {"begin", "relocated"}

\* No CPU has left the startup code for good while another one still has to
\* read start_seq for its part in get_mem_speed: the barriers pair up.
CheckedTogether ==
  \A c \in CPU : pc[c] \in {"barrier377", "startSeq383"} => start_seq = 1

\* barrier_init never resizes the barrier under a CPU that is inside it, and
\* nobody gets inside before the barrier expects every CPU that was kicked.
BarrierSized ==
  \A c \in CPU : pc[c] \notin {"off", "begin", "initialise"}
                   => maxproc = num_cpus

\* When every AP comes up, be it after its timeout, all CPUs get to the test
\* loop.
BootCompletes == <>(\A c \in Present : pc[c] = "tests")

\* smp_boot_ap, smp.c: "Boot timeout for", "Turning off SMP": once that is
\* said, the boot CPU goes on without the missing AP.
TurnsOffSmp == timedOut # {} ~> pc[BSP] = "tests"

\* Whatever the firmware's tables say, every core gets a CPU number of its own
\* that its CPU finds again; what is found depends on nothing else, so that it
\* is enough to look once.
CpusFound ==
  pc[BSP] = "begin" => /\ \A fw \in Firmwares : CpuNumbersExact(fw)
                       /\ \A cpu \in Cpuids : ThreadBitsExact(cpu)

-----------------------------------------------------------------------------
(***************************************************************************)
(* The inductive invariant.                                                *)
(***************************************************************************)

\* An AP that has not reported in, and one that has no ordinal yet.
Unreported == {"off", "kicked", "bootStack", "report"}
Unordered == Unreported \cup {"lock", "readOrd", "bumpOrd"}

\* The lines all CPUs execute, and the stretches between two barriers.
Measured == {"startSeq383", "barrier388"}
Paired   == {"memspeed", "barrier391"}
Done     == {"setSeq438", "tests"}
Shared   == {"barrier377"} \cup Measured \cup Paired \cup Done

\* Every CPU is in its own part of the code, and start_seq says which part of
\* the start-up the boot processor and the first CPU in the tests are in.
PathInv ==
  /\ pc[BSP] \in {"begin", "initialise", "kick", "awaitAp"} \cup Shared
  /\ \A c \in APs : pc[c] \in Unordered \cup {"unlock"} \cup Shared
  /\ start_seq = 0 <=> pc[BSP] = "begin"
  /\ start_seq = 2 => \E c \in CPU : pc[c] = "tests"

\* initialise_cpus kicks the APs in order, and only those it has counted.
KickInv ==
  /\ next <= num_cpus
  /\ pc[BSP] \in {"begin", "initialise"}
       => next = 1 /\ timedOut = {} /\ \A c \in APs : pc[c] = "off"
  /\ pc[BSP] \notin {"begin", "initialise"} => maxproc = num_cpus /\ act_cpus = num_cpus
  /\ pc[BSP] = "awaitAp" => next < num_cpus
  /\ \A c \in APs : pc[c] # "off" => c < next \/ (c = next /\ pc[BSP] = "awaitAp")

\* The boot processor goes on to the next AP when this one has reported or is
\* given up.
ReportInv ==
  \A c \in APs : /\ started[c] => pc[c] \notin Unreported
                 /\ c < next => started[c] \/ c \in timedOut

\* The mutex of the barrier has one owner, who is taking an ordinal.
Owner(c) == pc[c] \in {"begin", "readOrd", "bumpOrd", "unlock"}
MutexInv ==
  /\ mutex = 0 <=> \E c \in CPU : Owner(c)
  /\ \A c, d \in CPU : Owner(c) /\ Owner(d) => c = d

\* The ordinals that were handed out are 0 .. cpu_ord - 1, one per CPU.
Ordered == {c \in CPU : num_to_ord[c] # -1}
OrdInv ==
  /\ cpu_ord = Cardinality(Ordered)
  /\ \A c \in Ordered : num_to_ord[c] \in 0 .. cpu_ord - 1
  /\ \A k \in 0 .. cpu_ord - 1 : \E c \in Ordered : num_to_ord[c] = k
  /\ \A c, d \in Ordered : num_to_ord[c] = num_to_ord[d] => c = d
  /\ num_to_ord[BSP] = -1 <=> pc[BSP] = "begin"
  /\ \A c \in APs : num_to_ord[c] = -1 <=> pc[c] \in Unordered
  /\ \A c \in CPU : pc[c] = "bumpOrd" => seen[c] = cpu_ord

\* Between two barriers all CPUs are on the same stretch.
PhaseInv ==
  \A stretch \in {Measured, Paired, Done} :
    (\E c \in CPU : pc[c] \in stretch) => \A d \in Present : pc[d] \in stretch

IInv == TypeOK /\ PathInv /\ KickInv /\ ReportInv /\ MutexInv /\ OrdInv /\ PhaseInv

\* What the boot CPU and the APs count together: every CPU that test_start lets
\* into the tests has an ordinal of its own out of 0 .. act_cpus - 1, however
\* many APs report late, the barrier is of the right size before the first of
\* them enters it, and nobody else is on the boot stack.
BootInv == IInv /\ OrdinalsDense /\ BarrierSized /\ BootStackExclusive

\* However late a CPU reads start_seq, it takes the branch of test_start that
\* its part in the start-up calls for.
StartAgreed == ApTakesApPath /\ CheckedTogether

=============================================================================

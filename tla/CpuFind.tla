------------------------------- MODULE CpuFind -------------------------------
(***************************************************************************)
(* How memtest86 finds the CPUs: smp_find_cpus, parse_madt and             *)
(* read_mp_config_table of smp.c, as functions of what the firmware has    *)
(* put into memory.  The search for signatures and the checksums are       *)
(* abstracted to what they find:                                           *)
(*   root   the RSDP and the RSDT or XSDT it points to are good;           *)
(*   madts  the MADTs listed there, each with good, whether its checksum   *)
(*          is right, and its processor entries;                           *)
(*   cpu    what CPUID says of threads and cores;                          *)
(*   fp     the floating MP pointer: none, a default configuration, or a   *)
(*          table;                                                         *)
(*   mp     the entries of that table, or none if it is not good.  The     *)
(*          specification of the table sorts them by type: CPUs come first.*)
(* Found is what the globals of smp.c are afterwards.                      *)
(***************************************************************************)
EXTENDS Integers, Sequences, SequencesExt, FiniteSets

CONSTANT MAX_CPUS

ASSUME MaxAssumption == MAX_CPUS \in Nat /\ MAX_CPUS > 1

LOCAL Least(S) == CHOOSE x \in S : \A y \in S : x <= y

Slots == 0 .. MAX_CPUS - 1
NotFound == [num_cpus |-> 1, found_cpus |-> 0, cpu_num_to_apic_id |-> [i \in Slots |-> 0]]

-----------------------------------------------------------------------------
\* Mutant of BitsFor: a number of threads that is no power of two is rounded
\* down.
BitsRoundedDown(threadCount) ==
  IF threadCount = 0 THEN 0
  ELSE CHOOSE b \in 0 .. 31 : 2^b <= threadCount /\ threadCount < 2^(b + 1)

\* The highest bit of threadCount * 2 - 1.
BitsFor(threadCount) ==
  IF threadCount = 0 THEN 0
  ELSE CHOOSE b \in 0 .. 31 : 2^b <= threadCount * 2 - 1 /\ threadCount * 2 - 1 < 2^(b + 1)

\* logical_CPU_bits of parse_madt: the bits of an APIC ID that tell the
\* threads of one core apart.  extended: the leaf that counts cores is there;
\* level: the type and the shift of leaf 0xb, type 0 if the leaf is empty.
LogicalCpuBits(cpu) ==
  CASE ~cpu.htt -> 0
    [] cpu.htt /\ cpu.vendor = "AMD" ->
         IF ~cpu.extended THEN 0
         ELSE BitsFor(IF cpu.core_bits # 0 THEN cpu.logical \div 2^cpu.core_bits
                      ELSE cpu.logical \div cpu.cores)
    [] cpu.htt /\ cpu.vendor = "Intel" ->
         IF cpu.level.type # 0 THEN IF cpu.level.type = 1 THEN cpu.level.shift ELSE 0
         ELSE BitsFor(IF cpu.extended THEN cpu.logical \div cpu.cores ELSE cpu.logical)
    [] OTHER -> 0

Core(apic_id, bits) == apic_id \div 2^bits

\* One processor entry of the MADT: the first that is enabled is the BSP; the
\* threads of a core share the slot of the first of them.
MadtEntry(f, pe, bits) ==
  LET sameCore == {i \in 0 .. f.num_cpus - 1 :
                     Core(f.cpu_num_to_apic_id[i], bits) = Core(pe.apic_id, bits)}
      counted == [f EXCEPT !.found_cpus = @ + 1]
  IN CASE ~pe.enabled -> f
       [] pe.enabled /\ f.num_cpus >= MAX_CPUS -> counted
       [] pe.enabled /\ f.num_cpus < MAX_CPUS /\ f.found_cpus = 0 ->
            [counted EXCEPT !.cpu_num_to_apic_id[0] = pe.apic_id]
       [] OTHER ->
            IF sameCore = {}
            THEN [counted EXCEPT !.cpu_num_to_apic_id[f.num_cpus] = pe.apic_id, !.num_cpus = @ + 1]
            ELSE IF f.cpu_num_to_apic_id[Least(sameCore)] = pe.apic_id THEN f ELSE counted

ParseMadt(madt, bits) ==
  FoldLeft(LAMBDA f, pe : MadtEntry(f, pe, bits), NotFound, madt.entries)

\* One entry of the MP table.  A CPU with another APIC than a local one, and an
\* entry of unknown type, end the reading, but what was counted stays.  The
\* case MP_INTSRC falls through into MP_LINTSRC: the next entry is skipped.
MpEntry(s, e) ==
  LET f == s.found IN
  CASE s.end -> s
    [] ~s.end /\ s.skip -> [s EXCEPT !.skip = FALSE]
    [] ~s.end /\ ~s.skip /\ e.type = "MP_PROCESSOR" ->
         [s EXCEPT !.end = ~e.local,
            !.found = IF e.boot
                      THEN [f EXCEPT !.cpu_num_to_apic_id[0] = e.apic_id, !.found_cpus = @ + 1]
                      ELSE IF f.num_cpus < MAX_CPUS
                      THEN [f EXCEPT !.cpu_num_to_apic_id[f.num_cpus] = e.apic_id,
                                     !.num_cpus = @ + 1, !.found_cpus = @ + 1]
                      ELSE [f EXCEPT !.found_cpus = @ + 1]]
    [] ~s.end /\ ~s.skip /\ e.type = "MP_INTSRC" -> [s EXCEPT !.skip = TRUE]
    [] ~s.end /\ ~s.skip /\ e.type = "unknown" -> [s EXCEPT !.end = TRUE]
    [] OTHER -> s

ReadMpConfigTable(mp) ==
  FoldLeft(MpEntry, [found |-> NotFound, end |-> FALSE, skip |-> FALSE], mp).found

GoodMadts(fw) == IF fw.root THEN {k \in DOMAIN fw.madts : fw.madts[k].good} ELSE {}

\* smp_find_cpus: the first good MADT; else the floating MP pointer.
SmpFindCpus(fw) ==
  IF GoodMadts(fw) # {}
  THEN ParseMadt(fw.madts[Least(GoodMadts(fw))], LogicalCpuBits(fw.cpu))
  ELSE CASE fw.fp = "default" ->
              [NotFound EXCEPT !.num_cpus = 2, !.cpu_num_to_apic_id = [@ EXCEPT ![1] = 1]]
         [] fw.fp = "table" -> ReadMpConfigTable(fw.mp)
         [] OTHER -> NotFound

\* smp_my_cpu_num, for the CPU with that APIC ID.
SmpMyCpuNum(f, apic_id) ==
  Least({i \in Slots : f.cpu_num_to_apic_id[i] = apic_id} \cup
        IF \E i \in Slots : f.cpu_num_to_apic_id[i] = apic_id THEN {} ELSE {0})

-----------------------------------------------------------------------------
(***************************************************************************)
(* Properties.                                                             *)
(***************************************************************************)

\* The entries of an MP table up to the first that cannot be read.
Unreadable(e) == e.type = "unknown" \/ (e.type = "MP_PROCESSOR" /\ ~e.local)

MpCpusRead(mp) ==
  {k \in DOMAIN mp : /\ mp[k].type = "MP_PROCESSOR"
                     /\ \A j \in 1 .. k - 1 : ~Unreadable(mp[j])}

\* An MP table as its specification wants it: CPUs come before interrupts, each
\* has an APIC ID of its own, and one of them boots.
MpSorted(mp) ==
  /\ \A i, j \in DOMAIN mp : mp[i].type = "MP_INTSRC" /\ mp[j].type = "MP_PROCESSOR" => j < i
  /\ \A i, j \in MpCpusRead(mp) : mp[i].apic_id = mp[j].apic_id => i = j
  /\ MpCpusRead(mp) # {} =>
       \E boot \in MpCpusRead(mp) : \A k \in MpCpusRead(mp) : mp[k].boot <=> k = boot

\* The CPUs that the firmware lists, and which of them boots: of a MADT the
\* first that is enabled.
Listed(fw) ==
  IF GoodMadts(fw) # {}
  THEN LET pes == fw.madts[Least(GoodMadts(fw))].entries
           on == {k \in DOMAIN pes : pes[k].enabled}
       IN {[apic_id |-> pes[k].apic_id, boot |-> \A j \in on : k <= j] : k \in on}
  ELSE CASE fw.fp = "default" -> {[apic_id |-> id, boot |-> id = 0] : id \in {0, 1}}
         [] fw.fp = "table" ->
              {[apic_id |-> fw.mp[k].apic_id, boot |-> fw.mp[k].boot] : k \in MpCpusRead(fw.mp)}
         [] OTHER -> {}

\* Whatever the firmware lists: every core has one CPU number, as long as there
\* are numbers left, the boot processor has number 0, nothing but a listed CPU
\* is kicked, and every CPU that is kicked finds its own number again.
CpuNumbersExact(fw) ==
  LET f == SmpFindCpus(fw)
      listed == {cpu.apic_id : cpu \in Listed(fw)}
      bits == IF GoodMadts(fw) # {} THEN LogicalCpuBits(fw.cpu) ELSE 0
      cores == {Core(id, bits) : id \in listed}
      used == {f.cpu_num_to_apic_id[i] : i \in 0 .. f.num_cpus - 1}
  IN listed # {} =>
       /\ f.num_cpus = IF Cardinality(cores) < MAX_CPUS THEN Cardinality(cores) ELSE MAX_CPUS
       /\ used \subseteq listed
       /\ Cardinality({Core(id, bits) : id \in used}) = f.num_cpus
       /\ \A cpu \in Listed(fw) : cpu.boot => f.cpu_num_to_apic_id[0] = cpu.apic_id
       /\ \A i \in 0 .. f.num_cpus - 1 : SmpMyCpuNum(f, f.cpu_num_to_apic_id[i]) = i

\* There are as many bits for the threads of a core as it takes to count them.
ThreadBitsExact(cpu) ==
  LET n == IF cpu.extended THEN cpu.logical \div (IF cpu.vendor = "AMD" /\ cpu.core_bits # 0
                                                  THEN 2^cpu.core_bits ELSE cpu.cores)
           ELSE cpu.logical
      bits == LogicalCpuBits(cpu)
      counts == /\ cpu.htt /\ cpu.level.type = 0 /\ n > 0
                /\ cpu.vendor = "Intel" \/ (cpu.vendor = "AMD" /\ cpu.extended)
  IN counts => n <= 2^bits /\ (bits > 0 => 2^(bits - 1) < n)

=============================================================================

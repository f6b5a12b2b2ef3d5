------------------------------ MODULE MCSmpBoot ------------------------------
(***************************************************************************)
(* Firmware for SmpBoot: MADTs with disabled CPUs, threads, repeated       *)
(* entries, bad checksums and more CPUs than there are numbers; MP tables  *)
(* in any order, with entries that are not CPUs, that are skipped and that *)
(* cannot be read.                                                         *)
(***************************************************************************)
EXTENDS SmpBoot

Seqs(S, lengths) == UNION {[1 .. n -> S] : n \in lengths}
Pe(id, enabled) == [apic_id |-> id, enabled |-> enabled]

NoLevel == [type |-> 0, shift |-> 0]
Cpuid(htt, vendor, extended, logical, cores, core_bits, level) ==
  [htt |-> htt, vendor |-> vendor, extended |-> extended, logical |-> logical, cores |-> cores,
   core_bits |-> core_bits, level |-> level]
OneThread == Cpuid(FALSE, "Intel", TRUE, 1, 1, 0, NoLevel)
TwoThreads == Cpuid(TRUE, "AMD", TRUE, 4, 2, 0, NoLevel)
MCCpuids ==
  {Cpuid(h, v, x, l, c, b, lv) :
     h \in BOOLEAN, v \in {"AMD", "Intel", "other"}, x \in BOOLEAN, l \in 0 .. 9, c \in 1 .. 3,
     b \in 0 .. 2, lv \in {NoLevel, [type |-> 1, shift |-> 1], [type |-> 2, shift |-> 4]}}

EntryLists ==
  Seqs({Pe(id, on) : id \in 0 .. 3, on \in BOOLEAN}, 0 .. 3)
    \cup {[k \in 1 .. 5 |-> Pe(s[k], TRUE)] : s \in {t \in Seqs(0 .. 4, {5}) : t[1] \in {0, 2}}}

NoTables == [root |-> FALSE, madts |-> <<>>, cpu |-> OneThread, fp |-> "none", mp |-> <<>>]
WithMadt ==
  {[NoTables EXCEPT !.root = TRUE, !.cpu = cpu, !.madts = <<[good |-> TRUE, entries |-> list]>>] :
     list \in EntryLists, cpu \in {OneThread, TwoThreads}}

Cpu(id, boot, local) == [type |-> "MP_PROCESSOR", apic_id |-> id, boot |-> boot, local |-> local]
Other(type) == [type |-> type]

\* The boot processor is listed before what cannot be read.
Orders == {s \in Seqs(0 .. 4, {1, 2, 5}) : \A i, j \in DOMAIN s : s[i] = s[j] => i = j}
MpCpus ==
  UNION {{[k \in DOMAIN s |-> Cpu(s[k], k = b, k # bad)] : b \in DOMAIN s, bad \in {0, Len(s)}} :
           s \in Orders}
MpRest ==
  {<<>>, <<Other("unknown")>>, <<Other("MP_BUS"), Other("MP_IOAPIC"), Other("MP_INTSRC")>>,
   <<Other("MP_INTSRC"), Other("MP_INTSRC"), Other("MP_INTSRC"), Other("MP_LINTSRC")>>}
WithMp ==
  {[NoTables EXCEPT !.fp = "table", !.mp = cpus \o rest] : cpus \in MpCpus, rest \in MpRest}

\* Two MADTs, the RSDT good or bad, and an MP table or a default configuration.
Mixed ==
  {[root |-> root, cpu |-> cpu, fp |-> fp, mp |-> <<Cpu(3, FALSE, TRUE), Cpu(1, TRUE, TRUE)>>,
    madts |-> <<[good |-> one, entries |-> <<Pe(0, TRUE), Pe(1, TRUE), Pe(2, TRUE)>>],
                [good |-> two, entries |-> <<Pe(1, TRUE)>>]>>] :
     root \in BOOLEAN, one \in BOOLEAN, two \in BOOLEAN, cpu \in {OneThread, TwoThreads},
     fp \in {"none", "default", "table"}}

MCFirmwares == WithMadt \cup WithMp \cup Mixed

\* The MP tables of MCFirmwares are sorted.
ASSUME TablesAssumption == TablesSorted

=============================================================================

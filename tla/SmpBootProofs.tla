---------------------------- MODULE SmpBootProofs ----------------------------
(***************************************************************************)
(* Proofs about what memtest86 does at its start, whatever the firmware    *)
(* lists.  About SmpBoot, for every number of CPUs: its inductive          *)
(* invariant, the safety properties that follow from it, and the numbers   *)
(* the CPUs get from the tables.  About Memsize, for every memory map: the *)
(* inductive invariant of mem_size, and that the segments are right.       *)
(***************************************************************************)
EXTENDS SmpBoot, Memsize, FiniteSetTheorems, SequenceTheorems, WellFoundedInduction, TLAPS

-----------------------------------------------------------------------------
(***************************************************************************)
(* Folds over sequences.                                                   *)
(***************************************************************************)

\* Every nonempty set of numbers has a least element.
LEMMA LeastNat ==
  ASSUME NEW S \in SUBSET Nat, S # {}
  PROVE  \E m \in S : \A k \in S : m <= k
  <1>1. PICK m \in S : \A k \in S : ~(<<k, m>> \in OpToRel(<, Nat))
    BY NatLessThanWellFounded, WFMin
  <1>2. \A k \in S : ~(k < m)
    BY <1>1 DEF OpToRel
  <1> QED
    BY <1>2

\* The greatest of some indices, and where the others are.
LEMMA MaxIndex ==
  ASSUME NEW n \in Nat, NEW s \in SUBSET (1 .. n), s # {}
  PROVE  /\ Max(s) \in s
         /\ \A i \in s : i <= Max(s)
         /\ s \ {Max(s)} \in SUBSET (1 .. Max(s) - 1)
  <1>1. PICK m \in {k \in Nat : \A i \in s : i <= k} :
              \A k \in {k \in Nat : \A i \in s : i <= k} : m <= k
    <2>1. n \in {k \in Nat : \A i \in s : i <= k}
      OBVIOUS
    <2> QED
      BY <2>1, LeastNat
  <1>2. m \in s
    <2> SUFFICES ASSUME m \notin s PROVE FALSE
      OBVIOUS
    <2>1. PICK i \in s : TRUE
      OBVIOUS
    <2>2. m - 1 \in Nat /\ \A k \in s : k <= m - 1
      BY <1>1, <2>1
    <2> QED
      BY <2>2, <1>1
  <1>3. \A x \in s : (\A y \in s : x >= y) => x = m
    BY <1>2
  <1>4. \A y \in s : m >= y
    OBVIOUS
  <1>5. Max(s) = m
    BY <1>2, <1>3, <1>4 DEF Max
  <1> QED
    BY <1>2, <1>5
\* A fold over a sequence of n elements, as SequencesExt defines it: result maps
\* every set of indices to what the elements at them have made of the base.
IsFold(result, n, base, step) ==
  \A s \in SUBSET (1 .. n) :
    result[s] = IF s = {} THEN base ELSE step[Max(s)][result[s \ {Max(s)}]]

\* A fold over the entries 1 to n has a value, by induction on n: there is no
\* least n without.
LEMMA FoldExists ==
  ASSUME NEW T, NEW base \in T, NEW n \in Nat, NEW step \in [1 .. n -> [T -> T]]
  PROVE  \E result \in [SUBSET (1 .. n) -> T] : IsFold(result, n, base, step)
  <1> DEFINE Has(k) == \E result \in [SUBSET (1 .. k) -> T] : IsFold(result, k, base, step)
             Missing == {k \in 0 .. n : ~Has(k)}
  <1> SUFFICES ASSUME ~Has(n) PROVE FALSE
    OBVIOUS
  <1> HIDE DEF Has
  <1>1. PICK k \in Missing : \A j \in Missing : k <= j
    <2>1. n \in Missing /\ Missing \in SUBSET Nat
      OBVIOUS
    <2> QED
      BY <2>1, LeastNat
  <1>2. CASE k = 0
    <2>1. SUBSET (1 .. k) = {{}}
      BY <1>2
    <2> DEFINE result == [s \in SUBSET (1 .. k) |-> base]
    <2>2. result \in [SUBSET (1 .. k) -> T]
      OBVIOUS
    <2>3. IsFold(result, k, base, step)
      BY <2>1 DEF IsFold
    <2> QED
      BY <1>1, <2>2, <2>3 DEF Has
  <1>3. CASE k # 0
    <2>1. k - 1 \in 0 .. n /\ k - 1 \notin Missing
      BY <1>1, <1>3
    <2>2. PICK before \in [SUBSET (1 .. k - 1) -> T] : IsFold(before, k - 1, base, step)
      BY <2>1 DEF Has
    <2> DEFINE result == [s \in SUBSET (1 .. k) |->
                            IF k \in s THEN step[k][before[s \ {k}]] ELSE before[s]]
    <2>3. \A s \in SUBSET (1 .. k) : IF k \in s THEN s \ {k} \in SUBSET (1 .. k - 1)
                                     ELSE s \in SUBSET (1 .. k - 1)
      BY <2>1
    <2>4. result \in [SUBSET (1 .. k) -> T]
      BY <2>1, <2>2, <2>3, <1>3
    <2>5. ASSUME NEW s \in SUBSET (1 .. k)
          PROVE  result[s] = IF s = {} THEN base ELSE step[Max(s)][result[s \ {Max(s)}]]
      <3>1. CASE s = {}
        BY <2>2, <2>3, <3>1 DEF IsFold
      <3>2. CASE k \in s
        <4>1. Max(s) = k
          <5>1. Max(s) \in s /\ \A i \in s : i <= Max(s)
            BY <3>2, MaxIndex, k \in Nat
          <5>2. Max(s) \in 1 .. k /\ k <= Max(s)
            BY <3>2, <5>1
          <5> QED
            BY <5>2
        <4>2. s \ {k} \in SUBSET (1 .. k) /\ result[s \ {k}] = before[s \ {k}]
          BY <2>3, <3>2
        <4> QED
          BY <3>2, <4>1, <4>2
      <3>3. CASE s # {} /\ k \notin s
        <4>1. Max(s) \in s
          BY <3>3, MaxIndex, k \in Nat
        <4>2. before[s] = step[Max(s)][before[s \ {Max(s)}]]
          BY <2>2, <2>3, <3>3 DEF IsFold
        <4>3. /\ result[s] = before[s]
              /\ result[s \ {Max(s)}] = before[s \ {Max(s)}]
          BY <3>3
        <4> QED
          BY <3>3, <4>2, <4>3
      <3> QED
        BY <3>1, <3>2, <3>3
    <2>6. IsFold(result, k, base, step)
      BY <2>5 DEF IsFold
    <2> QED
      BY <1>1, <2>4, <2>6 DEF Has
  <1> QED
    BY <1>2, <1>3

\* Induction up to n: the numbers for which something holds are all.
LEMMA UpTo ==
  ASSUME NEW n \in Nat, NEW Good, 0 \in Good,
         \A k \in 1 .. n : k - 1 \in Good => k \in Good
  PROVE  \A k \in 0 .. n : k \in Good
  <1> DEFINE Bad == (0 .. n) \ Good
  <1> SUFFICES ASSUME Bad # {} PROVE FALSE
    OBVIOUS
  <1>1. PICK k \in Bad : \A j \in Bad : k <= j
    <2>1. Bad \in SUBSET Nat
      OBVIOUS
    <2> QED
      BY <2>1, LeastNat
  <1>2. k \in 1 .. n /\ k - 1 \in 0 .. n /\ k - 1 \notin Bad
    BY <1>1
  <1> QED
    BY <1>2

\* The last element of a prefix.
LEMMA PrefixMax ==
  ASSUME NEW k \in Nat, k > 0
  PROVE  /\ Max(1 .. k) = k
         /\ (1 .. k) \ {k} = 1 .. k - 1
         /\ 1 .. k # {}
  <1>1. 1 .. k \in SUBSET (1 .. k) /\ k \in 1 .. k
    OBVIOUS
  <1>2. Max(1 .. k) \in 1 .. k /\ \A i \in 1 .. k : i <= Max(1 .. k)
    BY <1>1, MaxIndex
  <1>3. Max(1 .. k) = k
    BY <1>1, <1>2
  <1> QED
    BY <1>1, <1>3

-----------------------------------------------------------------------------
(***************************************************************************)
(* What smp_find_cpus leaves in num_cpus.                                  *)
(***************************************************************************)

\* What the globals of smp.c may be while the tables are read.
Founds == [num_cpus : 1 .. MAX_CPUS, found_cpus : Nat, cpu_num_to_apic_id : [Slots -> Nat]]

\* An entry of the MADT adds at most one CPU, within the tables.
LEMMA MadtEntryKeeps ==
  ASSUME NEW f \in Founds, NEW pe \in MadtEntries, NEW bits
  PROVE  MadtEntry(f, pe, bits) \in Founds
  <1> DEFINE counted == [f EXCEPT !.found_cpus = @ + 1]
             Filled(i) == [counted EXCEPT !.cpu_num_to_apic_id[i] = pe.apic_id]
  <1>1. f.num_cpus \in 1 .. MAX_CPUS /\ pe.apic_id \in Nat /\ 0 \in Slots
    BY MaxAssumption DEF Founds, MadtEntries, Slots
  <1>2. counted \in Founds
    BY DEF Founds
  <1>3. \A i \in Slots : Filled(i) \in Founds
    BY <1>1, <1>2 DEF Founds
  <1>4. \A i \in Slots : Filled(i).num_cpus = f.num_cpus
    BY <1>2 DEF Founds
  <1>5. \A g \in Founds : g.num_cpus < MAX_CPUS => [g EXCEPT !.num_cpus = @ + 1] \in Founds
    BY MaxAssumption DEF Founds
  <1> HIDE DEF Filled
  <1>6. ASSUME f.num_cpus < MAX_CPUS
        PROVE  [Filled(f.num_cpus) EXCEPT !.num_cpus = @ + 1] \in Founds
    <2>1. f.num_cpus \in Slots
      BY <1>1, <1>6, MaxAssumption DEF Slots
    <2> QED
      BY <1>3, <1>4, <1>5, <1>6, <2>1
  <1>7. f.num_cpus >= MAX_CPUS \/ f.num_cpus < MAX_CPUS
    BY <1>1, MaxAssumption
  <1> QED
    BY <1>1, <1>2, <1>3, <1>7, <1>6 DEF MadtEntry, Filled

\* Before the tables are read there is the boot CPU.
LEMMA NotFoundTyped == NotFound \in Founds
    BY MaxAssumption DEF NotFound, Founds, Slots

\* parse_madt reads the entries one after the other.
LEMMA MadtFold ==
  ASSUME NEW madt, madt.entries \in Seq(MadtEntries), NEW bits
  PROVE  \E f \in [0 .. Len(madt.entries) -> Founds] :
           /\ f[0] = NotFound
           /\ \A k \in 1 .. Len(madt.entries) : f[k] = MadtEntry(f[k - 1], madt.entries[k], bits)
           /\ ParseMadt(madt, bits) = f[Len(madt.entries)]
  <1> DEFINE entries == madt.entries
             n == Len(entries)
             step == [i \in 1 .. n |-> [f \in Founds |-> MadtEntry(f, entries[i], bits)]]
             Folded(result) == [s \in SUBSET (1 .. n) |->
                        IF s = {} THEN NotFound
                        ELSE MadtEntry(result[s \ {Max(s)}], entries[Max(s)], bits)]
             result == CHOOSE result : result = Folded(result)
             f == [k \in 0 .. n |-> result[1 .. k]]
             Good == {k \in 0 .. n : f[k] \in Founds}
  <1>1. n \in Nat /\ DOMAIN entries = 1 .. n /\ \A i \in 1 .. n : entries[i] \in MadtEntries
    OBVIOUS
  <1>2. ParseMadt(madt, bits) = result[1 .. n]
    BY <1>1 DEF ParseMadt, FoldLeft, MapThenFoldSet
  <1> HIDE DEF result
  <1>3. result = Folded(result)
    <2>1. step \in [1 .. n -> [Founds -> Founds]]
      BY <1>1, MadtEntryKeeps
    <2>2. PICK fold \in [SUBSET (1 .. n) -> Founds] : IsFold(fold, n, NotFound, step)
      BY <1>1, <2>1, NotFoundTyped, FoldExists
    <2>3. ASSUME NEW s \in SUBSET (1 .. n), s # {}
          PROVE  fold[s] = MadtEntry(fold[s \ {Max(s)}], entries[Max(s)], bits)
      <3>1. Max(s) \in 1 .. n
        BY <1>1, <2>3, MaxIndex
      <3>2. fold[s \ {Max(s)}] \in Founds
        BY <2>2
      <3> QED
        BY <2>2, <2>3, <3>1, <3>2 DEF IsFold
    <2>4. fold = Folded(fold)
      BY <2>2, <2>3 DEF IsFold
    <2> QED
      BY <2>4 DEF result
  <1>4. f[0] = NotFound
    <2>1. 1 .. 0 = {}
      OBVIOUS
    <2> QED
      BY <1>1, <1>3, <2>1
  <1>5. ASSUME NEW k \in 1 .. n
        PROVE  f[k] = MadtEntry(f[k - 1], entries[k], bits)
    <2>1. /\ Max(1 .. k) = k /\ (1 .. k) \ {k} = 1 .. k - 1 /\ 1 .. k # {}
          /\ 1 .. k \in SUBSET (1 .. n)
      BY PrefixMax, SMTT(30)
    <2>2. f[k] = result[1 .. k] /\ f[k - 1] = result[1 .. k - 1]
      BY <1>1
    <2>3. result[1 .. k] = MadtEntry(result[1 .. k - 1], entries[k], bits)
      BY <1>3, <2>1
    <2> QED
      BY <2>2, <2>3
  <1> HIDE DEF f, n
  <1>6. 0 \in Good /\ \A k \in 1 .. n : k - 1 \in Good => k \in Good
    BY <1>1, <1>4, <1>5, NotFoundTyped, MadtEntryKeeps, SMTT(30)
  <1>7. \A k \in 0 .. n : k \in Good
    BY <1>1, <1>6, UpTo
  <1>8. f \in [0 .. n -> Founds]
    BY <1>7 DEF f
  <1>9. ParseMadt(madt, bits) = f[n]
    BY <1>1, <1>2 DEF f
  <1> QED
    BY <1>4, <1>5, <1>8, <1>9 DEF n

\* parse_madt counts at least one CPU and at most MAX_CPUS.
LEMMA ParseMadtTyped ==
  ASSUME NEW madt, madt.entries \in Seq(MadtEntries), NEW bits
  PROVE  ParseMadt(madt, bits) \in Founds
  <1>1. Len(madt.entries) \in Nat
    OBVIOUS
  <1> QED
    BY <1>1, MadtFold

\* The same with the state of read_mp_config_table's loop.
Readings == [found : Founds, end : BOOLEAN, skip : BOOLEAN]

\* An entry of the MP table adds at most one CPU, within the tables.
LEMMA MpEntryKeeps ==
  ASSUME NEW s \in Readings, NEW e \in MpEntries
  PROVE  MpEntry(s, e) \in Readings
  <1> DEFINE f == s.found
             Filled(i) == [f EXCEPT !.cpu_num_to_apic_id[i] = e.apic_id]
  <1>1. f \in Founds /\ f.num_cpus \in 1 .. MAX_CPUS /\ 0 \in Slots
    BY MaxAssumption DEF Readings, Founds, Slots
  <1>2. CASE e.type # "MP_PROCESSOR"
    BY <1>2 DEF MpEntry, Readings
  <1>3. CASE e.type = "MP_PROCESSOR"
    <2>1. e.apic_id \in Nat /\ e.local \in BOOLEAN /\ e.boot \in BOOLEAN
      BY <1>3 DEF MpEntries
    <2>2. \A g \in Founds : [g EXCEPT !.found_cpus = @ + 1] \in Founds
      BY DEF Founds
    <2>3. \A g \in Founds : g.num_cpus < MAX_CPUS => [g EXCEPT !.num_cpus = @ + 1] \in Founds
      BY MaxAssumption DEF Founds
    <2>4. \A i \in Slots : Filled(i) \in Founds /\ Filled(i).num_cpus = f.num_cpus
      BY <1>1, <2>1 DEF Founds
    <2>5. f.num_cpus < MAX_CPUS => f.num_cpus \in Slots
      BY <1>1, MaxAssumption DEF Slots
    <2> HIDE DEF f, Filled
    <2>6. [Filled(0) EXCEPT !.found_cpus = @ + 1] \in Founds
      BY <1>1, <2>2, <2>4
    <2>7. f.num_cpus < MAX_CPUS =>
            [[Filled(f.num_cpus) EXCEPT !.num_cpus = @ + 1] EXCEPT !.found_cpus = @ + 1] \in Founds
      BY <2>2, <2>3, <2>4, <2>5
    <2>8. [f EXCEPT !.found_cpus = @ + 1] \in Founds
      BY <1>1, <2>2
    <2>9. [f EXCEPT !.cpu_num_to_apic_id[0] = e.apic_id, !.found_cpus = @ + 1] \in Founds
      BY <2>6 DEF Filled
    <2>10. f.num_cpus < MAX_CPUS =>
          [f EXCEPT !.cpu_num_to_apic_id[f.num_cpus] = e.apic_id,
                                     !.num_cpus = @ + 1, !.found_cpus = @ + 1] \in Founds
      BY <2>7 DEF Filled
    <2>11. \A g \in Founds : [s EXCEPT !.end = ~e.local, !.found = g] \in Readings
      BY <2>1 DEF Readings
    <2> DEFINE counted == IF e.boot
                      THEN [f EXCEPT !.cpu_num_to_apic_id[0] = e.apic_id, !.found_cpus = @ + 1]
                      ELSE IF f.num_cpus < MAX_CPUS
                      THEN [f EXCEPT !.cpu_num_to_apic_id[f.num_cpus] = e.apic_id,
                                     !.num_cpus = @ + 1, !.found_cpus = @ + 1]
                      ELSE [f EXCEPT !.found_cpus = @ + 1]
    <2>12. counted \in Founds
      BY <2>9, <2>10, <2>8
    <2>13. MpEntry(s, e) = IF s.end THEN s ELSE IF s.skip THEN [s EXCEPT !.skip = FALSE]
                          ELSE [s EXCEPT !.end = ~e.local, !.found = counted]
      BY <1>3 DEF MpEntry, f, Readings
    <2> HIDE DEF counted
    <2>14. [s EXCEPT !.end = ~e.local, !.found = counted] \in Readings
      BY <2>12, <2>11
    <2>15. [s EXCEPT !.skip = FALSE] \in Readings
      BY DEF Readings
    <2> QED
      BY <2>13, <2>14, <2>15
  <1> QED
    BY <1>2, <1>3

\* Before an entry was read.
NoneRead == [found |-> NotFound, end |-> FALSE, skip |-> FALSE]

\* read_mp_config_table reads the entries one after the other.
LEMMA MpFold ==
  ASSUME NEW mp \in Seq(MpEntries)
  PROVE  \E f \in [0 .. Len(mp) -> Readings] :
           /\ f[0] = NoneRead
           /\ \A k \in 1 .. Len(mp) : f[k] = MpEntry(f[k - 1], mp[k])
           /\ ReadMpConfigTable(mp) = f[Len(mp)].found
  <1> DEFINE n == Len(mp)
             step == [i \in 1 .. n |-> [s \in Readings |-> MpEntry(s, mp[i])]]
             Folded(result) == [s \in SUBSET (1 .. n) |->
                        IF s = {} THEN NoneRead ELSE MpEntry(result[s \ {Max(s)}], mp[Max(s)])]
             result == CHOOSE result : result = Folded(result)
             f == [k \in 0 .. n |-> result[1 .. k]]
             Good == {k \in 0 .. n : f[k] \in Readings}
  <1>1. n \in Nat /\ DOMAIN mp = 1 .. n /\ \A i \in 1 .. n : mp[i] \in MpEntries
    OBVIOUS
  <1>2. ReadMpConfigTable(mp) = result[1 .. n].found
    BY <1>1 DEF ReadMpConfigTable, FoldLeft, MapThenFoldSet, NoneRead
  <1> HIDE DEF result
  <1>3. NoneRead \in Readings
    BY NotFoundTyped DEF Readings, NoneRead
  <1>4. result = Folded(result)
    <2>1. step \in [1 .. n -> [Readings -> Readings]]
      BY <1>1, MpEntryKeeps
    <2>2. PICK fold \in [SUBSET (1 .. n) -> Readings] : IsFold(fold, n, NoneRead, step)
      BY <1>1, <1>3, <2>1, FoldExists
    <2>3. ASSUME NEW s \in SUBSET (1 .. n), s # {}
          PROVE  fold[s] = MpEntry(fold[s \ {Max(s)}], mp[Max(s)])
      <3>1. Max(s) \in 1 .. n
        BY <1>1, <2>3, MaxIndex
      <3>2. fold[s \ {Max(s)}] \in Readings
        BY <2>2
      <3> QED
        BY <2>2, <2>3, <3>1, <3>2 DEF IsFold
    <2>4. fold = Folded(fold)
      BY <2>2, <2>3 DEF IsFold
    <2> QED
      BY <2>4 DEF result
  <1>5. f[0] = NoneRead
    <2>1. 1 .. 0 = {}
      OBVIOUS
    <2> QED
      BY <1>1, <1>4, <2>1
  <1>6. ASSUME NEW k \in 1 .. n
        PROVE  f[k] = MpEntry(f[k - 1], mp[k])
    <2>1. /\ Max(1 .. k) = k /\ (1 .. k) \ {k} = 1 .. k - 1 /\ 1 .. k # {}
          /\ 1 .. k \in SUBSET (1 .. n)
      BY PrefixMax, SMTT(30)
    <2>2. f[k] = result[1 .. k] /\ f[k - 1] = result[1 .. k - 1]
      BY <1>1
    <2>3. result[1 .. k] = MpEntry(result[1 .. k - 1], mp[k])
      BY <1>4, <2>1
    <2> QED
      BY <2>2, <2>3
  <1> HIDE DEF f, n
  <1>7. 0 \in Good /\ \A k \in 1 .. n : k - 1 \in Good => k \in Good
    BY <1>1, <1>3, <1>5, <1>6, MpEntryKeeps
  <1>8. \A k \in 0 .. n : k \in Good
    BY <1>1, <1>7, UpTo
  <1>9. f \in [0 .. n -> Readings]
    BY <1>8 DEF f
  <1>10. ReadMpConfigTable(mp) = f[n].found
    BY <1>1, <1>2 DEF f
  <1> QED
    BY <1>5, <1>6, <1>9, <1>10 DEF n

\* read_mp_config_table counts at least one CPU and at most MAX_CPUS.
LEMMA ReadMpTyped ==
  ASSUME NEW mp \in Seq(MpEntries)
  PROVE  ReadMpConfigTable(mp) \in Founds
  <1>1. Len(mp) \in Nat
    OBVIOUS
  <1> QED
    BY <1>1, MpFold DEF Readings

\* The MADT that is read has the entries of one.
LEMMA MadtRead ==
  ASSUME NEW fw \in Firmwares, GoodMadts(fw) # {}
  PROVE  fw.madts[CHOOSE x \in GoodMadts(fw) : \A y \in GoodMadts(fw) : x <= y].entries
           \in Seq(MadtEntries)
  <1> DEFINE least == CHOOSE x \in GoodMadts(fw) : \A y \in GoodMadts(fw) : x <= y
             madts == fw.madts
             Madts == [good : BOOLEAN, entries : Seq(MadtEntries)]
  <1>1. /\ madts \in Seq(Madts)
        /\ GoodMadts(fw) \subseteq DOMAIN madts
    BY FirmwareAssumption DEF GoodMadts
  <1> HIDE DEF madts, Madts
  <1>2. /\ GoodMadts(fw) \in SUBSET Nat
        /\ \A i \in DOMAIN madts : madts[i] \in Madts
    <2>1. DOMAIN madts = 1 .. Len(madts) /\ Len(madts) \in Nat
      BY <1>1
    <2>2. \A i \in DOMAIN madts : madts[i] \in Madts
      BY <1>1
    <2> QED
      BY <1>1, <2>1, <2>2
  <1>3. \E x \in GoodMadts(fw) : \A y \in GoodMadts(fw) : x <= y
    BY <1>2, LeastNat
  <1>4. least \in GoodMadts(fw)
    BY <1>3
  <1>5. madts[least] \in Madts
    BY <1>1, <1>2, <1>4
  <1> QED
    BY <1>5 DEF madts, Madts

\* smp_find_cpus counts at least one CPU and at most MAX_CPUS.
LEMMA CountsInRange == CpuCounts \subseteq 1 .. MAX_CPUS
  <1> SUFFICES ASSUME NEW fw \in Firmwares PROVE SmpFindCpus(fw).num_cpus \in 1 .. MAX_CPUS
    BY DEF CpuCounts
  <1>1. CASE GoodMadts(fw) # {}
    <2> DEFINE least == CHOOSE x \in GoodMadts(fw) : \A y \in GoodMadts(fw) : x <= y
    <2>1. fw.madts[least].entries \in Seq(MadtEntries)
      BY <1>1, MadtRead
    <2>2. SmpFindCpus(fw) = ParseMadt(fw.madts[least], LogicalCpuBits(fw.cpu))
      BY <1>1 DEF SmpFindCpus
    <2> QED
      BY <2>1, <2>2, ParseMadtTyped DEF Founds
  <1>2. CASE GoodMadts(fw) = {}
    <2>1. ReadMpConfigTable(fw.mp) \in Founds
      BY FirmwareAssumption, ReadMpTyped
    <2>2. [NotFound EXCEPT !.num_cpus = 2, !.cpu_num_to_apic_id = [@ EXCEPT ![1] = 1]].num_cpus = 2
      BY DEF NotFound
    <2> QED
      BY <1>2, <2>1, <2>2, NotFoundTyped, MaxAssumption DEF SmpFindCpus, Founds
  <1> QED
    BY <1>1, <1>2

-----------------------------------------------------------------------------
(***************************************************************************)
(* CPU numbers.                                                            *)
(***************************************************************************)

\* The CPUs are numbered from the boot CPU, 0.
LEMMA CpuFacts ==
  /\ IsFiniteSet(CPU) /\ Cardinality(CPU) = MAX_CPUS
  /\ BSP \in CPU /\ BSP \notin APs
  /\ \A c \in CPU : c \in Nat /\ c < MAX_CPUS /\ (c = BSP \/ c \in APs)
  /\ \A c \in APs : c \in CPU /\ c > 0
  <1>1. IsFiniteSet(0 .. MAX_CPUS - 1) /\ Cardinality(0 .. MAX_CPUS - 1) = MAX_CPUS
    BY MaxAssumption, FS_Interval
  <1> QED
    BY <1>1, MaxAssumption DEF CPU, Slots, BSP, APs

\* The CPUs that were found are as many as their count says.
LEMMA PresentCount ==
  ASSUME num_cpus \in 1 .. MAX_CPUS
  PROVE  /\ IsFiniteSet(Present) /\ Cardinality(Present) = num_cpus
         /\ BSP \in Present
         /\ \A c \in CPU : c \in Present <=> c < num_cpus
  <1>1. Present = 0 .. num_cpus - 1
    BY MaxAssumption DEF Present, CPU, Slots
  <1>2. IsFiniteSet(0 .. num_cpus - 1) /\ Cardinality(0 .. num_cpus - 1) = num_cpus
    BY FS_Interval
  <1>3. \A c \in CPU : c \in Present <=> c < num_cpus
    BY DEF Present
  <1>4. BSP \in Present
    BY <1>3, CpuFacts DEF BSP
  <1> QED
    BY <1>1, <1>2, <1>3, <1>4

\* There are never more ordinals than CPUs ...
LEMMA OrderedCount ==
  /\ IsFiniteSet(Ordered)
  /\ Cardinality(Ordered) \in 0 .. MAX_CPUS
  /\ Cardinality(Ordered) = MAX_CPUS => Ordered = CPU
  <1>1. Ordered \subseteq CPU
    BY DEF Ordered
  <1>2. /\ IsFiniteSet(Ordered)
        /\ Cardinality(Ordered) <= MAX_CPUS
        /\ Cardinality(Ordered) = MAX_CPUS => Ordered = CPU
    BY <1>1, CpuFacts, FS_Subset
  <1>3. Cardinality(Ordered) \in Nat
    BY <1>2, FS_CardinalityType
  <1> QED
    BY <1>2, <1>3, MaxAssumption

\* ... and there is one left for a CPU that has none.
LEMMA OrderedRoom ==
  ASSUME NEW c \in CPU, c \notin Ordered
  PROVE  /\ Cardinality(Ordered) \in 0 .. MAX_CPUS - 1
         /\ Cardinality(Ordered \cup {c}) = Cardinality(Ordered) + 1
  <1>1. Cardinality(Ordered) # MAX_CPUS
    BY OrderedCount
  <1>2. Cardinality(Ordered \cup {c}) = Cardinality(Ordered) + 1
    BY OrderedCount, FS_AddElement
  <1> QED
    BY <1>1, <1>2, OrderedCount, MaxAssumption

-----------------------------------------------------------------------------
(***************************************************************************)
(* The inductive invariant.                                                *)
(***************************************************************************)

\* Initially every CPU is before its start, and the boot CPU is to begin.
LEMMA InitIInv == Init => IInv
  <1> SUFFICES ASSUME Init PROVE IInv
    OBVIOUS
  <1> USE CpuFacts, MaxAssumption DEF Init
  <1>1. TypeOK
    BY DEF TypeOK, Lines, APs
  <1>2. PathInv
    BY DEF PathInv, Unordered, Unreported
  <1>3. KickInv
    BY DEF KickInv
  <1>4. ReportInv
    BY DEF ReportInv
  <1>5. MutexInv
    BY DEF MutexInv, Owner
  <1>6. OrdInv
    <2>1. Ordered = {}
      BY DEF Ordered
    <2>2. Cardinality({}) = 0
      BY FS_EmptySet
    <2> QED
      BY <2>1, <2>2 DEF OrdInv, Unordered, Unreported
  <1>7. PhaseInv
    BY DEF PhaseInv, Measured, Paired, Done
  <1> QED
    BY <1>1, <1>2, <1>3, <1>4, <1>5, <1>6, <1>7 DEF IInv

\* No step of a CPU, and no time-out, leaves the invariant.
LEMMA StepIInv ==
  ASSUME IInv, [Next]_vars
  PROVE  IInv'
  <1> USE CpuFacts, MaxAssumption DEF Goto, sizes, ords, boots
  <1>1. TypeOK /\ PathInv /\ KickInv /\ ReportInv /\ MutexInv /\ OrdInv /\ PhaseInv
    BY DEF IInv
  <1>2. CASE BspBegin
    <2>1. cpu_ord \in 0 .. MAX_CPUS - 1
      <3>1. BSP \notin Ordered
        BY <1>1, <1>2 DEF BspBegin, OrdInv, Ordered
      <3>2. Cardinality(Ordered) \in 0 .. MAX_CPUS - 1
        BY <3>1, OrderedRoom
      <3> QED
        BY <1>1, <3>2 DEF OrdInv
    <2>2. TypeOK'
      BY <1>1, <1>2, <2>1 DEF BspBegin, TypeOK, Lines
    <2>3. PathInv'
      BY <1>1, <1>2 DEF BspBegin, TypeOK, PathInv, KickInv, Shared, Measured, Paired, Done, Unordered, Unreported
    <2>4. KickInv'
      BY <1>1, <1>2 DEF BspBegin, TypeOK, KickInv, PathInv
    <2>5. ReportInv'
      BY <1>1, <1>2 DEF BspBegin, TypeOK, ReportInv, Unreported
    <2>6. MutexInv'
      BY <1>1, <1>2 DEF BspBegin, TypeOK, MutexInv, Owner, KickInv
    <2>7. OrdInv'
      <3>1. BSP \notin Ordered /\ Ordered' = Ordered \cup {BSP}
        BY <1>1, <1>2, OrderedCount DEF BspBegin, TypeOK, Ordered, OrdInv
      <3>2. cpu_ord = Cardinality(Ordered) /\ cpu_ord' = Cardinality(Ordered')
        BY <1>1, <1>2, <3>1, OrderedRoom DEF BspBegin, OrdInv
      <3> QED
        BY <1>1, <1>2, <3>1, <3>2, OrderedCount DEF BspBegin, TypeOK, OrdInv, KickInv, Ordered
    <2>8. PhaseInv'
      BY <1>1, <1>2 DEF BspBegin, TypeOK, PhaseInv, Present, Measured, Paired, Done, PathInv, Shared
    <2> QED
      BY <2>2, <2>3, <2>4, <2>5, <2>6, <2>7, <2>8 DEF IInv
  <1>3. CASE InitialiseCpus
    <2>1. TypeOK'
      BY <1>1, <1>3, CountsInRange DEF InitialiseCpus, TypeOK, Lines
    <2>2. PathInv'
      BY <1>1, <1>3 DEF InitialiseCpus, TypeOK, PathInv, KickInv, Shared, Measured, Paired, Done, Unordered, Unreported
    <2>3. KickInv'
      BY <1>1, <1>3, CountsInRange DEF InitialiseCpus, TypeOK, KickInv, PathInv
    <2>4. ReportInv'
      BY <1>1, <1>3 DEF InitialiseCpus, TypeOK, ReportInv, Unreported, KickInv
    <2>5. MutexInv'
      BY <1>1, <1>3 DEF InitialiseCpus, TypeOK, MutexInv, Owner, KickInv
    <2>6. OrdInv'
      <3>1. Ordered' = Ordered
        BY <1>1, <1>3 DEF InitialiseCpus, Ordered
      <3> QED
        BY <1>1, <1>3, <3>1 DEF InitialiseCpus, TypeOK, OrdInv, Unordered, Unreported, Shared, Measured, Paired, Done
    <2>7. PhaseInv'
      BY <1>1, <1>3 DEF InitialiseCpus, TypeOK, PhaseInv, Present, Measured, Paired, Done, PathInv, Shared, KickInv
    <2> QED
      BY <2>1, <2>2, <2>3, <2>4, <2>5, <2>6, <2>7 DEF IInv
  <1>4. CASE KickAp
    <2>1. next \in APs /\ pc[next] = "off"
      BY <1>1, <1>4 DEF KickAp, TypeOK, KickInv, APs, CPU, Slots, BSP
    <2>2. TypeOK'
      BY <1>1, <1>4 DEF KickAp, TypeOK, Lines, KickInv
    <2>3. PathInv'
      BY <1>1, <1>4 DEF KickAp, TypeOK, PathInv, KickInv, Shared, Measured, Paired, Done, Unordered, Unreported, BSP
    <2>4. KickInv'
      BY <1>1, <1>4 DEF KickAp, TypeOK, KickInv, PathInv, BSP
    <2>5. ReportInv'
      BY <1>1, <1>4 DEF KickAp, TypeOK, ReportInv, Unreported, KickInv
    <2>6. MutexInv'
      BY <1>1, <1>4, <2>1 DEF KickAp, TypeOK, MutexInv, Owner
    <2>7. OrdInv'
      <3>1. Ordered' = Ordered
        BY <1>1, <1>4 DEF KickAp, Ordered
      <3> QED
        BY <1>1, <1>4, <3>1 DEF KickAp, TypeOK, OrdInv, Unordered, Unreported, Shared, Measured, Paired, Done, KickInv
    <2>8. PhaseInv'
      BY <1>1, <1>4, PresentCount DEF KickAp, TypeOK, PhaseInv, Present, Measured, Paired, Done
    <2> QED
      BY <2>2, <2>3, <2>4, <2>5, <2>6, <2>7, <2>8 DEF IInv
  <1>5. CASE ApReported
    <2>1. TypeOK'
      BY <1>1, <1>5 DEF ApReported, TypeOK, Lines, KickInv
    <2>2. PathInv'
      BY <1>1, <1>5 DEF ApReported, TypeOK, PathInv, KickInv, Shared, Measured, Paired, Done, Unordered, Unreported
    <2>3. KickInv'
      BY <1>1, <1>5 DEF ApReported, TypeOK, KickInv, PathInv
    <2>4. ReportInv'
      BY <1>1, <1>5 DEF ApReported, TypeOK, ReportInv, Unreported
    <2>5. MutexInv'
      BY <1>1, <1>5 DEF ApReported, TypeOK, MutexInv, Owner
    <2>6. OrdInv'
      <3>1. Ordered' = Ordered
        BY <1>1, <1>5 DEF ApReported, Ordered
      <3> QED
        BY <1>1, <1>5, <3>1 DEF ApReported, TypeOK, OrdInv, Unordered, Unreported, Shared, Measured, Paired, Done
    <2>7. PhaseInv'
      BY <1>1, <1>5 DEF ApReported, TypeOK, PhaseInv, Present, Measured, Paired, Done
    <2> QED
      BY <2>1, <2>2, <2>3, <2>4, <2>5, <2>6, <2>7 DEF IInv
  <1>6. CASE ApTimeout
    <2>1. TypeOK'
      BY <1>1, <1>6 DEF ApTimeout, TypeOK, Lines, KickInv, APs, CPU, Slots, BSP
    <2>2. PathInv'
      BY <1>1, <1>6 DEF ApTimeout, TypeOK, PathInv, KickInv, Shared, Measured, Paired, Done, Unordered, Unreported
    <2>3. KickInv'
      BY <1>1, <1>6 DEF ApTimeout, TypeOK, KickInv, PathInv
    <2>4. ReportInv'
      BY <1>1, <1>6 DEF ApTimeout, TypeOK, ReportInv, Unreported
    <2>5. MutexInv'
      BY <1>1, <1>6 DEF ApTimeout, TypeOK, MutexInv, Owner
    <2>6. OrdInv'
      <3>1. Ordered' = Ordered
        BY <1>1, <1>6 DEF ApTimeout, Ordered
      <3> QED
        BY <1>1, <1>6, <3>1 DEF ApTimeout, TypeOK, OrdInv, Unordered, Unreported, Shared, Measured, Paired, Done
    <2>7. PhaseInv'
      BY <1>1, <1>6 DEF ApTimeout, TypeOK, PhaseInv, Present, Measured, Paired, Done
    <2> QED
      BY <2>1, <2>2, <2>3, <2>4, <2>5, <2>6, <2>7 DEF IInv
  <1>7. CASE BspReady
    <2>1. TypeOK'
      BY <1>1, <1>7 DEF BspReady, TypeOK, Lines
    <2>2. PathInv'
      BY <1>1, <1>7 DEF BspReady, TypeOK, PathInv, KickInv, Shared, Measured, Paired, Done, Unordered, Unreported
    <2>3. KickInv'
      BY <1>1, <1>7 DEF BspReady, TypeOK, KickInv, PathInv
    <2>4. ReportInv'
      BY <1>1, <1>7 DEF BspReady, TypeOK, ReportInv, Unreported
    <2>5. MutexInv'
      BY <1>1, <1>7 DEF BspReady, TypeOK, MutexInv, Owner
    <2>6. OrdInv'
      <3>1. Ordered' = Ordered
        BY <1>1, <1>7 DEF BspReady, Ordered
      <3> QED
        BY <1>1, <1>7, <3>1 DEF BspReady, TypeOK, OrdInv, Unordered, Unreported, Shared, Measured, Paired, Done
    <2>7. PhaseInv'
      BY <1>1, <1>7 DEF BspReady, TypeOK, PhaseInv, Present, Measured, Paired, Done
    <2> QED
      BY <2>1, <2>2, <2>3, <2>4, <2>5, <2>6, <2>7 DEF IInv
  <1>8. ASSUME NEW c \in APs, ApWake(c) PROVE IInv'
    <2>1. TypeOK'
      BY <1>1, <1>8 DEF ApWake, TypeOK, Lines
    <2>2. PathInv'
      BY <1>1, <1>8 DEF ApWake, TypeOK, PathInv, KickInv, Shared, Measured, Paired, Done, Unordered, Unreported
    <2>3. KickInv'
      BY <1>1, <1>8 DEF ApWake, TypeOK, KickInv, PathInv
    <2>4. ReportInv'
      BY <1>1, <1>8 DEF ApWake, TypeOK, ReportInv, Unreported
    <2>5. MutexInv'
      BY <1>1, <1>8 DEF ApWake, TypeOK, MutexInv, Owner
    <2>6. OrdInv'
      <3>1. Ordered' = Ordered
        BY <1>1, <1>8 DEF ApWake, Ordered
      <3> QED
        BY <1>1, <1>8, <3>1 DEF ApWake, TypeOK, OrdInv, Unordered, Unreported, Shared, Measured, Paired, Done
    <2>7. PhaseInv'
      BY <1>1, <1>8 DEF ApWake, TypeOK, PhaseInv, Present, Measured, Paired, Done
    <2> QED
      BY <2>1, <2>2, <2>3, <2>4, <2>5, <2>6, <2>7 DEF IInv
  <1>9. ASSUME NEW c \in APs, ApStart(c) PROVE IInv'
    <2>1. pc'[c] = "report"
      <3>1. c \in Present /\ pc[BSP] # "begin"
        BY <1>1, <1>9, PresentCount DEF ApStart, TypeOK, KickInv
      <3>2. start_seq # 2
        BY <1>1, <1>9, <3>1 DEF ApStart, PathInv, PhaseInv, Measured, Paired, Done
      <3> QED
        BY <1>1, <1>9, <3>1, <3>2 DEF ApStart, TypeOK, PathInv
    <2>2. TypeOK'
      BY <1>1, <1>9 DEF ApStart, TypeOK, Lines
    <2>3. PathInv'
      BY <1>1, <1>9, <2>1 DEF ApStart, TypeOK, PathInv, KickInv, Shared, Measured, Paired, Done, Unordered, Unreported
    <2>4. KickInv'
      BY <1>1, <1>9 DEF ApStart, TypeOK, KickInv, PathInv
    <2>5. ReportInv'
      BY <1>1, <1>9 DEF ApStart, TypeOK, ReportInv, Unreported
    <2>6. MutexInv'
      BY <1>1, <1>9, <2>1 DEF ApStart, TypeOK, MutexInv, Owner
    <2>7. OrdInv'
      <3>1. Ordered' = Ordered
        BY <1>1, <1>9 DEF ApStart, Ordered
      <3> QED
        BY <1>1, <1>9, <2>1, <3>1 DEF ApStart, TypeOK, OrdInv, Unordered, Unreported, Shared, Measured, Paired, Done
    <2>8. PhaseInv'
      BY <1>1, <1>9 DEF ApStart, TypeOK, PhaseInv, Present, Measured, Paired, Done
    <2> QED
      BY <2>2, <2>3, <2>4, <2>5, <2>6, <2>7, <2>8 DEF IInv
  <1>10. ASSUME NEW c \in APs, ApReport(c) PROVE IInv'
    <2>1. TypeOK'
      BY <1>1, <1>10 DEF ApReport, TypeOK, Lines
    <2>2. PathInv'
      BY <1>1, <1>10 DEF ApReport, TypeOK, PathInv, KickInv, Shared, Measured, Paired, Done, Unordered, Unreported
    <2>3. KickInv'
      BY <1>1, <1>10 DEF ApReport, TypeOK, KickInv, PathInv
    <2>4. ReportInv'
      BY <1>1, <1>10 DEF ApReport, TypeOK, ReportInv, Unreported
    <2>5. MutexInv'
      BY <1>1, <1>10 DEF ApReport, TypeOK, MutexInv, Owner
    <2>6. OrdInv'
      <3>1. Ordered' = Ordered
        BY <1>1, <1>10 DEF ApReport, Ordered
      <3> QED
        BY <1>1, <1>10, <3>1 DEF ApReport, TypeOK, OrdInv, Unordered, Unreported, Shared, Measured, Paired, Done
    <2>7. PhaseInv'
      BY <1>1, <1>10 DEF ApReport, TypeOK, PhaseInv, Present, Measured, Paired, Done
    <2> QED
      BY <2>1, <2>2, <2>3, <2>4, <2>5, <2>6, <2>7 DEF IInv
  <1>11. ASSUME NEW c \in APs, ApLock(c) PROVE IInv'
    <2>1. TypeOK'
      BY <1>1, <1>11 DEF ApLock, TypeOK, Lines
    <2>2. PathInv'
      BY <1>1, <1>11 DEF ApLock, TypeOK, PathInv, KickInv, Shared, Measured, Paired, Done, Unordered, Unreported
    <2>3. KickInv'
      BY <1>1, <1>11 DEF ApLock, TypeOK, KickInv, PathInv
    <2>4. ReportInv'
      BY <1>1, <1>11 DEF ApLock, TypeOK, ReportInv, Unreported
    <2>5. MutexInv'
      BY <1>1, <1>11 DEF ApLock, TypeOK, MutexInv, Owner
    <2>6. OrdInv'
      <3>1. Ordered' = Ordered
        BY <1>1, <1>11 DEF ApLock, Ordered
      <3> QED
        BY <1>1, <1>11, <3>1 DEF ApLock, TypeOK, OrdInv, Unordered, Unreported, Shared, Measured, Paired, Done
    <2>7. PhaseInv'
      BY <1>1, <1>11 DEF ApLock, TypeOK, PhaseInv, Present, Measured, Paired, Done
    <2> QED
      BY <2>1, <2>2, <2>3, <2>4, <2>5, <2>6, <2>7 DEF IInv
  <1>12. ASSUME NEW c \in APs, ApReadOrd(c) PROVE IInv'
    <2>1. cpu_ord \in 0 .. MAX_CPUS - 1
      <3>1. c \notin Ordered
        BY <1>1, <1>12 DEF ApReadOrd, OrdInv, Ordered, Unordered
      <3>2. Cardinality(Ordered) \in 0 .. MAX_CPUS - 1
        BY <3>1, OrderedRoom
      <3> QED
        BY <1>1, <3>2 DEF OrdInv
    <2>2. TypeOK'
      BY <1>1, <1>12, <2>1 DEF ApReadOrd, TypeOK, Lines
    <2>3. PathInv'
      BY <1>1, <1>12 DEF ApReadOrd, TypeOK, PathInv, KickInv, Shared, Measured, Paired, Done, Unordered, Unreported
    <2>4. KickInv'
      BY <1>1, <1>12 DEF ApReadOrd, TypeOK, KickInv, PathInv
    <2>5. ReportInv'
      BY <1>1, <1>12 DEF ApReadOrd, TypeOK, ReportInv, Unreported
    <2>6. MutexInv'
      BY <1>1, <1>12 DEF ApReadOrd, TypeOK, MutexInv, Owner
    <2>7. OrdInv'
      <3>1. Ordered' = Ordered
        BY <1>1, <1>12 DEF ApReadOrd, Ordered
      <3> QED
        BY <1>1, <1>12, <3>1 DEF ApReadOrd, TypeOK, OrdInv, Unordered, Unreported, Shared, Measured, Paired, Done
    <2>8. PhaseInv'
      BY <1>1, <1>12 DEF ApReadOrd, TypeOK, PhaseInv, Present, Measured, Paired, Done
    <2> QED
      BY <2>2, <2>3, <2>4, <2>5, <2>6, <2>7, <2>8 DEF IInv
  <1>13. ASSUME NEW c \in APs, ApBumpOrd(c) PROVE IInv'
    <2>1. TypeOK'
      BY <1>1, <1>13, OrderedCount DEF ApBumpOrd, TypeOK, Lines, OrdInv, Ordered, Unordered
    <2>2. PathInv'
      BY <1>1, <1>13 DEF ApBumpOrd, TypeOK, PathInv, KickInv, Shared, Measured, Paired, Done, Unordered, Unreported
    <2>3. KickInv'
      BY <1>1, <1>13 DEF ApBumpOrd, TypeOK, KickInv, PathInv
    <2>4. ReportInv'
      BY <1>1, <1>13 DEF ApBumpOrd, TypeOK, ReportInv, Unreported
    <2>5. MutexInv'
      BY <1>1, <1>13 DEF ApBumpOrd, TypeOK, MutexInv, Owner
    <2>6. OrdInv'
      <3>1. c \notin Ordered /\ Ordered' = Ordered \cup {c}
        BY <1>1, <1>13, OrderedCount DEF ApBumpOrd, TypeOK, Ordered, OrdInv, Unordered
      <3>2. cpu_ord = Cardinality(Ordered) /\ cpu_ord' = Cardinality(Ordered')
        BY <1>1, <1>13, <3>1, OrderedRoom DEF ApBumpOrd, OrdInv
      <3>3. cpu_ord' = cpu_ord + 1 /\ num_to_ord' = [num_to_ord EXCEPT ![c] = cpu_ord]
        BY <1>1, <1>13 DEF ApBumpOrd, OrdInv
      <3>4. \A d \in CPU : pc'[d] # "bumpOrd"
        BY <1>1, <1>13 DEF ApBumpOrd, TypeOK, MutexInv, Owner
      <3>5. \A d \in Ordered' : num_to_ord'[d] = IF d = c THEN cpu_ord ELSE num_to_ord[d]
        BY <1>1, <3>3 DEF TypeOK, Ordered
      <3>6. /\ \A d \in Ordered' : num_to_ord'[d] \in 0 .. cpu_ord' - 1
            /\ \A k \in 0 .. cpu_ord' - 1 : \E d \in Ordered' : num_to_ord'[d] = k
            /\ \A d, e \in Ordered' : num_to_ord'[d] = num_to_ord'[e] => d = e
        BY <1>1, <3>1, <3>3, <3>5 DEF TypeOK, OrdInv
      <3>7. \A d \in APs : num_to_ord'[d] = -1 <=> pc'[d] \in Unordered
        BY <1>1, <1>13, <3>3 DEF ApBumpOrd, TypeOK, OrdInv, Unordered, Unreported
      <3>8. num_to_ord'[BSP] = -1 <=> pc'[BSP] = "begin"
        BY <1>1, <1>13, <3>3 DEF ApBumpOrd, TypeOK, OrdInv
      <3> QED
        BY <3>2, <3>4, <3>6, <3>7, <3>8 DEF OrdInv
    <2>7. PhaseInv'
      BY <1>1, <1>13 DEF ApBumpOrd, TypeOK, PhaseInv, Present, Measured, Paired, Done
    <2> QED
      BY <2>1, <2>2, <2>3, <2>4, <2>5, <2>6, <2>7 DEF IInv
  <1>14. ASSUME NEW c \in APs, ApUnlock(c) PROVE IInv'
    <2>1. TypeOK'
      BY <1>1, <1>14 DEF ApUnlock, TypeOK, Lines
    <2>2. PathInv'
      BY <1>1, <1>14 DEF ApUnlock, TypeOK, PathInv, KickInv, Shared, Measured, Paired, Done, Unordered, Unreported
    <2>3. KickInv'
      BY <1>1, <1>14 DEF ApUnlock, TypeOK, KickInv, PathInv
    <2>4. ReportInv'
      BY <1>1, <1>14 DEF ApUnlock, TypeOK, ReportInv, Unreported
    <2>5. MutexInv'
      BY <1>1, <1>14 DEF ApUnlock, TypeOK, MutexInv, Owner
    <2>6. OrdInv'
      <3>1. Ordered' = Ordered
        BY <1>1, <1>14 DEF ApUnlock, Ordered
      <3> QED
        BY <1>1, <1>14, <3>1 DEF ApUnlock, TypeOK, OrdInv, Unordered, Unreported, Shared, Measured, Paired, Done
    <2>7. PhaseInv'
      BY <1>1, <1>14 DEF ApUnlock, TypeOK, PhaseInv, Present, Measured, Paired, Done
    <2> QED
      BY <2>1, <2>2, <2>3, <2>4, <2>5, <2>6, <2>7 DEF IInv
  <1>15. CASE BarrierRelease
    <2> DEFINE inside == {c \in CPU : InBarrier(c)}
    <2>1. inside = Present
      <3>1. \A c \in inside : c \in Present
        BY <1>1, PresentCount DEF TypeOK, KickInv, InBarrier, AfterBarrier
      <3>2. num_cpus = 1 \/ Cardinality(inside) = num_cpus
        BY <1>1, <1>15 DEF BarrierRelease, KickInv, InBarrier, AfterBarrier
      <3>3. Cardinality(inside) = num_cpus => inside = Present
        BY <1>1, <3>1, PresentCount, FS_Subset DEF TypeOK
      <3>4. num_cpus = 1 => Present = {BSP}
        BY PresentCount DEF Present, CPU, Slots, BSP
      <3> QED
        BY <1>15, <3>1, <3>2, <3>3, <3>4 DEF BarrierRelease
    <2>2. \E line \in DOMAIN AfterBarrier :
            /\ \A c \in Present : pc[c] = line
            /\ pc' = [c \in CPU |-> IF c \in Present THEN AfterBarrier[line] ELSE pc[c]]
      <3>1. PICK b \in CPU : InBarrier(b)
        BY <1>15 DEF BarrierRelease
      <3>2. \A c \in Present : pc[c] = pc[b]
        BY <1>1, <2>1, <3>1 DEF PhaseInv, InBarrier, AfterBarrier, Measured, Paired, Done
      <3>3. pc' = [c \in CPU |-> IF c \in Present THEN AfterBarrier[pc[b]] ELSE pc[c]]
        BY <1>15, <2>1, <3>2 DEF BarrierRelease
      <3> QED
        BY <3>1, <3>2, <3>3 DEF InBarrier
    <2>3. \A c \in CPU : c \notin Present => pc[c] = "off" /\ pc'[c] = "off"
      BY <1>1, <2>2, PresentCount DEF TypeOK, KickInv
    <2>4. UNCHANGED <<Healthy, sizes, ords, boots, mutex, start_seq, Present>>
      BY <1>15 DEF BarrierRelease, Present
    <2> HIDE DEF inside
    <2>5. PICK line \in DOMAIN AfterBarrier :
            /\ \A c \in Present : pc[c] = line
            /\ pc' = [c \in CPU |-> IF c \in Present THEN AfterBarrier[line] ELSE pc[c]]
      BY <2>2
    <2>6. \A c \in Present : pc[c] = line /\ c \in CPU
      BY <2>5 DEF Present
    <2>7. /\ pc[BSP] \in Shared /\ pc'[BSP] \in Shared
          /\ \A c \in CPU : \/ pc[c] = "off" /\ pc'[c] = "off"
                            \/ pc[c] \in Shared /\ pc'[c] \in Shared
      <3>1. line \in Shared /\ AfterBarrier[line] \in Shared
        BY DEF AfterBarrier, Shared, Measured, Paired, Done
      <3>2. BSP \in Present
        BY <1>1, PresentCount DEF TypeOK
      <3>3. \A c \in CPU : pc'[c] = IF c \in Present THEN AfterBarrier[line] ELSE pc[c]
        BY <2>5
      <3>4. \A c \in Present : pc[c] \in Shared /\ pc'[c] \in Shared
        BY <2>6, <3>1, <3>3
      <3> QED
        BY <2>3, <3>2, <3>4
    <2>8. TypeOK'
      BY <1>1, <2>3, <2>4, <2>5 DEF TypeOK, Lines, AfterBarrier
    <2>9. PathInv'
      BY <1>1, <2>4, <2>5, <2>7, <2>3 DEF TypeOK, PathInv, AfterBarrier, Shared, Measured, Paired, Done, Unordered, Unreported
    <2>10. KickInv'
      BY <1>1, <2>4, <2>7 DEF KickInv, Shared, Measured, Paired, Done
    <2>11. ReportInv'
      BY <1>1, <2>4, <2>7 DEF ReportInv, Unreported, Shared, Measured, Paired, Done
    <2>12. MutexInv'
      BY <1>1, <2>4, <2>7 DEF MutexInv, Owner, Shared, Measured, Paired, Done
    <2>13. OrdInv'
      <3>1. Ordered' = Ordered
        BY <2>4 DEF Ordered
      <3> QED
        BY <1>1, <2>4, <2>7, <3>1 DEF OrdInv, Unordered, Unreported, Shared, Measured, Paired, Done
    <2>14. PhaseInv'
      <3>1. \A c \in CPU : c \notin Present => pc'[c] \notin Measured \cup Paired \cup Done
        BY <2>3 DEF Measured, Paired, Done
      <3>2. \A c \in Present : pc'[c] = AfterBarrier[line]
        BY <2>5 DEF Present
      <3> QED
        BY <2>4, <3>1, <3>2 DEF PhaseInv
    <2> QED
      BY <2>8, <2>9, <2>10, <2>11, <2>12, <2>13, <2>14 DEF IInv
  <1>16. ASSUME NEW c \in CPU, CheckStartSeq(c) PROVE IInv'
    <2>1. pc'[c] = "barrier388"
      <3>1. c \in Present
        BY <1>1, <1>16, PresentCount DEF CheckStartSeq, TypeOK, KickInv
      <3>2. start_seq # 2
        BY <1>1, <1>16, <3>1 DEF CheckStartSeq, PathInv, PhaseInv, Measured, Paired, Done
      <3> QED
        BY <1>1, <1>16, <3>2 DEF CheckStartSeq, TypeOK
    <2>2. TypeOK'
      BY <1>1, <1>16 DEF CheckStartSeq, TypeOK, Lines
    <2>3. PathInv'
      BY <1>1, <1>16 DEF CheckStartSeq, TypeOK, PathInv, KickInv, Shared, Measured, Paired, Done, Unordered, Unreported
    <2>4. KickInv'
      BY <1>1, <1>16 DEF CheckStartSeq, TypeOK, KickInv, PathInv
    <2>5. ReportInv'
      BY <1>1, <1>16 DEF CheckStartSeq, TypeOK, ReportInv, Unreported
    <2>6. MutexInv'
      BY <1>1, <1>16 DEF CheckStartSeq, TypeOK, MutexInv, Owner
    <2>7. OrdInv'
      <3>1. Ordered' = Ordered
        BY <1>1, <1>16 DEF CheckStartSeq, Ordered
      <3> QED
        BY <1>1, <1>16, <3>1 DEF CheckStartSeq, TypeOK, OrdInv, Unordered, Unreported, Shared, Measured, Paired, Done
    <2>8. PhaseInv'
      BY <1>1, <1>16, <2>1 DEF CheckStartSeq, TypeOK, PhaseInv, Present, Measured, Paired, Done
    <2> QED
      BY <2>2, <2>3, <2>4, <2>5, <2>6, <2>7, <2>8 DEF IInv
  <1>17. ASSUME NEW c \in CPU, MemSpeed(c) PROVE IInv'
    <2>1. TypeOK'
      BY <1>1, <1>17 DEF MemSpeed, TypeOK, Lines
    <2>2. PathInv'
      BY <1>1, <1>17 DEF MemSpeed, TypeOK, PathInv, KickInv, Shared, Measured, Paired, Done, Unordered, Unreported
    <2>3. KickInv'
      BY <1>1, <1>17 DEF MemSpeed, TypeOK, KickInv, PathInv
    <2>4. ReportInv'
      BY <1>1, <1>17 DEF MemSpeed, TypeOK, ReportInv, Unreported
    <2>5. MutexInv'
      BY <1>1, <1>17 DEF MemSpeed, TypeOK, MutexInv, Owner
    <2>6. OrdInv'
      <3>1. Ordered' = Ordered
        BY <1>1, <1>17 DEF MemSpeed, Ordered
      <3> QED
        BY <1>1, <1>17, <3>1 DEF MemSpeed, TypeOK, OrdInv, Unordered, Unreported, Shared, Measured, Paired, Done
    <2>7. PhaseInv'
      BY <1>1, <1>17 DEF MemSpeed, TypeOK, PhaseInv, Present, Measured, Paired, Done
    <2> QED
      BY <2>1, <2>2, <2>3, <2>4, <2>5, <2>6, <2>7 DEF IInv
  <1>18. ASSUME NEW c \in CPU, SetStartSeq(c) PROVE IInv'
    <2>1. TypeOK'
      BY <1>1, <1>18 DEF SetStartSeq, TypeOK, Lines
    <2>2. PathInv'
      BY <1>1, <1>18 DEF SetStartSeq, TypeOK, PathInv, KickInv, Shared, Measured, Paired, Done, Unordered, Unreported
    <2>3. KickInv'
      BY <1>1, <1>18 DEF SetStartSeq, TypeOK, KickInv, PathInv
    <2>4. ReportInv'
      BY <1>1, <1>18 DEF SetStartSeq, TypeOK, ReportInv, Unreported
    <2>5. MutexInv'
      BY <1>1, <1>18 DEF SetStartSeq, TypeOK, MutexInv, Owner
    <2>6. OrdInv'
      <3>1. Ordered' = Ordered
        BY <1>1, <1>18 DEF SetStartSeq, Ordered
      <3> QED
        BY <1>1, <1>18, <3>1 DEF SetStartSeq, TypeOK, OrdInv, Unordered, Unreported, Shared, Measured, Paired, Done
    <2>7. PhaseInv'
      BY <1>1, <1>18 DEF SetStartSeq, TypeOK, PhaseInv, Present, Measured, Paired, Done
    <2> QED
      BY <2>1, <2>2, <2>3, <2>4, <2>5, <2>6, <2>7 DEF IInv
  <1>19. CASE UNCHANGED vars
    BY <1>1, <1>19 DEF vars, IInv, TypeOK, PathInv, KickInv, ReportInv, MutexInv, Owner, OrdInv,
       Ordered, PhaseInv, Present
  <1> QED
    BY <1>2, <1>3, <1>4, <1>5, <1>6, <1>7, <1>8, <1>9, <1>10, <1>11, <1>12, <1>13, <1>14, <1>15, <1>16, <1>17, <1>18, <1>19 DEF Next, BspStep, ApStep, AnyStep, BootOver

-----------------------------------------------------------------------------
(***************************************************************************)
(* What follows from the invariant.                                        *)
(***************************************************************************)

\* A CPU that runs is one of those that were found.
LEMMA RunningIsPresent ==
  ASSUME IInv
  PROVE  /\ BSP \in Present
         /\ \A c \in APs : pc[c] # "off" => c \in Present
  BY CpuFacts, PresentCount DEF IInv, TypeOK, KickInv

\* Once a CPU is in the tests, the ordinals are those of all CPUs found.
LEMMA DenseAtTests == IInv => OrdinalsDense
  <1> SUFFICES ASSUME IInv PROVE OrdinalsDense
    OBVIOUS
  <1> USE CpuFacts DEF IInv
  <1>1. ASSUME NEW c \in CPU, NEW d \in CPU, num_to_ord[c] = num_to_ord[d], num_to_ord[c] # -1
        PROVE  c = d
    BY <1>1 DEF OrdInv, Ordered
  <1>2. ASSUME NEW t \in CPU, pc[t] = "tests"
        PROVE  {num_to_ord[c] : c \in Present} = 0 .. act_cpus - 1
    <2>1. \A c \in Present : c \in CPU /\ pc[c] \in Done
      BY <1>2 DEF PhaseInv, Done, Present
    <2>2. \A c \in CPU : c \in Ordered <=> c \in Present
      <3>1. \A c \in Present : c \in Ordered
        BY <2>1 DEF OrdInv, Ordered, Unordered, Unreported, Done
      <3>2. \A c \in APs : c \in Ordered => c \in Present
        BY RunningIsPresent DEF OrdInv, Ordered, Unordered, Unreported
      <3> QED
        BY <3>1, <3>2, RunningIsPresent
    <2>3. Ordered = Present
      BY <2>2 DEF Ordered, Present
    <2>4. cpu_ord = num_cpus
      BY <2>3, PresentCount DEF OrdInv, TypeOK
    <2>5. act_cpus = num_cpus
      BY <2>1, RunningIsPresent DEF KickInv, Done
    <2> QED
      BY <2>3, <2>4, <2>5 DEF OrdInv
  <1> QED
    BY <1>1, <1>2 DEF OrdinalsDense

\* The barrier has its size before a CPU is at it.
LEMMA SizedBeforeEntered == IInv => BarrierSized
  BY CpuFacts DEF IInv, KickInv, BarrierSized

\* A CPU is on the boot stack only while the boot CPU waits for it.
LEMMA OneOnBootStack == IInv => BootStackExclusive
  <1> SUFFICES ASSUME IInv, timedOut = {},
                      NEW c \in APs, pc[c] = "bootStack", NEW d \in APs, pc[d] = "bootStack"
               PROVE  c = d
    BY DEF BootStackExclusive
  <1>1. ~(c < next) /\ ~(d < next)
    BY DEF IInv, ReportInv, Unreported
  <1>2. c = next /\ d = next
    BY <1>1 DEF IInv, KickInv
  <1> QED
    BY <1>2

\* Every CPU decides as start_seq and its number say.
LEMMA BranchesRight == IInv => StartAgreed
  <1> SUFFICES ASSUME IInv PROVE StartAgreed
    OBVIOUS
  <1>1. ApTakesApPath
    BY DEF IInv, PathInv, ApTakesApPath, Unordered, Unreported, Shared, Measured, Paired, Done
  <1>2. ASSUME NEW c \in CPU, pc[c] \in {"barrier377", "startSeq383"}
        PROVE  start_seq = 1
    <2>1. c \in Present
      BY <1>2, CpuFacts, RunningIsPresent
    <2>2. start_seq # 2
      BY <1>2, <2>1 DEF IInv, PathInv, PhaseInv, Measured, Paired, Done
    <2>3. start_seq # 0
      BY <1>2, CpuFacts DEF IInv, PathInv, KickInv
    <2> QED
      BY <2>2, <2>3 DEF IInv, TypeOK
  <1> QED
    BY <1>1, <1>2 DEF StartAgreed, CheckedTogether

-----------------------------------------------------------------------------
\* However many CPUs there are and in whatever order and how late the APs come
\* up, the counters, the barrier's mutex and size, the ordinals and the places
\* of the CPUs in the start-up code of smp.c and main.c agree as IInv says.
THEOREM Invariance == Spec => []IInv
  BY InitIInv, StepIInv, PTL DEF Spec

\* Every CPU that test_start lets into the tests has an ordinal of its own, all
\* of 0 .. act_cpus - 1 are taken, the barrier has the right size before anyone
\* is in it, and without a boot timeout nobody shares the boot stack.
THEOREM BootCorrect == Spec => []BootInv
  <1>1. IInv => BootInv
    BY DenseAtTests, SizedBeforeEntered, OneOnBootStack DEF BootInv
  <1> QED
    BY Invariance, <1>1, PTL

\* No CPU takes a wrong branch of test_start, however late it reads start_seq.
THEOREM BranchesAgreed == Spec => []StartAgreed
  BY Invariance, BranchesRight, PTL

-----------------------------------------------------------------------------
(***************************************************************************)
(* Which numbers the CPUs get.                                             *)
(***************************************************************************)

\* Every number is that of a listed CPU, no core has two, and every core has
\* one if there are numbers left.
Numbered(f, listed, bits) ==
  /\ \A i \in 0 .. f.num_cpus - 1 : f.cpu_num_to_apic_id[i] \in listed
  /\ \A i, j \in 0 .. f.num_cpus - 1 :
       Core(f.cpu_num_to_apic_id[i], bits) = Core(f.cpu_num_to_apic_id[j], bits) => i = j
  /\ \/ f.num_cpus = MAX_CPUS
     \/ \A id \in listed : \E i \in 0 .. f.num_cpus - 1 :
          Core(f.cpu_num_to_apic_id[i], bits) = Core(id, bits)

\* A CPU more that shares its core, or for which there is no number left.
LEMMA NumberedSame ==
  ASSUME NEW f \in Founds, NEW g \in Founds, NEW listed, NEW bits, NEW id,
         Numbered(f, listed, bits),
         g.num_cpus = f.num_cpus, g.cpu_num_to_apic_id = f.cpu_num_to_apic_id,
         \/ f.num_cpus = MAX_CPUS
         \/ \E i \in 0 .. f.num_cpus - 1 : Core(f.cpu_num_to_apic_id[i], bits) = Core(id, bits)
  PROVE  Numbered(g, listed \cup {id}, bits)
  BY DEF Numbered

\* A CPU more, with a core and a number of its own.
LEMMA NumberedMore ==
  ASSUME NEW f \in Founds, NEW g \in Founds, NEW listed, NEW bits, NEW id,
         Numbered(f, listed, bits), f.num_cpus < MAX_CPUS,
         g.num_cpus = f.num_cpus + 1,
         g.cpu_num_to_apic_id = [f.cpu_num_to_apic_id EXCEPT ![f.num_cpus] = id],
         \A i \in 0 .. f.num_cpus - 1 : Core(f.cpu_num_to_apic_id[i], bits) # Core(id, bits)
  PROVE  Numbered(g, listed \cup {id}, bits)
  <1> DEFINE n == f.num_cpus
             ids == f.cpu_num_to_apic_id
             now == g.cpu_num_to_apic_id
  <1>1. n \in 1 .. MAX_CPUS /\ ids \in [Slots -> Nat] /\ n \in Slots /\ MAX_CPUS \in Nat
    BY MaxAssumption, SMTT(30) DEF Founds, Slots
  <1>2. \A i \in 0 .. n - 1 : now[i] = ids[i]
    BY <1>1 DEF Slots
  <1>3. now[n] = id
    BY <1>1
  <1>4. \A i \in 0 .. g.num_cpus - 1 : i \in 0 .. n - 1 \/ i = n
    BY <1>1
  <1>5. 0 .. n - 1 \subseteq 0 .. g.num_cpus - 1 /\ n \in 0 .. g.num_cpus - 1
    BY <1>1
  <1> HIDE DEF n, ids, now
  <1>6. /\ \A i \in 0 .. n - 1 : ids[i] \in listed
        /\ \A i, j \in 0 .. n - 1 : Core(ids[i], bits) = Core(ids[j], bits) => i = j
        /\ \A old \in listed : \E i \in 0 .. n - 1 : Core(ids[i], bits) = Core(old, bits)
        /\ \A i \in 0 .. n - 1 : Core(ids[i], bits) # Core(id, bits)
    BY <1>1 DEF Numbered, n, ids
  <1>7. \A i \in 0 .. g.num_cpus - 1 : now[i] \in listed \cup {id}
    BY <1>2, <1>3, <1>4, <1>6
  <1>8. \A i, j \in 0 .. g.num_cpus - 1 : Core(now[i], bits) = Core(now[j], bits) => i = j
    BY <1>2, <1>3, <1>4, <1>6
  <1>9. \A old \in listed \cup {id} : \E i \in 0 .. g.num_cpus - 1 :
          Core(now[i], bits) = Core(old, bits)
    BY <1>2, <1>3, <1>5, <1>6
  <1> QED
    BY <1>7, <1>8, <1>9 DEF Numbered, now

\* Then the count and the numbers are as they should be.
LEMMA NumberedExact ==
  ASSUME NEW f \in Founds, NEW listed, IsFiniteSet(listed), NEW bits, Numbered(f, listed, bits)
  PROVE  /\ f.num_cpus = IF Cardinality({Core(id, bits) : id \in listed}) < MAX_CPUS
                         THEN Cardinality({Core(id, bits) : id \in listed}) ELSE MAX_CPUS
         /\ {f.cpu_num_to_apic_id[i] : i \in 0 .. f.num_cpus - 1} \subseteq listed
         /\ Cardinality({Core(id, bits) :
                           id \in {f.cpu_num_to_apic_id[i] : i \in 0 .. f.num_cpus - 1}}) = f.num_cpus
         /\ \A i \in 0 .. f.num_cpus - 1 : SmpMyCpuNum(f, f.cpu_num_to_apic_id[i]) = i
  <1> DEFINE n == f.num_cpus
             ids == f.cpu_num_to_apic_id
             S == 0 .. n - 1
             used == {ids[i] : i \in S}
             usedCores == {Core(id, bits) : id \in used}
             cores == {Core(id, bits) : id \in listed}
  <1>1. n \in 1 .. MAX_CPUS /\ ids \in [Slots -> Nat] /\ MAX_CPUS \in Nat /\ S \subseteq Slots
    BY MaxAssumption DEF Founds, Slots
  <1>2. /\ \A i \in S : ids[i] \in listed
        /\ \A i, j \in S : Core(ids[i], bits) = Core(ids[j], bits) => i = j
        /\ n = MAX_CPUS \/ \A id \in listed : \E i \in S : Core(ids[i], bits) = Core(id, bits)
    BY DEF Numbered
  <1>3. IsFiniteSet(S) /\ Cardinality(S) = n
    BY <1>1, FS_Interval
  <1> HIDE DEF n, ids, S
  <1>4. Cardinality(usedCores) = n /\ IsFiniteSet(usedCores)
    <2> DEFINE core == [i \in S |-> Core(ids[i], bits)]
    <2>1. \A i \in S : core[i] \in usedCores
      OBVIOUS
    <2>2. \A c \in usedCores : \E i \in S : core[i] = c
      OBVIOUS
    <2>3. \A i, j \in S : core[i] = core[j] => i = j
      BY <1>2
    <2> HIDE DEF usedCores
    <2>4. core \in [S -> usedCores]
      BY <2>1
    <2> HIDE DEF core
    <2>5. core \in Bijection(S, usedCores)
      <3>1. core \in Injection(S, usedCores)
        BY <2>3, <2>4 DEF Injection, IsInjective
      <3>2. core \in Surjection(S, usedCores)
        BY <2>2, <2>4 DEF Surjection
      <3> QED
        BY <3>1, <3>2 DEF Bijection
    <2>6. ExistsBijection(S, usedCores)
      BY <2>5 DEF ExistsBijection
    <2> QED
      BY <1>3, <2>6, FS_Bijection
  <1>5. IsFiniteSet(cores)
    <2> DEFINE core == [id \in listed |-> Core(id, bits)]
    <2>1. core \in Surjection(listed, cores)
      BY DEF Surjection
    <2> QED
      BY <2>1, FS_Surjection
  <1>6. used \subseteq listed /\ usedCores \subseteq cores
    BY <1>2
  <1>7. Cardinality(usedCores) <= Cardinality(cores) /\ Cardinality(cores) \in Nat
    BY <1>5, <1>6, FS_Subset, FS_CardinalityType
  <1>8. n # MAX_CPUS => cores = usedCores
    BY <1>2, <1>6
  <1>9. n = IF Cardinality(cores) < MAX_CPUS THEN Cardinality(cores) ELSE MAX_CPUS
    <2> HIDE DEF cores, usedCores
    <2>1. CASE n = MAX_CPUS
      BY <1>1, <1>4, <1>7, <2>1
    <2>2. CASE n # MAX_CPUS
      BY <1>1, <1>4, <1>8, <2>2
    <2> QED
      BY <2>1, <2>2
  <1>10. ASSUME NEW i \in S
         PROVE  SmpMyCpuNum(f, ids[i]) = i
    <2> DEFINE same == {j \in Slots : ids[j] = ids[i]}
    <2>1. i \in Nat /\ i < n /\ i \in Slots
      BY <1>1, <1>10 DEF S
    <2>2. i \in same
      BY <2>1
    <2>3. \A j \in same : i <= j
      <3> SUFFICES ASSUME NEW j \in Slots, ids[j] = ids[i], j < i PROVE FALSE
        BY <2>1 DEF Slots
      <3>1. j \in S
        BY <1>1, <2>1 DEF S, Slots
      <3> QED
        BY <1>2, <3>1, <2>1 DEF Slots
    <2>4. \A j \in same : j \in Nat
      BY DEF Slots
    <2>5. SmpMyCpuNum(f, ids[i]) = CHOOSE x \in same : \A y \in same : x <= y
      <3>1. same \cup (IF \E j \in Slots : ids[j] = ids[i] THEN {} ELSE {0}) = same
        BY <2>1
      <3> QED
        BY <3>1 DEF SmpMyCpuNum, ids
    <2>6. \A x \in same : (\A y \in same : x <= y) => x = i
      BY <2>1, <2>2, <2>3, <2>4
    <2> HIDE DEF same
    <2> QED
      BY <2>2, <2>3, <2>5, <2>6
  <1> QED
    BY <1>4, <1>6, <1>9, <1>10 DEF n, ids, S

-----------------------------------------------------------------------------
\* What parse_madt has found after k entries.
MadtSeen(f, k, pes, bits) ==
  LET on == {j \in 1 .. k : pes[j].enabled} IN
  /\ f \in Founds
  /\ on = {} => f = NotFound
  /\ on # {} => f.found_cpus > 0 /\ Numbered(f, {pes[j].apic_id : j \in on}, bits)
  /\ \A j \in on : (\A i \in on : j <= i) => f.cpu_num_to_apic_id[0] = pes[j].apic_id

\* The first CPU that is enabled is the boot CPU.
LEMMA FirstOn ==
  ASSUME NEW id \in Nat, NEW bits, NEW g \in Founds,
         g = [NotFound EXCEPT !.found_cpus = @ + 1, !.cpu_num_to_apic_id[0] = id]
  PROVE  g.found_cpus > 0 /\ g.cpu_num_to_apic_id[0] = id /\ Numbered(g, {id}, bits)
  <1>1. 0 \in Slots
    BY MaxAssumption DEF Slots
  <1>2. g.found_cpus = 1 /\ g.num_cpus = 1 /\ g.cpu_num_to_apic_id[0] = id
    BY <1>1 DEF NotFound
  <1>3. \A i \in 0 .. g.num_cpus - 1 : i = 0
    BY <1>2
  <1>4. 0 \in 0 .. g.num_cpus - 1
    BY <1>2
  <1> QED
    BY <1>2, <1>3, <1>4 DEF Numbered

\* One entry more.
LEMMA MadtSeesOne ==
  ASSUME NEW pes \in Seq(MadtEntries), NEW k \in 1 .. Len(pes), NEW bits,
         NEW f, MadtSeen(f, k - 1, pes, bits)
  PROVE  MadtSeen(MadtEntry(f, pes[k], bits), k, pes, bits)
  <1> DEFINE before == {j \in 1 .. k - 1 : pes[j].enabled}
             on == {j \in 1 .. k : pes[j].enabled}
             id == pes[k].apic_id
             listed == {pes[j].apic_id : j \in before}
             counted == [f EXCEPT !.found_cpus = @ + 1]
             g == MadtEntry(f, pes[k], bits)
  <1>0. k \in Nat /\ pes[k] \in MadtEntries
    OBVIOUS
  <1>1. pes[k].enabled \in BOOLEAN /\ id \in Nat /\ k \in Nat
    BY <1>0 DEF MadtEntries
  <1>2. /\ f \in Founds
        /\ before = {} => f = NotFound
        /\ before # {} => f.found_cpus > 0 /\ Numbered(f, listed, bits)
        /\ \A j \in before : (\A i \in before : j <= i) => f.cpu_num_to_apic_id[0] = pes[j].apic_id
    BY DEF MadtSeen
  <1> HIDE DEF listed, counted, g
  <1>3. g \in Founds
    BY <1>0, <1>2, MadtEntryKeeps DEF g
  <1>4. 1 .. k = (1 .. k - 1) \cup {k}
    BY <1>1
  <1>5. CASE ~pes[k].enabled
    <2>1. g = f
      BY <1>5 DEF MadtEntry, g
    <2>2. on = before
      BY <1>4, <1>5
    <2> QED
      BY <1>2, <2>1, <2>2 DEF MadtSeen, listed, g
  <1>6. CASE pes[k].enabled
    <2>1. on = before \cup {k} /\ on # {}
      BY <1>4, <1>6
    <2>2. {pes[j].apic_id : j \in on} = listed \cup {id}
      BY <2>1 DEF listed
    <2> HIDE DEF on, before, id
    <2>3. /\ counted.num_cpus = f.num_cpus /\ counted.cpu_num_to_apic_id = f.cpu_num_to_apic_id
          /\ counted.found_cpus > 0 /\ counted \in Founds
      BY <1>2 DEF Founds, counted
    <2>4. f.num_cpus \in 1 .. MAX_CPUS /\ f.found_cpus \in Nat
      BY <1>2 DEF Founds
    <2>5. CASE before = {}
      <3>1. f = NotFound /\ f.found_cpus = 0 /\ f.num_cpus < MAX_CPUS
        <4>1. NotFound.found_cpus = 0 /\ NotFound.num_cpus = 1
          BY DEF NotFound
        <4> QED
          BY <1>2, <2>5, <4>1, MaxAssumption
      <3>2. g = [NotFound EXCEPT !.found_cpus = @ + 1, !.cpu_num_to_apic_id[0] = id]
        <4>1. ~(f.num_cpus >= MAX_CPUS)
          BY <2>4, <3>1, MaxAssumption
        <4> QED
          BY <1>6, <2>4, <3>1, <4>1 DEF MadtEntry, g, id
      <3>3. g.found_cpus > 0 /\ g.cpu_num_to_apic_id[0] = id /\ Numbered(g, {id}, bits)
        BY <1>1, <1>3, <3>2, FirstOn
      <3>4. on = {k} /\ listed = {}
        BY <2>1, <2>5 DEF listed
      <3> QED
        BY <1>3, <2>2, <3>3, <3>4 DEF MadtSeen, on, id, g
    <2>6. CASE before # {}
      <3>1. g.found_cpus > 0 /\ Numbered(g, listed \cup {id}, bits)
            /\ g.cpu_num_to_apic_id[0] = f.cpu_num_to_apic_id[0]
        <4> DEFINE ids == f.cpu_num_to_apic_id
                   sameCore == {i \in 0 .. f.num_cpus - 1 : Core(ids[i], bits) = Core(id, bits)}
                   more == [counted EXCEPT !.cpu_num_to_apic_id[f.num_cpus] = id, !.num_cpus = @ + 1]
        <4>0. f.found_cpus # 0 /\ Numbered(f, listed, bits) /\ f.found_cpus > 0
          BY <1>2, <2>4, <2>6
        <4>1. CASE f.num_cpus >= MAX_CPUS
          <5>1. g = counted
            BY <1>6, <2>4, <4>1, MaxAssumption DEF MadtEntry, g, counted
          <5>2. f.num_cpus = MAX_CPUS
            BY <2>4, <4>1, MaxAssumption
          <5> QED
            BY <1>2, <2>3, <4>0, <5>1, <5>2, NumberedSame
        <4>2. CASE ~(f.num_cpus >= MAX_CPUS) /\ sameCore = {}
          <5>1. f.num_cpus < MAX_CPUS
            BY <2>4, <4>2, MaxAssumption
          <5>2. g = more
            BY <1>6, <4>0, <4>2, <5>1 DEF MadtEntry, g, counted, id
          <5>3. /\ more.num_cpus = f.num_cpus + 1 /\ more.found_cpus = counted.found_cpus
                /\ more.cpu_num_to_apic_id = [ids EXCEPT ![f.num_cpus] = id]
            BY <2>3 DEF Founds
          <5>4. \A i \in 0 .. f.num_cpus - 1 : Core(ids[i], bits) # Core(id, bits)
            BY <4>2
          <5>5. [ids EXCEPT ![f.num_cpus] = id][0] = ids[0]
            BY <2>4
          <5> HIDE DEF more
          <5>6. Numbered(g, listed \cup {id}, bits)
            BY <1>2, <1>3, <4>0, <5>1, <5>2, <5>3, <5>4, NumberedMore
          <5> QED
            BY <2>3, <5>2, <5>3, <5>5, <5>6
        <4>3. CASE ~(f.num_cpus >= MAX_CPUS) /\ sameCore # {}
          <5>1. f.num_cpus < MAX_CPUS
            BY <2>4, <4>3, MaxAssumption
          <5>2. g = f \/ g = counted
            BY <1>6, <4>0, <4>3, <5>1 DEF MadtEntry, g, counted, id
          <5>3. \E i \in 0 .. f.num_cpus - 1 : Core(ids[i], bits) = Core(id, bits)
            BY <4>3
          <5>4. Numbered(g, listed \cup {id}, bits)
            BY <1>2, <1>3, <2>3, <4>0, <5>2, <5>3, NumberedSame
          <5> QED
            BY <2>3, <4>0, <5>2, <5>4
        <4> QED
          BY <4>1, <4>2, <4>3
      <3>2. \A j \in on : (\A i \in on : j <= i) => g.cpu_num_to_apic_id[0] = pes[j].apic_id
        <4> SUFFICES ASSUME NEW j \in on, \A i \in on : j <= i
                     PROVE  f.cpu_num_to_apic_id[0] = pes[j].apic_id
          BY <3>1
        <4>1. PICK i \in before : TRUE
          BY <2>6
        <4>2. j # k
          BY <1>1, <2>1, <4>1 DEF before
        <4> QED
          BY <1>2, <2>1, <4>2
      <3> QED
        BY <1>3, <2>1, <2>2, <3>1, <3>2 DEF MadtSeen, on, g
    <2> QED
      BY <2>5, <2>6
  <1> QED
    BY <1>1, <1>5, <1>6

\* parse_madt gives every core of the enabled CPUs a number.
LEMMA MadtNumbers ==
  ASSUME NEW madt, madt.entries \in Seq(MadtEntries), NEW bits
  PROVE  MadtSeen(ParseMadt(madt, bits), Len(madt.entries), madt.entries, bits)
  <1> DEFINE pes == madt.entries
             n == Len(pes)
  <1>1. n \in Nat /\ pes \in Seq(MadtEntries)
    OBVIOUS
  <1>2. PICK f \in [0 .. n -> Founds] :
          /\ f[0] = NotFound
          /\ \A k \in 1 .. n : f[k] = MadtEntry(f[k - 1], pes[k], bits)
          /\ ParseMadt(madt, bits) = f[n]
    BY MadtFold
  <1> DEFINE Good == {k \in 0 .. n : MadtSeen(f[k], k, pes, bits)}
  <1>3. 0 \in Good
    <2>1. {j \in 1 .. 0 : pes[j].enabled} = {}
      OBVIOUS
    <2> QED
      BY <1>1, <1>2, <2>1, NotFoundTyped DEF MadtSeen
  <1>4. ASSUME NEW k \in 1 .. n, k - 1 \in Good
        PROVE  k \in Good
    <2>1. f[k] = MadtEntry(f[k - 1], pes[k], bits) /\ k \in 0 .. n
      BY <1>2
    <2> QED
      BY <1>1, <1>4, <2>1, MadtSeesOne
  <1> HIDE DEF Good, n
  <1>5. \A k \in 1 .. n : k - 1 \in Good => k \in Good
    BY <1>4
  <1>6. \A k \in 0 .. n : k \in Good
    BY <1>1, <1>3, <1>5, UpTo
  <1>7. n \in Good
    BY <1>1, <1>6
  <1> QED
    BY <1>2, <1>7 DEF Good, n

-----------------------------------------------------------------------------
\* What read_mp_config_table has found after k entries of a sorted table.
MpSeen(s, k, mp) ==
  LET read == {j \in MpCpusRead(mp) : j <= k}
      ids == s.found.cpu_num_to_apic_id
      num == s.found.num_cpus
  IN /\ s \in Readings
     /\ (\A j \in 1 .. k : mp[j].type # "MP_INTSRC") =>
          ~s.skip /\ (s.end <=> \E j \in 1 .. k : Unreadable(mp[j]))
     /\ \A i \in 1 .. num - 1 : \E j \in read : ~mp[j].boot /\ ids[i] = mp[j].apic_id
     /\ \A i, j \in 1 .. num - 1 : ids[i] = ids[j] => i = j
     /\ \/ num = MAX_CPUS
        \/ \A j \in read : ~mp[j].boot => \E i \in 1 .. num - 1 : ids[i] = mp[j].apic_id
     /\ \A j \in read : mp[j].boot => ids[0] = mp[j].apic_id

\* One entry that is not read as a CPU.
LEMMA MpSkipsOne ==
  ASSUME NEW mp \in Seq(MpEntries), NEW k \in 1 .. Len(mp), NEW s, NEW t \in Readings,
         MpSeen(s, k - 1, mp), t.found = s.found, k \notin MpCpusRead(mp),
         (\A j \in 1 .. k : mp[j].type # "MP_INTSRC") =>
           ~t.skip /\ (t.end <=> \E j \in 1 .. k : Unreadable(mp[j]))
  PROVE  MpSeen(t, k, mp)
  <1>1. k \in Nat /\ MpCpusRead(mp) \subseteq Nat
    BY DEF MpCpusRead
  <1>2. {j \in MpCpusRead(mp) : j <= k} = {j \in MpCpusRead(mp) : j <= k - 1}
    BY <1>1
  <1> QED
    BY <1>2 DEF MpSeen

\* One CPU more.
LEMMA MpReadsOne ==
  ASSUME NEW mp \in Seq(MpEntries), MpSorted(mp), NEW k \in MpCpusRead(mp), NEW s \in Readings,
         MpSeen(s, k - 1, mp), ~s.end, ~s.skip
  PROVE  MpSeen(MpEntry(s, mp[k]), k, mp)
  <1> DEFINE cpus == MpCpusRead(mp)
             before == {j \in cpus : j <= k - 1}
             read == {j \in cpus : j <= k}
             f == s.found
             ids == f.cpu_num_to_apic_id
             num == f.num_cpus
             e == mp[k]
             t == MpEntry(s, e)
             now == t.found.cpu_num_to_apic_id
             nowNum == t.found.num_cpus
  <1>1. /\ k \in 1 .. Len(mp) /\ k \in Nat /\ e \in MpEntries /\ cpus \subseteq Nat
        /\ e.type = "MP_PROCESSOR" /\ \A j \in 1 .. k - 1 : ~Unreadable(mp[j])
    BY DEF MpCpusRead
  <1>2. e.apic_id \in Nat /\ e.boot \in BOOLEAN /\ e.local \in BOOLEAN
    BY <1>1 DEF MpEntries
  <1>3. f \in Founds /\ num \in 1 .. MAX_CPUS /\ ids \in [Slots -> Nat] /\ MAX_CPUS \in Nat
    BY MaxAssumption DEF Readings, Founds
  <1>4. read = before \cup {k} /\ k \notin before
    BY <1>1
  <1>5. /\ \A i \in 1 .. num - 1 : \E j \in before : ~mp[j].boot /\ ids[i] = mp[j].apic_id
        /\ \A i, j \in 1 .. num - 1 : ids[i] = ids[j] => i = j
        /\ num = MAX_CPUS \/ \A j \in before : ~mp[j].boot => \E i \in 1 .. num - 1 : ids[i] = mp[j].apic_id
        /\ \A j \in before : mp[j].boot => ids[0] = mp[j].apic_id
    BY DEF MpSeen
  <1>6. \A j \in before : mp[j].apic_id # e.apic_id /\ ~(mp[j].boot /\ e.boot)
    BY <1>4 DEF MpSorted
  <1>7. t \in Readings
    BY <1>1, MpEntryKeeps
  <1>8. /\ t.end = ~e.local /\ t.skip = FALSE
        /\ t.found = IF e.boot
                     THEN [f EXCEPT !.cpu_num_to_apic_id[0] = e.apic_id, !.found_cpus = @ + 1]
                     ELSE IF f.num_cpus < MAX_CPUS
                     THEN [f EXCEPT !.cpu_num_to_apic_id[f.num_cpus] = e.apic_id,
                                    !.num_cpus = @ + 1, !.found_cpus = @ + 1]
                     ELSE [f EXCEPT !.found_cpus = @ + 1]
    BY <1>1 DEF MpEntry, Readings
  <1>9. /\ e.boot => nowNum = num /\ now = [ids EXCEPT ![0] = e.apic_id]
        /\ ~e.boot /\ num < MAX_CPUS => nowNum = num + 1 /\ now = [ids EXCEPT ![num] = e.apic_id]
        /\ ~e.boot /\ ~(num < MAX_CPUS) => nowNum = num /\ now = ids
    BY <1>2, <1>3, <1>8 DEF Founds
  <1>10. t.end <=> \E j \in 1 .. k : Unreadable(mp[j])
    <2>1. Unreadable(e) <=> ~e.local
      BY <1>1 DEF Unreadable
    <2>2. 1 .. k = (1 .. k - 1) \cup {k}
      BY <1>1
    <2> QED
      BY <1>1, <1>2, <1>8, <2>1, <2>2
  <1> HIDE DEF before, read, f, ids, num, t, now, nowNum
  <1>11. /\ \A i \in 1 .. nowNum - 1 : \E j \in read : ~mp[j].boot /\ now[i] = mp[j].apic_id
         /\ \A i, j \in 1 .. nowNum - 1 : now[i] = now[j] => i = j
         /\ nowNum = MAX_CPUS \/ \A j \in read : ~mp[j].boot => \E i \in 1 .. nowNum - 1 : now[i] = mp[j].apic_id
         /\ \A j \in read : mp[j].boot => now[0] = mp[j].apic_id
    <2>1. CASE e.boot
      <3>1. 0 \in Slots /\ \A i \in 1 .. num - 1 : i \in Slots /\ i # 0
        BY <1>3, MaxAssumption DEF Slots
      <3>2. now[0] = e.apic_id /\ \A i \in 1 .. nowNum - 1 : now[i] = ids[i]
        BY <1>3, <1>9, <2>1, <3>1
      <3>3. nowNum = num
        BY <1>9, <2>1
      <3> QED
        BY <1>4, <1>5, <1>6, <2>1, <3>2, <3>3
    <2>2. CASE ~e.boot /\ num < MAX_CPUS
      <3>1. /\ num \in Slots /\ 0 # num /\ \A i \in 0 .. num - 1 : i \in Slots /\ i # num
            /\ 0 \in 0 .. num - 1 /\ 1 .. num - 1 \subseteq 0 .. num - 1
        BY <1>3, <2>2, MaxAssumption DEF Slots
      <3>2. nowNum = num + 1 /\ now[num] = e.apic_id /\ \A i \in 0 .. num - 1 : now[i] = ids[i]
        BY <1>3, <1>9, <2>2, <3>1
      <3>3. 1 .. nowNum - 1 = (1 .. num - 1) \cup {num} /\ now[0] = ids[0]
            /\ \A i \in 1 .. num - 1 : now[i] = ids[i]
        BY <1>3, <3>1, <3>2, SMTT(30)
      <3>4. \A i \in 1 .. num - 1 : ids[i] # e.apic_id
        BY <1>5, <1>6
      <3>5. num # MAX_CPUS
        BY <1>3, <2>2
      <3>6. \A i \in 1 .. nowNum - 1 : \E j \in read : ~mp[j].boot /\ now[i] = mp[j].apic_id
        BY <1>4, <1>5, <2>2, <3>2, <3>3
      <3>7. \A i, j \in 1 .. nowNum - 1 : now[i] = now[j] => i = j
        BY <1>5, <3>2, <3>3, <3>4
      <3>8. \A j \in read : ~mp[j].boot => \E i \in 1 .. nowNum - 1 : now[i] = mp[j].apic_id
        <4>1. ASSUME NEW j \in before, ~mp[j].boot
              PROVE  \E i \in 1 .. nowNum - 1 : now[i] = mp[j].apic_id
          <5>1. PICK i \in 1 .. num - 1 : ids[i] = mp[j].apic_id
            BY <1>5, <3>5, <4>1
          <5>2. now[i] = ids[i]
            BY <3>3
          <5> QED
            BY <3>3, <5>1, <5>2
        <4>2. now[num] = mp[k].apic_id /\ num \in 1 .. nowNum - 1
          BY <3>2, <3>3
        <4> QED
          BY <1>4, <4>1, <4>2
      <3>9. \A j \in read : mp[j].boot => now[0] = mp[j].apic_id
        BY <1>4, <1>5, <2>2, <3>3
      <3> QED
        BY <3>6, <3>7, <3>8, <3>9
    <2>3. CASE ~e.boot /\ ~(num < MAX_CPUS)
      <3>1. num = MAX_CPUS /\ nowNum = num /\ now = ids
        BY <1>3, <1>9, <2>3
      <3> QED
        BY <1>4, <1>5, <2>3, <3>1
    <2> QED
      BY <1>2, <2>1, <2>2, <2>3
  <1> QED
    BY <1>7, <1>8, <1>10, <1>11 DEF MpSeen, read, t, now, nowNum

\* One entry more.
LEMMA MpSeesOne ==
  ASSUME NEW mp \in Seq(MpEntries), MpSorted(mp), NEW k \in 1 .. Len(mp), NEW s,
         MpSeen(s, k - 1, mp)
  PROVE  MpSeen(MpEntry(s, mp[k]), k, mp)
  <1> DEFINE e == mp[k]
             t == MpEntry(s, e)
  <1>1. k \in Nat /\ e \in MpEntries /\ k \in DOMAIN mp /\ DOMAIN mp = 1 .. Len(mp)
    OBVIOUS
  <1>2. s \in Readings
    BY DEF MpSeen
  <1>3. t \in Readings
    BY <1>1, <1>2, MpEntryKeeps
  <1>4. 1 .. k = (1 .. k - 1) \cup {k}
    BY <1>1
  <1>5. CASE e.type # "MP_PROCESSOR"
    <2>1. t.found = s.found
      BY <1>2, <1>5 DEF MpEntry, Readings
    <2>2. k \notin MpCpusRead(mp)
      BY <1>5 DEF MpCpusRead
    <2>3. ASSUME \A j \in 1 .. k : mp[j].type # "MP_INTSRC"
          PROVE  ~t.skip /\ (t.end <=> \E j \in 1 .. k : Unreadable(mp[j]))
      <3>1. ~s.skip /\ (s.end <=> \E j \in 1 .. k - 1 : Unreadable(mp[j])) /\ e.type # "MP_INTSRC"
        BY <1>4, <2>3 DEF MpSeen
      <3>2. t = IF ~s.end /\ e.type = "unknown" THEN [s EXCEPT !.end = TRUE] ELSE s
        BY <1>2, <1>5, <3>1 DEF MpEntry, Readings
      <3>3. Unreadable(e) <=> e.type = "unknown"
        BY <1>5 DEF Unreadable
      <3>4. ~t.skip /\ (t.end <=> s.end \/ e.type = "unknown")
        BY <1>2, <3>1, <3>2 DEF Readings
      <3> QED
        BY <1>4, <3>1, <3>3, <3>4
    <2> QED
      BY <1>3, <2>1, <2>2, <2>3, MpSkipsOne
  <1>6. CASE e.type = "MP_PROCESSOR"
    <2>1. \A j \in 1 .. k : mp[j].type # "MP_INTSRC"
      <3> SUFFICES ASSUME NEW j \in 1 .. k, mp[j].type = "MP_INTSRC" PROVE FALSE
        OBVIOUS
      <3>1. j \in DOMAIN mp /\ ~(k < j)
        BY <1>1
      <3> QED
        BY <1>1, <1>6, <3>1 DEF MpSorted
    <2>2. ~s.skip /\ (s.end <=> \E j \in 1 .. k - 1 : Unreadable(mp[j]))
      BY <1>4, <2>1 DEF MpSeen
    <2>3. CASE s.end
      <3>1. t = s
        BY <2>3 DEF MpEntry
      <3>2. k \notin MpCpusRead(mp)
        BY <2>2, <2>3 DEF MpCpusRead
      <3> QED
        BY <1>3, <1>4, <2>2, <2>3, <3>1, <3>2, MpSkipsOne
    <2>4. CASE ~s.end
      <3>1. k \in MpCpusRead(mp)
        BY <1>1, <1>6, <2>2, <2>4 DEF MpCpusRead
      <3> QED
        BY <1>2, <2>2, <2>4, <3>1, MpReadsOne
    <2> QED
      BY <2>3, <2>4
  <1> QED
    BY <1>5, <1>6

\* read_mp_config_table gives the CPUs of a sorted table their numbers.
LEMMA MpNumbers ==
  ASSUME NEW mp \in Seq(MpEntries), MpSorted(mp)
  PROVE  \E s : MpSeen(s, Len(mp), mp) /\ ReadMpConfigTable(mp) = s.found
  <1> DEFINE n == Len(mp)
  <1>1. n \in Nat /\ DOMAIN mp = 1 .. n
    OBVIOUS
  <1>2. PICK s \in [0 .. n -> Readings] :
          /\ s[0] = NoneRead
          /\ \A k \in 1 .. n : s[k] = MpEntry(s[k - 1], mp[k])
          /\ ReadMpConfigTable(mp) = s[n].found
    BY MpFold
  <1> DEFINE Good == {k \in 0 .. n : MpSeen(s[k], k, mp)}
  <1>3. 0 \in Good
    <2>1. NoneRead \in Readings /\ NoneRead.skip = FALSE /\ NoneRead.end = FALSE
          /\ NoneRead.found = NotFound /\ NotFound.num_cpus = 1
      BY NotFoundTyped DEF Readings, NoneRead, NotFound
    <2>2. 1 .. 0 = {} /\ 1 .. 1 - 1 = {}
      OBVIOUS
    <2>3. {j \in MpCpusRead(mp) : j <= 0} = {}
      BY <1>1 DEF MpCpusRead
    <2>4. MpSeen(NoneRead, 0, mp)
      BY <2>1, <2>2, <2>3 DEF MpSeen
    <2> QED
      BY <1>1, <1>2, <2>4
  <1>4. ASSUME NEW k \in 1 .. n, k - 1 \in Good
        PROVE  k \in Good
    <2>1. s[k] = MpEntry(s[k - 1], mp[k]) /\ k \in 0 .. n
      BY <1>2
    <2> QED
      BY <1>1, <1>4, <2>1, MpSeesOne
  <1> HIDE DEF Good, n
  <1>5. \A k \in 1 .. n : k - 1 \in Good => k \in Good
    BY <1>4
  <1>6. \A k \in 0 .. n : k \in Good
    BY <1>1, <1>3, <1>5, UpTo
  <1>7. n \in Good
    BY <1>1, <1>6
  <1> QED
    BY <1>2, <1>7 DEF Good, n

\* Without threads, every CPU is a core.
LEMMA CoreAlone == \A id \in Nat : Core(id, 0) = id
  <1>1. 2^0 = 1
    OBVIOUS
  <1>2. \A id \in Nat : id \div 1 = id
    OBVIOUS
  <1> QED
    BY <1>1, <1>2 DEF Core

\* The boot processor of a sorted table has number 0, the others the rest.
LEMMA MpNumbered ==
  ASSUME NEW mp \in Seq(MpEntries), MpSorted(mp), MpCpusRead(mp) # {}
  PROVE  /\ Numbered(ReadMpConfigTable(mp), {mp[k].apic_id : k \in MpCpusRead(mp)}, 0)
         /\ \A k \in MpCpusRead(mp) :
              mp[k].boot => ReadMpConfigTable(mp).cpu_num_to_apic_id[0] = mp[k].apic_id
  <1> DEFINE cpus == MpCpusRead(mp)
             n == Len(mp)
             f == ReadMpConfigTable(mp)
             ids == f.cpu_num_to_apic_id
             num == f.num_cpus
             listed == {mp[k].apic_id : k \in cpus}
  <1>1. n \in Nat /\ DOMAIN mp = 1 .. n
    OBVIOUS
  <1>2. {j \in cpus : j <= n} = cpus
    BY <1>1 DEF MpCpusRead
  <1>3. /\ \A i \in 1 .. num - 1 : \E j \in cpus : ~mp[j].boot /\ ids[i] = mp[j].apic_id
        /\ \A i, j \in 1 .. num - 1 : ids[i] = ids[j] => i = j
        /\ \/ num = MAX_CPUS
           \/ \A j \in cpus : ~mp[j].boot => \E i \in 1 .. num - 1 : ids[i] = mp[j].apic_id
        /\ \A j \in cpus : mp[j].boot => ids[0] = mp[j].apic_id
        /\ f \in Founds
    <2>1. PICK s : MpSeen(s, n, mp) /\ f = s.found
      BY MpNumbers
    <2> QED
      BY <1>2, <2>1 DEF MpSeen, Readings
  <1>4. PICK boot \in cpus : \A k \in cpus : mp[k].boot <=> k = boot
    BY DEF MpSorted
  <1>5. \A i, j \in cpus : mp[i].apic_id = mp[j].apic_id => i = j
    BY DEF MpSorted
  <1>6. num \in 1 .. MAX_CPUS /\ ids \in [Slots -> Nat] /\ MAX_CPUS \in Nat
    BY <1>3, MaxAssumption DEF Founds
  <1>7. \A i \in 0 .. num - 1 : i \in Slots /\ (i = 0 \/ i \in 1 .. num - 1)
    BY <1>6 DEF Slots
  <1>8. 0 \in 0 .. num - 1 /\ \A i \in 1 .. num - 1 : i \in 0 .. num - 1
    BY <1>6
  <1>9. \A i \in 0 .. num - 1 : Core(ids[i], 0) = ids[i]
    BY <1>6, <1>7, CoreAlone
  <1>10. \A k \in cpus : Core(mp[k].apic_id, 0) = mp[k].apic_id
    <2> SUFFICES ASSUME NEW k \in cpus PROVE mp[k].apic_id \in Nat
      BY CoreAlone
    <2>1. mp[k] \in MpEntries /\ mp[k].type = "MP_PROCESSOR"
      BY DEF MpCpusRead
    <2> QED
      BY <2>1 DEF MpEntries
  <1> HIDE DEF cpus, f, ids, num, n
  <1>11. ids[0] = mp[boot].apic_id
    BY <1>3, <1>4
  <1>12. \A i \in 1 .. num - 1 : \E j \in cpus : j # boot /\ ids[i] = mp[j].apic_id
    BY <1>3, <1>4
  <1>13. \A i \in 1 .. num - 1 : ids[i] # ids[0]
    BY <1>5, <1>11, <1>12
  <1>14. \A i \in 0 .. num - 1 : ids[i] \in listed
    BY <1>7, <1>11, <1>12
  <1>15. \A i, j \in 0 .. num - 1 : ids[i] = ids[j] => i = j
    BY <1>3, <1>7, <1>13
  <1>16. num = MAX_CPUS \/ \A k \in cpus : \E i \in 0 .. num - 1 : ids[i] = mp[k].apic_id
    <2> SUFFICES ASSUME num # MAX_CPUS, NEW k \in cpus
                 PROVE  \E i \in 0 .. num - 1 : ids[i] = mp[k].apic_id
      OBVIOUS
    <2>1. CASE k = boot
      BY <1>8, <1>11, <2>1
    <2>2. CASE k # boot
      BY <1>3, <1>4, <1>8, <2>2
    <2> QED
      BY <2>1, <2>2
  <1>17. \/ num = MAX_CPUS
         \/ \A id \in listed : \E i \in 0 .. num - 1 : Core(ids[i], 0) = Core(id, 0)
    BY <1>9, <1>10, <1>16
  <1>18. \A i, j \in 0 .. num - 1 : Core(ids[i], 0) = Core(ids[j], 0) => i = j
    BY <1>9, <1>15
  <1>19. Numbered(f, listed, 0)
    BY <1>14, <1>17, <1>18 DEF Numbered, ids, num
  <1> QED
    BY <1>3, <1>19 DEF f, ids, cpus

\* The default configuration: two CPUs, 0 and 1.
LEMMA DefaultNumbered ==
  LET f == [NotFound EXCEPT !.num_cpus = 2, !.cpu_num_to_apic_id = [@ EXCEPT ![1] = 1]]
  IN f \in Founds /\ f.cpu_num_to_apic_id[0] = 0 /\ Numbered(f, {0, 1}, 0)
  <1> DEFINE f == [NotFound EXCEPT !.num_cpus = 2, !.cpu_num_to_apic_id = [@ EXCEPT ![1] = 1]]
  <1>1. 0 \in Slots /\ 1 \in Slots
    BY MaxAssumption DEF Slots
  <1>2. /\ f.num_cpus = 2 /\ f.found_cpus = 0
        /\ f.cpu_num_to_apic_id = [[i \in Slots |-> 0] EXCEPT ![1] = 1]
    BY DEF NotFound
  <1>3. f.cpu_num_to_apic_id[0] = 0 /\ f.cpu_num_to_apic_id[1] = 1
    BY <1>1, <1>2
  <1>4. f \in Founds
    <2>1. 2 \in 1 .. MAX_CPUS
      BY MaxAssumption
    <2>2. ASSUME NEW g \in Founds
          PROVE  [g EXCEPT !.num_cpus = 2, !.cpu_num_to_apic_id = [@ EXCEPT ![1] = 1]] \in Founds
      <3>1. [g.cpu_num_to_apic_id EXCEPT ![1] = 1] \in [Slots -> Nat]
        BY <1>1 DEF Founds
      <3> QED
        BY <2>1, <3>1 DEF Founds
    <2> QED
      BY <2>2, NotFoundTyped
  <1>5. \A i \in 0 .. 1 : i = 0 \/ i = 1
    OBVIOUS
  <1>6. Core(0, 0) = 0 /\ Core(1, 0) = 1
    BY CoreAlone
  <1>7. 0 .. f.num_cpus - 1 = 0 .. 1 /\ 0 \in 0 .. 1 /\ 1 \in 0 .. 1
    BY <1>2
  <1> HIDE DEF f
  <1>8. Numbered(f, {0, 1}, 0)
    BY <1>3, <1>5, <1>6, <1>7 DEF Numbered
  <1> QED
    BY <1>3, <1>4, <1>8 DEF f

\* The APIC IDs of finitely many entries.
LEMMA FiniteIds ==
  ASSUME NEW entries \in Seq(MadtEntries) \cup Seq(MpEntries), NEW S \in SUBSET (DOMAIN entries)
  PROVE  IsFiniteSet({entries[k].apic_id : k \in S})
  <1> DEFINE ids == {entries[k].apic_id : k \in S}
             id == [k \in S |-> entries[k].apic_id]
  <1>1. DOMAIN entries = 1 .. Len(entries) /\ Len(entries) \in Nat
    OBVIOUS
  <1>2. IsFiniteSet(S)
    <2>1. IsFiniteSet(1 .. Len(entries))
      BY <1>1, FS_Interval
    <2> QED
      BY <1>1, <2>1, FS_Subset
  <1>3. id \in Surjection(S, ids)
    BY DEF Surjection
  <1> QED
    BY <1>2, <1>3, FS_Surjection

-----------------------------------------------------------------------------
(***************************************************************************)
(* The bits of the threads.                                                *)
(***************************************************************************)

\* The powers of two that BitsFor chooses from.
LEMMA Doubles == \A b \in 0 .. 31 : 2^(b + 1) = 2 * 2^b
  <1>1. /\ 2^1 = 2 * 2^0 /\ 2^2 = 2 * 2^1 /\ 2^3 = 2 * 2^2 /\ 2^4 = 2 * 2^3
        /\ 2^5 = 2 * 2^4 /\ 2^6 = 2 * 2^5 /\ 2^7 = 2 * 2^6 /\ 2^8 = 2 * 2^7
    OBVIOUS
  <1>2. /\ 2^9 = 2 * 2^8 /\ 2^10 = 2 * 2^9 /\ 2^11 = 2 * 2^10 /\ 2^12 = 2 * 2^11
        /\ 2^13 = 2 * 2^12 /\ 2^14 = 2 * 2^13 /\ 2^15 = 2 * 2^14 /\ 2^16 = 2 * 2^15
    OBVIOUS
  <1>3. /\ 2^17 = 2 * 2^16 /\ 2^18 = 2 * 2^17 /\ 2^19 = 2 * 2^18 /\ 2^20 = 2 * 2^19
        /\ 2^21 = 2 * 2^20 /\ 2^22 = 2 * 2^21 /\ 2^23 = 2 * 2^22 /\ 2^24 = 2 * 2^23
    OBVIOUS
  <1>4. /\ 2^25 = 2 * 2^24 /\ 2^26 = 2 * 2^25 /\ 2^27 = 2 * 2^26 /\ 2^28 = 2 * 2^27
        /\ 2^29 = 2 * 2^28 /\ 2^30 = 2 * 2^29 /\ 2^31 = 2 * 2^30 /\ 2^32 = 2 * 2^31
    OBVIOUS
  <1>5. \A b : b = 0 \/ b = 1 \/ b = 2 \/ b = 3 \/ b = 4 \/ b = 5 \/ b = 6 \/ b = 7 =>
          2^(b + 1) = 2 * 2^b
    BY <1>1, 0 + 1 = 1, 1 + 1 = 2, 2 + 1 = 3, 3 + 1 = 4, 4 + 1 = 5, 5 + 1 = 6, 6 + 1 = 7, 7 + 1 = 8
  <1>6. \A b : b = 8 \/ b = 9 \/ b = 10 \/ b = 11 \/ b = 12 \/ b = 13 \/ b = 14 \/ b = 15 =>
          2^(b + 1) = 2 * 2^b
    BY <1>2, 8 + 1 = 9, 9 + 1 = 10, 10 + 1 = 11, 11 + 1 = 12, 12 + 1 = 13, 13 + 1 = 14, 14 + 1 = 15, 15 + 1 = 16
  <1>7. \A b : b = 16 \/ b = 17 \/ b = 18 \/ b = 19 \/ b = 20 \/ b = 21 \/ b = 22 \/ b = 23 =>
          2^(b + 1) = 2 * 2^b
    BY <1>3, 16 + 1 = 17, 17 + 1 = 18, 18 + 1 = 19, 19 + 1 = 20, 20 + 1 = 21, 21 + 1 = 22, 22 + 1 = 23, 23 + 1 = 24
  <1>8. \A b : b = 24 \/ b = 25 \/ b = 26 \/ b = 27 \/ b = 28 \/ b = 29 \/ b = 30 \/ b = 31 =>
          2^(b + 1) = 2 * 2^b
    BY <1>4, 24 + 1 = 25, 25 + 1 = 26, 26 + 1 = 27, 27 + 1 = 28, 28 + 1 = 29, 29 + 1 = 30, 30 + 1 = 31, 31 + 1 = 32, ZenonT(40)
  <1>9. \A b \in 0 .. 7 : b = 0 \/ b = 1 \/ b = 2 \/ b = 3 \/ b = 4 \/ b = 5 \/ b = 6 \/ b = 7
    OBVIOUS
  <1>10. \A b \in 8 .. 15 : b = 8 \/ b = 9 \/ b = 10 \/ b = 11 \/ b = 12 \/ b = 13 \/ b = 14 \/ b = 15
    OBVIOUS
  <1>11. \A b \in 16 .. 23 : b = 16 \/ b = 17 \/ b = 18 \/ b = 19 \/ b = 20 \/ b = 21 \/ b = 22 \/ b = 23
    OBVIOUS
  <1>12. \A b \in 24 .. 31 : b = 24 \/ b = 25 \/ b = 26 \/ b = 27 \/ b = 28 \/ b = 29 \/ b = 30 \/ b = 31
    OBVIOUS
  <1>13. \A b \in 0 .. 31 : b \in 0 .. 7 \/ b \in 8 .. 15 \/ b \in 16 .. 23 \/ b \in 24 .. 31
    OBVIOUS
  <1> QED
    BY <1>5, <1>6, <1>7, <1>8, <1>9, <1>10, <1>11, <1>12, <1>13

\* They are positive numbers.
LEMMA Powers == \A b \in 0 .. 31 : 2^b \in Nat /\ 2^b > 0
  <1> DEFINE Good == {b \in 0 .. 31 : 2^b \in Nat /\ 2^b > 0}
  <1>1. 0 \in Good
    <2>1. 2^0 = 1 /\ 0 \in 0 .. 31
      OBVIOUS
    <2> QED
      BY <2>1
  <1>2. ASSUME NEW k \in 1 .. 31, k - 1 \in Good
        PROVE  k \in Good
    <2>1. k - 1 \in 0 .. 31 /\ k \in 0 .. 31 /\ (k - 1) + 1 = k
      OBVIOUS
    <2>2. 2^((k - 1) + 1) = 2 * 2^(k - 1) /\ 2^(k - 1) \in Nat /\ 2^(k - 1) > 0
      BY <1>2, <2>1, Doubles
    <2> QED
      BY <2>1, <2>2
  <1> HIDE DEF Good
  <1>3. \A k \in 1 .. 31 : k - 1 \in Good => k \in Good
    BY <1>2
  <1>4. 31 \in Nat
    OBVIOUS
  <1>5. \A b \in 0 .. 31 : b \in Good
    BY <1>1, <1>3, <1>4, UpTo
  <1> QED
    BY <1>5 DEF Good

\* Every number of threads has bits, and they are enough and not too many.
LEMMA BitsForExact ==
  ASSUME NEW n \in 1 .. 255
  PROVE  /\ n <= 2^BitsFor(n)
         /\ BitsFor(n) > 0 => 2^(BitsFor(n) - 1) < n
  <1> DEFINE m == n * 2 - 1
             Fits(b) == 2^b <= m /\ m < 2^(b + 1)
             bits == BitsFor(n)
  <1>1. m \in 1 .. 509
    OBVIOUS
  <1>2. /\ 2^0 = 1 /\ 2^1 = 2 /\ 2^2 = 4 /\ 2^3 = 8 /\ 2^4 = 16
        /\ 2^5 = 32 /\ 2^6 = 64 /\ 2^7 = 128 /\ 2^8 = 256 /\ 2^9 = 512
    OBVIOUS
  <1>3. /\ 0 + 1 = 1 /\ 1 + 1 = 2 /\ 2 + 1 = 3 /\ 3 + 1 = 4 /\ 4 + 1 = 5
        /\ 5 + 1 = 6 /\ 6 + 1 = 7 /\ 7 + 1 = 8 /\ 8 + 1 = 9
    OBVIOUS
  <1> HIDE DEF m
  <1>4. \E b \in 0 .. 31 : Fits(b)
    <2>1. \/ (1 <= m /\ m < 2) \/ (2 <= m /\ m < 4) \/ (4 <= m /\ m < 8)
          \/ (8 <= m /\ m < 16) \/ (16 <= m /\ m < 32) \/ (32 <= m /\ m < 64)
          \/ (64 <= m /\ m < 128) \/ (128 <= m /\ m < 256) \/ (256 <= m /\ m < 512)
      BY <1>1
    <2>2. /\ Fits(0) <=> 1 <= m /\ m < 2
          /\ Fits(1) <=> 2 <= m /\ m < 4
          /\ Fits(2) <=> 4 <= m /\ m < 8
          /\ Fits(3) <=> 8 <= m /\ m < 16
          /\ Fits(4) <=> 16 <= m /\ m < 32
          /\ Fits(5) <=> 32 <= m /\ m < 64
          /\ Fits(6) <=> 64 <= m /\ m < 128
          /\ Fits(7) <=> 128 <= m /\ m < 256
          /\ Fits(8) <=> 256 <= m /\ m < 512
      BY <1>2, <1>3
    <2> HIDE DEF Fits
    <2> QED
      BY <2>1, <2>2
  <1>5. bits \in 0 .. 31 /\ Fits(bits)
    <2>1. bits = CHOOSE b \in 0 .. 31 : Fits(b)
      BY DEF BitsFor, m
    <2> HIDE DEF Fits, bits
    <2> QED
      BY <1>4, <2>1
  <1>6. 2^bits \in Nat /\ 2^(bits + 1) = 2 * 2^bits
    <2> HIDE DEF Fits, bits
    <2> QED
      BY <1>5, Doubles, Powers
  <1>7. n <= 2^bits
    <2> HIDE DEF bits
    <2> QED
      BY <1>5, <1>6 DEF m
  <1>8. ASSUME bits > 0 PROVE 2^(bits - 1) < n
    <2> HIDE DEF bits
    <2>1. bits - 1 \in 0 .. 31 /\ bits - 1 \in Nat /\ (bits - 1) + 1 = bits
      BY <1>5, <1>8
    <2>2. 2^bits = 2 * 2^(bits - 1) /\ 2^(bits - 1) \in Nat
      <3>1. 2^((bits - 1) + 1) = 2 * 2^(bits - 1)
        BY <2>1, Doubles
      <3>2. 2^(bits - 1) \in Nat
        BY <2>1, Powers
      <3> QED
        BY <2>1, <3>1, <3>2
    <2> QED
      BY <1>5, <1>6, <2>2 DEF m
  <1> QED
    BY <1>7, <1>8

\* Dividing by a positive number does not make it larger.
LEMMA Quotient ==
  ASSUME NEW a \in 0 .. 255, NEW c \in Nat, c > 0
  PROVE  a \div c \in 0 .. 255
  OBVIOUS

\* Whatever CPUID says, there are as many bits as it takes.
LEMMA ThreadBits ==
  ASSUME NEW cpu \in Cpuids
  PROVE  ThreadBitsExact(cpu)
  <1> DEFINE perCore == IF cpu.vendor = "AMD" /\ cpu.core_bits # 0 THEN 2^cpu.core_bits ELSE cpu.cores
             n == IF cpu.extended THEN cpu.logical \div perCore ELSE cpu.logical
             counts == /\ cpu.htt /\ cpu.level.type = 0 /\ n > 0
                       /\ cpu.vendor = "Intel" \/ (cpu.vendor = "AMD" /\ cpu.extended)
  <1>1. perCore \in Nat /\ perCore > 0
    <2>1. cpu.cores \in Nat /\ cpu.cores > 0 /\ cpu.core_bits \in 0 .. 31 /\ cpu.core_bits \in Nat
      BY CpuidAssumption
    <2>2. 2^cpu.core_bits \in Nat /\ 2^cpu.core_bits > 0
      BY <2>1, Powers
    <2> QED
      BY <2>1, <2>2
  <1>2. n \in 0 .. 255
    <2>1. cpu.logical \in 0 .. 255
      BY CpuidAssumption
    <2> HIDE DEF perCore
    <2> QED
      BY <1>1, <2>1, Quotient
  <1>3. ASSUME counts PROVE LogicalCpuBits(cpu) = BitsFor(n)
    <2>1. CASE cpu.vendor = "Intel"
      BY <1>3, <2>1 DEF LogicalCpuBits
    <2>2. CASE cpu.vendor = "AMD" /\ cpu.extended
      BY <1>3, <2>2 DEF LogicalCpuBits
    <2> QED
      BY <1>3, <2>1, <2>2
  <1>4. ASSUME counts
        PROVE  /\ n <= 2^LogicalCpuBits(cpu)
               /\ LogicalCpuBits(cpu) > 0 => 2^(LogicalCpuBits(cpu) - 1) < n
    <2>0. n > 0
      BY <1>4
    <2> HIDE DEF n
    <2>1. n \in 1 .. 255
      BY <1>2, <2>0
    <2>2. LogicalCpuBits(cpu) = BitsFor(n)
      BY <1>3, <1>4
    <2> QED
      BY <2>1, <2>2, BitsForExact
  <1> QED
    BY <1>4 DEF ThreadBitsExact

\* Every firmware whose MP table is sorted gives the CPUs their numbers.
LEMMA NumbersRight ==
  ASSUME NEW fw \in Firmwares, fw.fp = "table" => MpSorted(fw.mp)
  PROVE  CpuNumbersExact(fw)
  <1> DEFINE f == SmpFindCpus(fw)
             bits == IF GoodMadts(fw) # {} THEN LogicalCpuBits(fw.cpu) ELSE 0
             listed == {cpu.apic_id : cpu \in Listed(fw)}
  <1>1. ASSUME listed # {}
        PROVE  /\ f \in Founds /\ IsFiniteSet(listed) /\ Numbered(f, listed, bits)
               /\ \A cpu \in Listed(fw) : cpu.boot => f.cpu_num_to_apic_id[0] = cpu.apic_id
    <2>1. CASE GoodMadts(fw) # {}
      <3> DEFINE least == CHOOSE x \in GoodMadts(fw) : \A y \in GoodMadts(fw) : x <= y
                 madt == fw.madts[least]
                 pes == madt.entries
                 on == {k \in DOMAIN pes : pes[k].enabled}
      <3>1. pes \in Seq(MadtEntries)
        BY <2>1, MadtRead
      <3>2. f = ParseMadt(madt, bits)
        BY <2>1 DEF SmpFindCpus
      <3>3. Listed(fw) = {[apic_id |-> pes[k].apic_id, boot |-> \A j \in on : k <= j] : k \in on}
        BY <2>1 DEF Listed
      <3> HIDE DEF f, bits, least
      <3>4. MadtSeen(f, Len(pes), pes, bits)
        BY <3>1, <3>2, MadtNumbers
      <3> HIDE DEF madt
      <3>5. DOMAIN pes = 1 .. Len(pes)
        BY <3>1
      <3> HIDE DEF pes
      <3>6. listed = {pes[k].apic_id : k \in on}
        <4>1. \A cpu \in Listed(fw) : \E k \in on : cpu.apic_id = pes[k].apic_id
          BY <3>3
        <4>2. ASSUME NEW k \in on
              PROVE  \E cpu \in Listed(fw) : cpu.apic_id = pes[k].apic_id
          <5>1. [apic_id |-> pes[k].apic_id, boot |-> \A j \in on : k <= j] \in Listed(fw)
            BY <3>3
          <5> QED
            BY <5>1
        <4> QED
          BY <4>1, <4>2
      <3> HIDE DEF listed
      <3>7. on # {}
        BY <1>1, <3>6
      <3>8. on = {j \in 1 .. Len(pes) : pes[j].enabled}
        BY <3>5
      <3>9. f \in Founds /\ Numbered(f, listed, bits)
        BY <3>4, <3>6, <3>7, <3>8 DEF MadtSeen
      <3>10. \A j \in on : (\A i \in on : j <= i) => f.cpu_num_to_apic_id[0] = pes[j].apic_id
        BY <3>4, <3>8 DEF MadtSeen
      <3>11. IsFiniteSet(listed)
        BY <3>1, <3>6, FiniteIds
      <3> HIDE DEF on
      <3>12. \A cpu \in Listed(fw) : cpu.boot => f.cpu_num_to_apic_id[0] = cpu.apic_id
        BY <3>3, <3>10
      <3> QED
        BY <3>9, <3>11, <3>12 DEF f
    <2>2. CASE GoodMadts(fw) = {} /\ fw.fp = "default"
      <3>1. Listed(fw) = {[apic_id |-> id, boot |-> id = 0] : id \in {0, 1}}
        BY <2>2 DEF Listed
      <3>2. f = [NotFound EXCEPT !.num_cpus = 2, !.cpu_num_to_apic_id = [@ EXCEPT ![1] = 1]]
        BY <2>2 DEF SmpFindCpus
      <3>3. bits = 0
        BY <2>2
      <3> HIDE DEF f, bits
      <3>4. listed = {0, 1} /\ \A cpu \in Listed(fw) : cpu.boot => cpu.apic_id = 0
        <4> DEFINE cpu(id) == [apic_id |-> id, boot |-> id = 0]
        <4>1. /\ cpu(0).apic_id = 0 /\ cpu(1).apic_id = 1
              /\ \A id \in {0, 1} : cpu(id).apic_id = id /\ (cpu(id).boot <=> id = 0)
          OBVIOUS
        <4>2. Listed(fw) = {cpu(id) : id \in {0, 1}}
          BY <3>1
        <4> HIDE DEF cpu
        <4>3. cpu(0) \in Listed(fw) /\ cpu(1) \in Listed(fw)
          BY <4>2
        <4>4. \A one \in Listed(fw) : \E id \in {0, 1} : one = cpu(id)
          BY <4>2
        <4> QED
          BY <4>1, <4>3, <4>4
      <3>5. f \in Founds /\ f.cpu_num_to_apic_id[0] = 0 /\ Numbered(f, {0, 1}, 0)
        BY <3>2, DefaultNumbered
      <3>6. IsFiniteSet({0, 1})
        <4>1. IsFiniteSet({0})
          BY FS_Singleton
        <4>2. {0, 1} = {0} \cup {1}
          OBVIOUS
        <4> QED
          BY <4>1, <4>2, FS_AddElement
      <3> QED
        BY <3>3, <3>4, <3>5, <3>6 DEF f
    <2>3. CASE GoodMadts(fw) = {} /\ fw.fp = "table"
      <3> DEFINE mp == fw.mp
                 cpus == MpCpusRead(mp)
      <3>1. mp \in Seq(MpEntries) /\ MpSorted(mp)
        BY <2>3, FirmwareAssumption
      <3>2. f = ReadMpConfigTable(mp) /\ bits = 0
        BY <2>3 DEF SmpFindCpus
      <3>3. Listed(fw) = {[apic_id |-> mp[k].apic_id, boot |-> mp[k].boot] : k \in cpus}
        BY <2>3 DEF Listed
      <3> HIDE DEF f, bits, mp, cpus
      <3>4. listed = {mp[k].apic_id : k \in cpus}
        <4>1. \A cpu \in Listed(fw) : \E k \in cpus : cpu.apic_id = mp[k].apic_id
          BY <3>3
        <4>2. ASSUME NEW k \in cpus
              PROVE  \E cpu \in Listed(fw) : cpu.apic_id = mp[k].apic_id
          <5>1. [apic_id |-> mp[k].apic_id, boot |-> mp[k].boot] \in Listed(fw)
            BY <3>3
          <5> QED
            BY <5>1
        <4> QED
          BY <4>1, <4>2
      <3>5. cpus # {}
        BY <1>1, <3>4
      <3>6. cpus \subseteq DOMAIN mp
        BY DEF MpCpusRead, cpus
      <3> HIDE DEF listed
      <3>7. IsFiniteSet(listed)
        BY <3>1, <3>4, <3>6, FiniteIds
      <3>8. f \in Founds
        BY <3>1, <3>2, ReadMpTyped
      <3>9. Numbered(f, listed, bits) /\ \A k \in cpus : mp[k].boot => f.cpu_num_to_apic_id[0] = mp[k].apic_id
        BY <3>1, <3>2, <3>4, <3>5, MpNumbered DEF cpus
      <3>10. \A cpu \in Listed(fw) : cpu.boot => f.cpu_num_to_apic_id[0] = cpu.apic_id
        BY <3>3, <3>9
      <3> QED
        BY <3>7, <3>8, <3>9, <3>10 DEF f
    <2>4. CASE GoodMadts(fw) = {} /\ fw.fp # "default" /\ fw.fp # "table"
      <3>1. Listed(fw) = {}
        BY <2>4 DEF Listed
      <3> QED
        BY <1>1, <3>1
    <2> QED
      BY <2>1, <2>2, <2>3, <2>4
  <1> HIDE DEF f, bits, listed
  <1>2. ASSUME listed # {}
        PROVE  /\ f.num_cpus = IF Cardinality({Core(id, bits) : id \in listed}) < MAX_CPUS
                               THEN Cardinality({Core(id, bits) : id \in listed}) ELSE MAX_CPUS
               /\ {f.cpu_num_to_apic_id[i] : i \in 0 .. f.num_cpus - 1} \subseteq listed
               /\ Cardinality({Core(id, bits) :
                     id \in {f.cpu_num_to_apic_id[i] : i \in 0 .. f.num_cpus - 1}}) = f.num_cpus
               /\ \A i \in 0 .. f.num_cpus - 1 : SmpMyCpuNum(f, f.cpu_num_to_apic_id[i]) = i
    BY <1>1, <1>2, NumberedExact
  <1> QED
    BY <1>1, <1>2 DEF CpuNumbersExact, f, bits, listed

\* With sorted MP tables, every core gets a CPU number of its own that its CPU
\* finds again, and the threads of a core get the bits that count them.
THEOREM CpusNumbered ==
  ASSUME TablesSorted
  PROVE  Spec => []CpusFound
  <1>1. CpusFound
    BY NumbersRight, ThreadBits DEF CpusFound, TablesSorted
  <1> QED
    BY <1>1, PTL

-----------------------------------------------------------------------------
(***************************************************************************)
(* The memory map.                                                         *)
(***************************************************************************)

\* What sanitize_e820_map makes of the entries, and the segments.
NmEntries == [addr : Int, size : Int, type : Nat]
Ranges == [start : Int, end : Int]
Pmaps == [-1 .. E820MAX - 1 -> Ranges]
SegmentAdded(segs, e) == IF Keeps(e) THEN Append(segs, Clip(e)) ELSE segs

\* A sum is made of its partial sums.
LEMMA TotalRun ==
  ASSUME NEW g \in Seq(Int)
  PROVE  \E f \in [0 .. Len(g) -> Int] :
           /\ f[0] = 0
           /\ \A k \in 1 .. Len(g) : f[k] = f[k - 1] + g[k]
           /\ Total(g) = f[Len(g)]
  <1> DEFINE n == Len(g)
             step == [i \in 1 .. n |-> [x \in Int |-> x + g[i]]]
             Folded(folded) ==
               [s \in SUBSET (1 .. n) |->
                  IF s = {} THEN 0
                  ELSE folded[s \ {Max(s)}] + g[Max(s)]]
             folded == CHOOSE folded : folded = Folded(folded)
             f == [k \in 0 .. n |-> folded[1 .. k]]
             whole == Total(g)
             Fine == {k \in 0 .. n : f[k] \in Int}
  <1>1. n \in Nat /\ DOMAIN g = 1 .. n /\ \A i \in 1 .. n : g[i] \in Int
    OBVIOUS
  <1>2. whole = folded[1 .. n]
    BY <1>1 DEF Total, FoldLeft, MapThenFoldSet
  <1>0. 0 \in Int
    OBVIOUS
  <1> HIDE DEF folded, whole
  <1>3. folded = Folded(folded)
    <2>1. step \in [1 .. n -> [Int -> Int]]
      BY <1>1
    <2>2. PICK fold \in [SUBSET (1 .. n) -> Int] : IsFold(fold, n, 0, step)
      BY <1>0, <1>1, <2>1, FoldExists
    <2>3. ASSUME NEW s \in SUBSET (1 .. n), s # {}
          PROVE  fold[s] = fold[s \ {Max(s)}] + g[Max(s)]
      <3>1. Max(s) \in 1 .. n
        BY <1>1, <2>3, MaxIndex
      <3>2. fold[s \ {Max(s)}] \in Int
        BY <2>2
      <3> QED
        BY <2>2, <2>3, <3>1, <3>2 DEF IsFold
    <2>4. fold = Folded(fold)
      BY <2>2, <2>3 DEF IsFold
    <2> QED
      BY <2>4 DEF folded
  <1>4. f[0] = 0
    <2>1. 1 .. 0 = {}
      OBVIOUS
    <2> QED
      BY <1>1, <1>3, <2>1
  <1>5. ASSUME NEW k \in 1 .. n
        PROVE  f[k] = f[k - 1] + g[k]
    <2>1. /\ Max(1 .. k) = k /\ (1 .. k) \ {k} = 1 .. k - 1 /\ 1 .. k # {}
          /\ 1 .. k \in SUBSET (1 .. n)
      BY PrefixMax, SMTT(30)
    <2>2. f[k] = folded[1 .. k] /\ f[k - 1] = folded[1 .. k - 1]
      BY <1>1
    <2>3. folded[1 .. k] = folded[1 .. k - 1] + g[k]
      BY <1>3, <2>1
    <2> QED
      BY <2>2, <2>3
  <1> HIDE DEF f, n
  <1>6. 0 \in Fine /\ \A k \in 1 .. n : k - 1 \in Fine => k \in Fine
    <2>1. 0 \in Fine
      <3>1. f[0] \in Int
        BY <1>0, <1>4, Zenon
      <3> QED
        BY <1>1, <3>1
    <2>2. ASSUME NEW k \in 1 .. n, k - 1 \in Fine
          PROVE  k \in Fine
      <3>1. f[k - 1] \in Int
        BY <2>2
      <3>2. f[k - 1] + g[k] \in Int
        BY <1>1, <3>1
      <3>3. f[k] \in Int /\ k \in 0 .. n
        BY <1>1, <1>5, <3>2
      <3> QED
        BY <3>3
    <2> QED
      BY <2>1, <2>2
  <1>7. \A k \in 0 .. n : k \in Fine
    BY <1>1, <1>6, UpTo
  <1>8. f \in [0 .. n -> Int]
    BY <1>7 DEF f
  <1>9. whole = f[n]
    BY <1>1, <1>2 DEF f
  <1> QED
    BY <1>4, <1>5, <1>8, <1>9 DEF n, whole

\* Page arithmetic.
LEMMA PageFacts == /\ PAGE \in Nat /\ PAGE > 0 /\ E820MAX \in Nat /\ E820MAX > 1
                   /\ RES_START \in Nat /\ RES_END \in Nat /\ RES_START < RES_END
                   /\ ADDR_SPACE \in Nat /\ ADDR_SPACE > 0
  BY MemsizeAssumption

\* What the new map says of an entry, as numbers.
LEMMA NewEntryFacts ==
  ASSUME NEW e \in NmEntries
  PROVE  e.addr \in Int /\ e.size \in Int /\ EndOf(e) \in Int /\ EndOf(e) = e.addr + e.size
  BY DEF NmEntries, EndOf

\* What is left of an entry is a range of pages.
LEMMA ClipTyped ==
  ASSUME NEW e \in NmEntries
  PROVE  Clip(e) \in Ranges
  <1>1. e.addr \in Int /\ EndOf(e) \in Int
    BY DEF NmEntries, EndOf
  <1>2. \A a \in Int : a \div PAGE \in Int
    BY PageFacts
  <1>3. \A a \in Int : a + PAGE - 1 \in Int
    BY PageFacts
  <1> QED
    BY <1>1, <1>2, <1>3, PageFacts DEF Clip, Ranges

\* An entry adds at most a range of pages.
LEMMA SegmentTyped ==
  ASSUME NEW segs \in Seq(Ranges), NEW e \in NmEntries
  PROVE  SegmentAdded(segs, e) \in Seq(Ranges)
  BY ClipTyped DEF SegmentAdded

\* memsize_820 takes one entry after the other.
LEMMA SegmentsRun ==
  ASSUME NEW m \in Seq(NmEntries)
  PROVE  \E f \in [0 .. Len(m) -> Seq(Ranges)] :
           /\ f[0] = <<>>
           /\ \A k \in 1 .. Len(m) : f[k] = SegmentAdded(f[k - 1], m[k])
           /\ Segments(m) = f[Len(m)]
  <1> DEFINE n == Len(m)
             step == [i \in 1 .. n |-> [x \in Seq(Ranges) |-> SegmentAdded(x, m[i])]]
             Folded(folded) ==
               [s \in SUBSET (1 .. n) |->
                  IF s = {} THEN <<>>
                  ELSE SegmentAdded(folded[s \ {Max(s)}], m[Max(s)])]
             folded == CHOOSE folded : folded = Folded(folded)
             f == [k \in 0 .. n |-> folded[1 .. k]]
             whole == Segments(m)
             Fine == {k \in 0 .. n : f[k] \in Seq(Ranges)}
  <1>1. n \in Nat /\ DOMAIN m = 1 .. n /\ \A i \in 1 .. n : m[i] \in NmEntries
    OBVIOUS
  <1>2. whole = folded[1 .. n]
    BY <1>1 DEF Segments, SegmentAdded, FoldLeft, MapThenFoldSet
  <1>0. <<>> \in Seq(Ranges)
    BY EmptySeq
  <1> HIDE DEF folded, whole
  <1>3. folded = Folded(folded)
    <2>1. step \in [1 .. n -> [Seq(Ranges) -> Seq(Ranges)]]
      BY <1>1, SegmentTyped
    <2>2. PICK fold \in [SUBSET (1 .. n) -> Seq(Ranges)] : IsFold(fold, n, <<>>, step)
      BY <1>0, <1>1, <2>1, FoldExists
    <2>3. ASSUME NEW s \in SUBSET (1 .. n), s # {}
          PROVE  fold[s] = SegmentAdded(fold[s \ {Max(s)}], m[Max(s)])
      <3>1. Max(s) \in 1 .. n
        BY <1>1, <2>3, MaxIndex
      <3>2. fold[s \ {Max(s)}] \in Seq(Ranges)
        BY <2>2
      <3> QED
        BY <2>2, <2>3, <3>1, <3>2 DEF IsFold
    <2>4. fold = Folded(fold)
      BY <2>2, <2>3 DEF IsFold
    <2> QED
      BY <2>4 DEF folded
  <1>4. f[0] = <<>>
    <2>1. 1 .. 0 = {}
      OBVIOUS
    <2> QED
      BY <1>1, <1>3, <2>1
  <1>5. ASSUME NEW k \in 1 .. n
        PROVE  f[k] = SegmentAdded(f[k - 1], m[k])
    <2>1. /\ Max(1 .. k) = k /\ (1 .. k) \ {k} = 1 .. k - 1 /\ 1 .. k # {}
          /\ 1 .. k \in SUBSET (1 .. n)
      BY PrefixMax, SMTT(30)
    <2>2. f[k] = folded[1 .. k] /\ f[k - 1] = folded[1 .. k - 1]
      BY <1>1
    <2>3. folded[1 .. k] = SegmentAdded(folded[1 .. k - 1], m[k])
      BY <1>3, <2>1
    <2> QED
      BY <2>2, <2>3
  <1> HIDE DEF f, n
  <1>6. 0 \in Fine /\ \A k \in 1 .. n : k - 1 \in Fine => k \in Fine
    <2>1. 0 \in Fine
      <3>1. f[0] \in Seq(Ranges)
        BY <1>0, <1>4, Zenon
      <3> QED
        BY <1>1, <3>1
    <2>2. ASSUME NEW k \in 1 .. n, k - 1 \in Fine
          PROVE  k \in Fine
      <3>1. f[k - 1] \in Seq(Ranges)
        BY <2>2
      <3>2. SegmentAdded(f[k - 1], m[k]) \in Seq(Ranges)
        BY <1>1, <3>1, SegmentTyped
      <3>3. f[k] \in Seq(Ranges) /\ k \in 0 .. n
        BY <1>1, <1>5, <3>2
      <3> QED
        BY <3>3
    <2> QED
      BY <2>1, <2>2
  <1>7. \A k \in 0 .. n : k \in Fine
    BY <1>1, <1>6, UpTo
  <1>8. f \in [0 .. n -> Seq(Ranges)]
    BY <1>7 DEF f
  <1>9. whole = f[n]
    BY <1>1, <1>2 DEF f
  <1> QED
    BY <1>4, <1>5, <1>8, <1>9 DEF n, whole

\* The insertion keeps the shape of the list of segments.
LEMMA InsertTyped ==
  ASSUME NEW pm \in Pmaps, NEW i \in 0 .. E820MAX - 1
  PROVE  InsertSeg(pm, i) \in Pmaps
  BY PageFacts DEF InsertSeg, Pmaps

\* The segments at some places of the list, one after the other.
InsertAll(pm, is) == FoldLeft(LAMBDA acc, i : InsertSeg(acc, i - 1), pm, is)

\* sort_pmap inserts one segment after the other.
LEMMA SortedRun ==
  ASSUME NEW pm \in Pmaps, NEW is \in Seq(1 .. E820MAX)
  PROVE  \E f \in [0 .. Len(is) -> Pmaps] :
           /\ f[0] = pm
           /\ \A k \in 1 .. Len(is) : f[k] = InsertSeg(f[k - 1], is[k] - 1)
           /\ InsertAll(pm, is) = f[Len(is)]
  <1> DEFINE n == Len(is)
             step == [i \in 1 .. n |-> [x \in Pmaps |-> InsertSeg(x, is[i] - 1)]]
             Folded(folded) ==
               [s \in SUBSET (1 .. n) |->
                  IF s = {} THEN pm
                  ELSE InsertSeg(folded[s \ {Max(s)}], is[Max(s)] - 1)]
             folded == CHOOSE folded : folded = Folded(folded)
             f == [k \in 0 .. n |-> folded[1 .. k]]
             whole == InsertAll(pm, is)
             Fine == {k \in 0 .. n : f[k] \in Pmaps}
  <1>1. n \in Nat /\ DOMAIN is = 1 .. n /\ \A i \in 1 .. n : is[i] - 1 \in 0 .. E820MAX - 1
    BY PageFacts
  <1>2. whole = folded[1 .. n]
    BY <1>1 DEF InsertAll, FoldLeft, MapThenFoldSet
  <1>0. pm \in Pmaps
    OBVIOUS
  <1> HIDE DEF folded, whole
  <1>3. folded = Folded(folded)
    <2>1. step \in [1 .. n -> [Pmaps -> Pmaps]]
      BY <1>1, InsertTyped
    <2>2. PICK fold \in [SUBSET (1 .. n) -> Pmaps] : IsFold(fold, n, pm, step)
      BY <1>0, <1>1, <2>1, FoldExists
    <2>3. ASSUME NEW s \in SUBSET (1 .. n), s # {}
          PROVE  fold[s] = InsertSeg(fold[s \ {Max(s)}], is[Max(s)] - 1)
      <3>1. Max(s) \in 1 .. n
        BY <1>1, <2>3, MaxIndex
      <3>2. fold[s \ {Max(s)}] \in Pmaps
        BY <2>2
      <3> QED
        BY <2>2, <2>3, <3>1, <3>2 DEF IsFold
    <2>4. fold = Folded(fold)
      BY <2>2, <2>3 DEF IsFold
    <2> QED
      BY <2>4 DEF folded
  <1>4. f[0] = pm
    <2>1. 1 .. 0 = {}
      OBVIOUS
    <2> QED
      BY <1>1, <1>3, <2>1
  <1>5. ASSUME NEW k \in 1 .. n
        PROVE  f[k] = InsertSeg(f[k - 1], is[k] - 1)
    <2>1. /\ Max(1 .. k) = k /\ (1 .. k) \ {k} = 1 .. k - 1 /\ 1 .. k # {}
          /\ 1 .. k \in SUBSET (1 .. n)
      BY PrefixMax, SMTT(30)
    <2>2. f[k] = folded[1 .. k] /\ f[k - 1] = folded[1 .. k - 1]
      BY <1>1
    <2>3. folded[1 .. k] = InsertSeg(folded[1 .. k - 1], is[k] - 1)
      BY <1>3, <2>1
    <2> QED
      BY <2>2, <2>3
  <1> HIDE DEF f, n
  <1>6. 0 \in Fine /\ \A k \in 1 .. n : k - 1 \in Fine => k \in Fine
    <2>1. 0 \in Fine
      <3>1. f[0] \in Pmaps
        BY <1>0, <1>4, Zenon
      <3> QED
        BY <1>1, <3>1
    <2>2. ASSUME NEW k \in 1 .. n, k - 1 \in Fine
          PROVE  k \in Fine
      <3>1. f[k - 1] \in Pmaps
        BY <2>2
      <3>2. InsertSeg(f[k - 1], is[k] - 1) \in Pmaps
        BY <1>1, <3>1, InsertTyped
      <3>3. f[k] \in Pmaps /\ k \in 0 .. n
        BY <1>1, <1>5, <3>2
      <3> QED
        BY <3>3
    <2> QED
      BY <2>1, <2>2
  <1>7. \A k \in 0 .. n : k \in Fine
    BY <1>1, <1>6, UpTo
  <1>8. f \in [0 .. n -> Pmaps]
    BY <1>7 DEF f
  <1>9. whole = f[n]
    BY <1>1, <1>2 DEF f
  <1> QED
    BY <1>4, <1>5, <1>8, <1>9 DEF n, whole

-----------------------------------------------------------------------------
(***************************************************************************)
(* The change points, sorted.                                              *)
(***************************************************************************)
\* A change point.
Points(m) == [at : Nat, starts : BOOLEAN, entry : 1 .. Len(m)]

\* What the firmware says of an entry, as numbers.
LEMMA EntryFacts ==
  ASSUME NEW e \in E820Entries
  PROVE  e.addr \in Nat /\ e.size \in Nat /\ e.type \in Nat /\ e.addr + e.size \in Nat
  BY PageFacts DEF E820Entries

\* Every point belongs to an entry.
LEMMA PointTyped ==
  ASSUME NEW m \in Seq(E820Entries), NEW k \in 1 .. 2 * Len(m)
  PROVE  /\ (k + 1) \div 2 \in 1 .. Len(m)
         /\ Point(m, k) \in Points(m)
  <1>1. Len(m) \in Nat /\ \A i \in 1 .. Len(m) : m[i] \in E820Entries
    OBVIOUS
  <1>2. (k + 1) \div 2 \in 1 .. Len(m)
    BY <1>1
  <1>3. m[(k + 1) \div 2].addr \in Nat /\ m[(k + 1) \div 2].addr + m[(k + 1) \div 2].size \in Nat
    BY <1>1, <1>2, EntryFacts
  <1> QED
    BY <1>2, <1>3 DEF Point, Points

\* The sort has one result: its order is total and strict.
LEMMA EarlierOrder ==
  ASSUME NEW m \in Seq(E820Entries),
         NEW j \in 1 .. 2 * Len(m), NEW k \in 1 .. 2 * Len(m), NEW l \in 1 .. 2 * Len(m)
  PROVE  /\ ~Earlier(m, j, j)
         /\ Earlier(m, j, k) /\ Earlier(m, k, l) => Earlier(m, j, l)
         /\ j # k => Earlier(m, j, k) \/ Earlier(m, k, j)
         /\ Earlier(m, j, k) => Point(m, j).at <= Point(m, k).at
  <1>1. \A i \in 1 .. 2 * Len(m) : Point(m, i).at \in Nat /\ Point(m, i).starts \in BOOLEAN
    BY PointTyped DEF Points
  <1>2. j \in Nat /\ k \in Nat /\ l \in Nat
    OBVIOUS
  <1> QED
    BY <1>1, <1>2, SMTT(30) DEF Earlier

\* A point before another one has a smaller place.
LEMMA PlaceGrows ==
  ASSUME NEW m \in Seq(E820Entries)
  PROVE  /\ \A k \in 1 .. 2 * Len(m) : PlaceOf(m, k) \in 1 .. 2 * Len(m)
         /\ \A j, k \in 1 .. 2 * Len(m) : Earlier(m, j, k) => PlaceOf(m, j) < PlaceOf(m, k)
  <1> DEFINE P == 1 .. 2 * Len(m)
             Before(k) == {j \in P : Earlier(m, j, k)}
  <1>1. Len(m) \in Nat /\ 2 * Len(m) \in Nat
    OBVIOUS
  <1>2. IsFiniteSet(P) /\ Cardinality(P) = 2 * Len(m)
    <2>1. 1 <= 2 * Len(m) \/ 2 * Len(m) = 0
      BY <1>1
    <2> QED
      BY <1>1, <2>1, FS_Interval
  <1> HIDE DEF P
  <1>3. ASSUME NEW k \in P
        PROVE  /\ IsFiniteSet(Before(k)) /\ Cardinality(Before(k)) \in Nat
               /\ Cardinality(Before(k)) < 2 * Len(m)
    <2>1. Before(k) \in SUBSET (P \ {k})
      BY <1>3, EarlierOrder DEF P
    <2>2. IsFiniteSet(P \ {k}) /\ Cardinality(P \ {k}) = 2 * Len(m) - 1
      BY <1>2, <1>3, FS_RemoveElement
    <2>3. IsFiniteSet(Before(k)) /\ Cardinality(Before(k)) <= Cardinality(P \ {k})
      BY <2>1, <2>2, FS_Subset
    <2>4. Cardinality(Before(k)) \in Nat
      BY <2>3, FS_CardinalityType
    <2> QED
      BY <1>1, <2>2, <2>3, <2>4
  <1>4. \A k \in P : PlaceOf(m, k) = Cardinality(Before(k)) + 1
    BY DEF PlaceOf, P
  <1>5. ASSUME NEW j \in P, NEW k \in P, Earlier(m, j, k)
        PROVE  Cardinality(Before(j)) < Cardinality(Before(k))
    <2>1. Before(j) \in SUBSET Before(k)
      BY <1>5, EarlierOrder DEF P
    <2>2. j \in Before(k) /\ j \notin Before(j)
      BY <1>5, EarlierOrder DEF P
    <2>3. /\ Cardinality(Before(j)) <= Cardinality(Before(k))
          /\ Cardinality(Before(k)) = Cardinality(Before(j)) => Before(k) = Before(j)
      BY <1>3, <2>1, FS_Subset
    <2> HIDE DEF Before
    <2> QED
      BY <1>3, <2>2, <2>3
  <1> HIDE DEF Before
  <1>6. \A k \in P : PlaceOf(m, k) \in P
    BY <1>1, <1>3, <1>4 DEF P
  <1>7. \A j, k \in P : Earlier(m, j, k) => PlaceOf(m, j) < PlaceOf(m, k)
    BY <1>3, <1>4, <1>5
  <1> QED
    BY <1>6, <1>7 DEF P

\* Every place has its point.
LEMMA PlacesTaken ==
  ASSUME NEW m \in Seq(E820Entries)
  PROVE  \E there \in [1 .. 2 * Len(m) -> 1 .. 2 * Len(m)] :
           /\ \A r \in 1 .. 2 * Len(m) : /\ PlaceOf(m, there[r]) = r
                                         /\ ChangePoints(m)[r] = Point(m, there[r])
           /\ \A k \in 1 .. 2 * Len(m) : there[PlaceOf(m, k)] = k
           /\ \A r, s \in 1 .. 2 * Len(m) : r < s => Earlier(m, there[r], there[s])
  <1> DEFINE P == 1 .. 2 * Len(m)
             place == [k \in P |-> PlaceOf(m, k)]
             there == [r \in P |-> CHOOSE k \in P : PlaceOf(m, k) = r]
  <1>1. Len(m) \in Nat /\ 2 * Len(m) \in Nat /\ P \in SUBSET Nat
    OBVIOUS
  <1>2. IsFiniteSet(P)
    BY <1>1, FS_Interval
  <1>3. \A k \in P : PlaceOf(m, k) \in P
    BY PlaceGrows
  <1>4. \A j, k \in P : PlaceOf(m, j) = PlaceOf(m, k) => j = k
    <2> SUFFICES ASSUME NEW j \in P, NEW k \in P, PlaceOf(m, j) = PlaceOf(m, k), j # k PROVE FALSE
      OBVIOUS
    <2>1. Earlier(m, j, k) \/ Earlier(m, k, j)
      BY EarlierOrder
    <2>2. PlaceOf(m, j) < PlaceOf(m, k) \/ PlaceOf(m, k) < PlaceOf(m, j)
      BY <2>1, PlaceGrows
    <2> QED
      BY <1>1, <1>3, <2>2
  <1>11. ChangePoints(m) = [r \in P |-> Point(m, CHOOSE k \in P : PlaceOf(m, k) = r)]
    BY DEF ChangePoints
  <1> HIDE DEF P
  <1>5. place \in Injection(P, P)
    BY <1>3, <1>4 DEF Injection, IsInjective
  <1>6. place \in Surjection(P, P)
    BY <1>2, <1>5, FS_Injection
  <1>7. \A r \in P : \E k \in P : PlaceOf(m, k) = r
    BY <1>6 DEF Surjection
  <1>8. \A r \in P : there[r] \in P /\ PlaceOf(m, there[r]) = r
    BY <1>7
  <1>9. \A k \in P : there[PlaceOf(m, k)] = k
    BY <1>3, <1>4, <1>8
  <1>10. ASSUME NEW r \in P, NEW s \in P, r < s
         PROVE  Earlier(m, there[r], there[s])
    <2>1. there[r] \in P /\ there[s] \in P /\ PlaceOf(m, there[r]) = r /\ PlaceOf(m, there[s]) = s
      BY <1>8
    <2>2. there[r] # there[s] /\ ~(s < r)
      BY <1>1, <1>10, <2>1
    <2> HIDE DEF there
    <2>3. Earlier(m, there[r], there[s]) \/ Earlier(m, there[s], there[r])
      BY <2>1, <2>2, EarlierOrder DEF P
    <2>4. Earlier(m, there[s], there[r]) => s < r
      BY <2>1, PlaceGrows DEF P
    <2> QED
      BY <2>2, <2>3, <2>4
  <1>12. \A r \in P : ChangePoints(m)[r] = Point(m, there[r])
    BY <1>11
  <1>13. there \in [P -> P]
    BY <1>8
  <1> HIDE DEF there
  <1> QED
    BY <1>8, <1>9, <1>10, <1>12, <1>13 DEF P

\* Where each entry begins and finishes in the sorted list.
Sweeps(m, cp, begin, finish) ==
  /\ cp \in Seq(Points(m)) /\ Len(cp) = 2 * Len(m)
  /\ begin \in [1 .. Len(m) -> 1 .. Len(cp)] /\ finish \in [1 .. Len(m) -> 1 .. Len(cp)]
  /\ \A i \in 1 .. Len(m) :
       /\ begin[i] < finish[i]
       /\ cp[begin[i]] = [at |-> m[i].addr, starts |-> TRUE, entry |-> i]
       /\ cp[finish[i]] = [at |-> EndOf(m[i]), starts |-> FALSE, entry |-> i]
  /\ \A r \in 1 .. Len(cp) : IF cp[r].starts THEN r = begin[cp[r].entry] ELSE r = finish[cp[r].entry]
  /\ \A r, s \in 1 .. Len(cp) : r < s => cp[r].at <= cp[s].at

\* The list of change points is such a list.
LEMMA SweepsOfMap ==
  ASSUME NEW m \in Seq(E820Entries)
  PROVE  \E begin, finish : Sweeps(m, ChangePoints(m), begin, finish)
  <1> DEFINE n == Len(m)
             P == 1 .. 2 * n
             cp == ChangePoints(m)
  <1>1. n \in Nat /\ 2 * n \in Nat /\ P \in SUBSET Nat
    OBVIOUS
  <1>2. PICK there \in [P -> P] :
           /\ \A r \in P : PlaceOf(m, there[r]) = r /\ cp[r] = Point(m, there[r])
           /\ \A k \in P : there[PlaceOf(m, k)] = k
           /\ \A r, s \in P : r < s => Earlier(m, there[r], there[s])
    BY PlacesTaken
  <1> DEFINE begin == [i \in 1 .. n |-> PlaceOf(m, 2 * i - 1)]
             finish == [i \in 1 .. n |-> PlaceOf(m, 2 * i)]
  <1>3. cp = [r \in P |-> cp[r]]
    BY DEF ChangePoints
  <1>4. ASSUME NEW r \in P
        PROVE  cp[r] \in Points(m)
    <2>1. there[r] \in P /\ cp[r] = Point(m, there[r])
      BY <1>2
    <2> HIDE DEF cp
    <2> QED
      BY <2>1, PointTyped
  <1> HIDE DEF cp
  <1>5. cp \in Seq(Points(m)) /\ Len(cp) = 2 * n /\ DOMAIN cp = P
    <2>1. cp \in [1 .. 2 * n -> Points(m)]
      BY <1>3, <1>4
    <2>2. \A k \in Nat : \A g \in [1 .. k -> Points(m)] :
            g \in Seq(Points(m)) /\ Len(g) = k /\ DOMAIN g = 1 .. k
      OBVIOUS
    <2> HIDE DEF cp
    <2> QED
      BY <1>1, <2>1, <2>2, Zenon
  <1>6. ASSUME NEW i \in 1 .. n
        PROVE  /\ 2 * i - 1 \in P /\ 2 * i \in P
               /\ Point(m, 2 * i - 1) = [at |-> m[i].addr, starts |-> TRUE, entry |-> i]
               /\ Point(m, 2 * i) = [at |-> EndOf(m[i]), starts |-> FALSE, entry |-> i]
               /\ Earlier(m, 2 * i - 1, 2 * i)
    <2>1. 2 * i - 1 \in P /\ 2 * i \in P
      BY <1>1
    <2>2. /\ (2 * i - 1 + 1) \div 2 = i /\ (2 * i + 1) \div 2 = i
          /\ (2 * i - 1) % 2 = 1 /\ (2 * i) % 2 = 0
      BY <1>1
    <2>6. ASSUME NEW k \in Nat, (k + 1) \div 2 = i
          PROVE  /\ k % 2 = 1 => Point(m, k) = [at |-> m[i].addr, starts |-> TRUE, entry |-> i]
                 /\ k % 2 = 0 => Point(m, k) = [at |-> EndOf(m[i]), starts |-> FALSE, entry |-> i]
      <3> DEFINE odd == k % 2 = 1
      <3>1. Point(m, k) = [at |-> IF odd THEN m[i].addr ELSE EndOf(m[i]), starts |-> odd, entry |-> i]
        BY <2>6 DEF Point, EndOf
      <3>2. k % 2 = 0 => odd = FALSE
        OBVIOUS
      <3>3. k % 2 = 1 => odd = TRUE
        OBVIOUS
      <3> HIDE DEF odd
      <3> QED
        BY <3>1, <3>2, <3>3
    <2>3. /\ Point(m, 2 * i - 1) = [at |-> m[i].addr, starts |-> TRUE, entry |-> i]
          /\ Point(m, 2 * i) = [at |-> EndOf(m[i]), starts |-> FALSE, entry |-> i]
      <3>1. 2 * i - 1 \in Nat /\ 2 * i \in Nat
        BY <1>1
      <3>2. Point(m, 2 * i - 1) = [at |-> m[i].addr, starts |-> TRUE, entry |-> i]
        BY <2>2, <2>6, <3>1
      <3>3. Point(m, 2 * i) = [at |-> EndOf(m[i]), starts |-> FALSE, entry |-> i]
        BY <2>2, <2>6, <3>1
      <3> QED
        BY <3>2, <3>3
    <2>4. m[i].addr \in Nat /\ EndOf(m[i]) \in Nat /\ m[i].addr <= EndOf(m[i])
      BY EntryFacts DEF EndOf
    <2>5. Earlier(m, 2 * i - 1, 2 * i)
      BY <2>3, <2>4 DEF Earlier
    <2> QED
      BY <2>1, <2>3, <2>5
  <1>7. begin \in [1 .. n -> P] /\ finish \in [1 .. n -> P]
    BY <1>6, PlaceGrows
  <1>8. ASSUME NEW i \in 1 .. n
        PROVE  /\ begin[i] < finish[i]
               /\ cp[begin[i]] = Point(m, 2 * i - 1)
               /\ cp[finish[i]] = Point(m, 2 * i)
    <2>1. /\ 2 * i - 1 \in P /\ 2 * i \in P /\ Earlier(m, 2 * i - 1, 2 * i)
          /\ begin[i] = PlaceOf(m, 2 * i - 1) /\ finish[i] = PlaceOf(m, 2 * i)
      BY <1>6
    <2>2. begin[i] \in P /\ finish[i] \in P
      BY <1>7
    <2> HIDE DEF begin, finish
    <2>3. there[begin[i]] = 2 * i - 1 /\ there[finish[i]] = 2 * i
      BY <1>2, <2>1
    <2>4. \A j, k \in P : Earlier(m, j, k) => PlaceOf(m, j) < PlaceOf(m, k)
      BY PlaceGrows
    <2>5. cp[begin[i]] = Point(m, there[begin[i]]) /\ cp[finish[i]] = Point(m, there[finish[i]])
      BY <1>2, <2>2
    <2>6. PlaceOf(m, 2 * i - 1) < PlaceOf(m, 2 * i)
      BY <2>1, <2>4
    <2> QED
      BY <2>1, <2>3, <2>5, <2>6
  <1>9. ASSUME NEW r \in P
        PROVE  IF cp[r].starts THEN r = begin[cp[r].entry] ELSE r = finish[cp[r].entry]
    <2> DEFINE k == there[r]
               i == (k + 1) \div 2
    <2>1. k \in P /\ PlaceOf(m, k) = r /\ cp[r] = Point(m, k)
      BY <1>2
    <2>2. cp[r].starts = (k % 2 = 1) /\ cp[r].entry = i
      BY <2>1 DEF Point
    <2> HIDE DEF k
    <2>3. i \in 1 .. n /\ k \in Nat
      BY <1>1, <2>1
    <2>4. IF k % 2 = 1 THEN k = 2 * i - 1 ELSE k = 2 * i
      BY <2>3
    <2> HIDE DEF i
    <2> QED
      BY <2>1, <2>2, <2>3, <2>4
  <1>10. ASSUME NEW r \in P, NEW s \in P, r < s
         PROVE  cp[r].at <= cp[s].at
    BY <1>2, <1>10, EarlierOrder
  <1> HIDE DEF begin, finish
  <1>11. Sweeps(m, cp, begin, finish)
    BY <1>5, <1>6, <1>7, <1>8, <1>9, <1>10 DEF Sweeps
  <1> QED
    BY <1>11 DEF cp

-----------------------------------------------------------------------------
(***************************************************************************)
(* The strongest of some types.                                            *)
(***************************************************************************)

\* A set of numbers that has a bound has a greatest element.
LEMMA MaxBounded ==
  ASSUME NEW Q \in SUBSET Nat, Q # {}, NEW b \in Nat, \A q \in Q : q <= b
  PROVE  Max(Q) \in Q /\ \A q \in Q : q <= Max(Q)
  <1> DEFINE Bounds == {k \in Nat : \A q \in Q : q <= k}
  <1>1. PICK t \in Bounds : \A k \in Bounds : t <= k
    <2>1. b \in Bounds /\ Bounds \in SUBSET Nat
      OBVIOUS
    <2> QED
      BY <2>1, LeastNat
  <1>2. t \in Q
    <2> SUFFICES ASSUME t \notin Q PROVE FALSE
      OBVIOUS
    <2>1. PICK q \in Q : TRUE
      OBVIOUS
    <2>2. t - 1 \in Nat /\ \A k \in Q : k <= t - 1
      BY <1>1, <2>1
    <2> QED
      BY <2>2, <1>1
  <1>3. \A y \in Q : t >= y
    OBVIOUS
  <1> QED
    BY <1>2, <1>3 DEF Max

\* The types of a list of entries have a bound.
LEMMA TypesBounded ==
  ASSUME NEW n \in Nat, NEW ty \in [1 .. n -> Nat]
  PROVE  \E b \in Nat : \A i \in 1 .. n : ty[i] <= b
  <1> DEFINE Has(k) == \E b \in Nat : \A i \in 1 .. k : ty[i] <= b
             Good == {k \in 0 .. n : Has(k)}
  <1>1. 0 \in Good
    BY 1 .. 0 = {}
  <1>2. ASSUME NEW k \in 1 .. n, k - 1 \in Good
        PROVE  k \in Good
    <2>1. PICK b \in Nat : \A i \in 1 .. k - 1 : ty[i] <= b
      BY <1>2
    <2>3. k \in 0 .. n
      OBVIOUS
    <2>2. b + ty[k] \in Nat /\ \A i \in 1 .. k : ty[i] <= b + ty[k]
      <3>1. ty[k] \in Nat
        OBVIOUS
      <3>2. ASSUME NEW i \in 1 .. k PROVE ty[i] <= b + ty[k]
        <4>1. ty[i] \in Nat /\ (i = k \/ i \in 1 .. k - 1)
          OBVIOUS
        <4> QED
          BY <2>1, <3>1, <4>1
      <3> QED
        BY <2>1, <3>1, <3>2
    <2>4. Has(k)
      BY <2>2
    <2> HIDE DEF Has
    <2> QED
      BY <2>3, <2>4
  <1> HIDE DEF Good
  <1>3. \A k \in 0 .. n : k \in Good
    BY <1>1, <1>2, UpTo
  <1>4. n \in Good
    BY <1>3
  <1> HIDE DEF Has
  <1>5. Has(n)
    BY <1>4 DEF Good
  <1> QED
    BY <1>5 DEF Has

\* A list of entries that have types.
Typed(m) == Len(m) \in Nat /\ DOMAIN m = 1 .. Len(m) /\ \A i \in 1 .. Len(m) : m[i].type \in Nat

\* The strongest type of no entries is 0, of one its own.
LEMMA StrongestTyped ==
  ASSUME NEW m, Typed(m), NEW S \in SUBSET (1 .. Len(m))
  PROVE  /\ Strongest(m, S) \in Nat
         /\ S = {} => Strongest(m, S) = 0
         /\ \A k \in 1 .. Len(m) : S = {k} => Strongest(m, S) = m[k].type
  <1> DEFINE Q == {0} \cup {m[k].type : k \in S}
  <1>1. Len(m) \in Nat /\ \A i \in 1 .. Len(m) : m[i].type \in Nat
    BY DEF Typed
  <1>2. Q \in SUBSET Nat /\ 0 \in Q
    BY <1>1
  <1>3. PICK b \in Nat : \A i \in 1 .. Len(m) : m[i].type <= b
    <2> DEFINE ty == [i \in 1 .. Len(m) |-> m[i].type]
    <2>1. ty \in [1 .. Len(m) -> Nat]
      BY <1>1
    <2>2. \E b \in Nat : \A i \in 1 .. Len(m) : ty[i] <= b
      BY <1>1, <2>1, TypesBounded
    <2> QED
      BY <2>2
  <1>4. \A q \in Q : q <= b
    BY <1>3
  <1>5. Strongest(m, S) = Max(Q)
    BY DEF Strongest
  <1>6. Max(Q) \in Q /\ \A q \in Q : q <= Max(Q)
    <2> HIDE DEF Q
    <2> QED
      BY <1>2, <1>4, MaxBounded
  <1>7. S = {} => Q = {0}
    OBVIOUS
  <1>8. \A k \in 1 .. Len(m) : S = {k} => Q = {0, m[k].type}
    OBVIOUS
  <1>9. ASSUME NEW k \in 1 .. Len(m), S = {k}
        PROVE  Max(Q) = m[k].type
    <2>1. Q = {0, m[k].type} /\ m[k].type \in Nat
      BY <1>1, <1>8, <1>9
    <2> HIDE DEF Q
    <2>2. (Max(Q) = 0 \/ Max(Q) = m[k].type) /\ m[k].type <= Max(Q)
      BY <1>6, <2>1
    <2> QED
      BY <2>1, <2>2
  <1> HIDE DEF Q
  <1> QED
    BY <1>2, <1>5, <1>6, <1>7, <1>9

-----------------------------------------------------------------------------
(***************************************************************************)
(* The walk over the change points.                                        *)
(***************************************************************************)
\* The entries that cover an address.
Covering(m, x) == {j \in DOMAIN m : m[j].addr <= x /\ x < EndOf(m[j])}

\* The state of the loop over the change points.
Walks(m) ==
  [overlap : SUBSET (1 .. Len(m)), last : Nat, from : Nat, out : Seq(NmEntries), full : BOOLEAN]

\* What the new map is with the region that is open closed at an address.
Closed(w, at) ==
  IF w.last # 0 /\ at # w.from
  THEN Append(w.out, [addr |-> w.from, size |-> at - w.from, type |-> w.last])
  ELSE w.out

\* The type of an address is the strongest of the entries that cover it.
LEMMA TypeCovered ==
  ASSUME NEW m, NEW x
  PROVE  TypeAt(m, x) = Strongest(m, Covering(m, x))
  BY DEF TypeAt, Strongest, Covering

\* The firmware's map is such a list.
LEMMA MapTyped == \A m \in Seq(E820Entries) : Typed(m)
  <1> SUFFICES ASSUME NEW m \in Seq(E820Entries) PROVE Typed(m)
    OBVIOUS
  <1>1. Len(m) \in Nat /\ DOMAIN m = 1 .. Len(m) /\ \A i \in 1 .. Len(m) : m[i] \in E820Entries
    OBVIOUS
  <1> QED
    BY <1>1, EntryFacts DEF Typed

\* And so is the new map.
LEMMA NewTyped == \A m \in Seq(NmEntries) : Typed(m)
  <1> SUFFICES ASSUME NEW m \in Seq(NmEntries) PROVE Typed(m)
    OBVIOUS
  <1>1. Len(m) \in Nat /\ DOMAIN m = 1 .. Len(m) /\ \A i \in 1 .. Len(m) : m[i] \in NmEntries
    OBVIOUS
  <1> QED
    BY <1>1 DEF Typed, NmEntries

\* Closing the region keeps the shape of the new map.
LEMMA ClosedTyped ==
  ASSUME NEW m, NEW w \in Walks(m), NEW at \in Nat
  PROVE  Closed(w, at) \in Seq(NmEntries)
  <1>1. w.from \in Nat /\ w.last \in Nat /\ w.out \in Seq(NmEntries)
    BY DEF Walks
  <1>2. [addr |-> w.from, size |-> at - w.from, type |-> w.last] \in NmEntries
    BY <1>1 DEF NmEntries
  <1> QED
    BY <1>1, <1>2 DEF Closed

\* One turn of the loop, in terms of what it does to each part.
LEMMA AtPointParts ==
  ASSUME NEW m, NEW w \in Walks(m), NEW p
  PROVE  LET overlap == IF p.starts THEN w.overlap \cup {p.entry} ELSE w.overlap \ {p.entry}
             type == Strongest(m, overlap)
         IN AtPoint(m, w, p) =
              IF w.full THEN w
              ELSE IF type = w.last THEN [w EXCEPT !.overlap = overlap]
              ELSE [overlap |-> overlap, last |-> type, out |-> Closed(w, p.at),
                    from |-> IF type # 0 THEN p.at ELSE w.from,
                    full |-> Len(Closed(w, p.at)) >= E820MAX]
  <1> DEFINE overlap == IF p.starts THEN w.overlap \cup {p.entry} ELSE w.overlap \ {p.entry}
             type == Strongest(m, overlap)
  <1>1. w.full \in BOOLEAN
    BY DEF Walks
  <1>2. Closed(w, p.at) = IF w.last # 0 /\ p.at # w.from
             THEN Append(w.out, [addr |-> w.from, size |-> p.at - w.from, type |-> w.last])
             ELSE w.out
    BY DEF Closed
  <1>3. AtPoint(m, w, p) =
              CASE w.full -> w
                [] ~w.full /\ type = w.last -> [w EXCEPT !.overlap = overlap]
                [] OTHER -> [overlap |-> overlap, last |-> type, out |-> Closed(w, p.at),
                    from |-> IF type # 0 THEN p.at ELSE w.from,
                    full |-> Len(Closed(w, p.at)) >= E820MAX]
    BY <1>2 DEF AtPoint
  <1> HIDE DEF overlap, type
  <1>4. CASE w.full
    BY <1>3, <1>4 DEF overlap, type
  <1>5. CASE ~w.full /\ type = w.last
    BY <1>3, <1>5 DEF overlap, type
  <1>6. CASE ~w.full /\ type # w.last
    BY <1>3, <1>6 DEF overlap, type
  <1> QED
    BY <1>1, <1>4, <1>5, <1>6

\* The loop starts in such a state.
LEMMA StartTyped == ASSUME NEW m PROVE Start \in Walks(m)
  BY EmptySeq DEF Start, Walks

\* And every turn keeps it in one.
LEMMA AtPointTyped ==
  ASSUME NEW m \in Seq(E820Entries), NEW w \in Walks(m), NEW p \in Points(m)
  PROVE  AtPoint(m, w, p) \in Walks(m)
  <1> DEFINE overlap == IF p.starts THEN w.overlap \cup {p.entry} ELSE w.overlap \ {p.entry}
             type == Strongest(m, overlap)
  <1>1. p.at \in Nat /\ p.entry \in 1 .. Len(m)
    BY DEF Points
  <1>2. /\ w.overlap \in SUBSET (1 .. Len(m)) /\ w.last \in Nat /\ w.from \in Nat
        /\ w.out \in Seq(NmEntries) /\ w.full \in BOOLEAN
    BY DEF Walks
  <1>3. overlap \in SUBSET (1 .. Len(m))
    BY <1>1, <1>2
  <1>4. type \in Nat
    <2> HIDE DEF overlap
    <2> QED
      BY <1>3, MapTyped, StrongestTyped
  <1>5. Closed(w, p.at) \in Seq(NmEntries)
    BY <1>1, ClosedTyped
  <1>6. (Len(Closed(w, p.at)) >= E820MAX) \in BOOLEAN
    OBVIOUS
  <1>7. AtPoint(m, w, p) =
              IF w.full THEN w
              ELSE IF type = w.last THEN [w EXCEPT !.overlap = overlap]
              ELSE [overlap |-> overlap, last |-> type, out |-> Closed(w, p.at),
                    from |-> IF type # 0 THEN p.at ELSE w.from,
                    full |-> Len(Closed(w, p.at)) >= E820MAX]
    BY AtPointParts
  <1>8. (IF type # 0 THEN p.at ELSE w.from) \in Nat
    BY <1>1, <1>2
  <1> HIDE DEF overlap, type
  <1>9. [w EXCEPT !.overlap = overlap] \in Walks(m)
    BY <1>3 DEF Walks
  <1>10. [overlap |-> overlap, last |-> type, out |-> Closed(w, p.at),
                    from |-> IF type # 0 THEN p.at ELSE w.from,
                    full |-> Len(Closed(w, p.at)) >= E820MAX] \in Walks(m)
    BY <1>3, <1>4, <1>5, <1>6, <1>8 DEF Walks
  <1> QED
    BY <1>7, <1>9, <1>10

\* sanitize_e820_map goes from one change point to the next.
LEMMA WalkRun ==
  ASSUME NEW m \in Seq(E820Entries), NEW cp \in Seq(Points(m))
  PROVE  \E f \in [0 .. Len(cp) -> Walks(m)] :
           /\ f[0] = Start
           /\ \A k \in 1 .. Len(cp) : f[k] = AtPoint(m, f[k - 1], cp[k])
           /\ Walked(m, cp) = f[Len(cp)]
  <1> DEFINE n == Len(cp)
             step == [i \in 1 .. n |-> [x \in Walks(m) |-> AtPoint(m, x, cp[i])]]
             Folded(folded) ==
               [s \in SUBSET (1 .. n) |->
                  IF s = {} THEN Start
                  ELSE AtPoint(m, folded[s \ {Max(s)}], cp[Max(s)])]
             folded == CHOOSE folded : folded = Folded(folded)
             f == [k \in 0 .. n |-> folded[1 .. k]]
             whole == Walked(m, cp)
             Fine == {k \in 0 .. n : f[k] \in Walks(m)}
  <1>1. n \in Nat /\ DOMAIN cp = 1 .. n /\ \A i \in 1 .. n : cp[i] \in Points(m)
    OBVIOUS
  <1>2. whole = folded[1 .. n]
    BY <1>1 DEF Walked, FoldLeft, MapThenFoldSet
  <1>0. Start \in Walks(m)
    BY StartTyped
  <1> HIDE DEF folded, whole
  <1>3. folded = Folded(folded)
    <2>1. step \in [1 .. n -> [Walks(m) -> Walks(m)]]
      BY <1>1, AtPointTyped
    <2>2. PICK fold \in [SUBSET (1 .. n) -> Walks(m)] : IsFold(fold, n, Start, step)
      BY <1>0, <1>1, <2>1, FoldExists
    <2>3. ASSUME NEW s \in SUBSET (1 .. n), s # {}
          PROVE  fold[s] = AtPoint(m, fold[s \ {Max(s)}], cp[Max(s)])
      <3>1. Max(s) \in 1 .. n
        BY <1>1, <2>3, MaxIndex
      <3>2. fold[s \ {Max(s)}] \in Walks(m)
        BY <2>2
      <3> QED
        BY <2>2, <2>3, <3>1, <3>2 DEF IsFold
    <2>4. fold = Folded(fold)
      BY <2>2, <2>3 DEF IsFold
    <2> QED
      BY <2>4 DEF folded
  <1>4. f[0] = Start
    <2>1. 1 .. 0 = {}
      OBVIOUS
    <2> QED
      BY <1>1, <1>3, <2>1
  <1>5. ASSUME NEW k \in 1 .. n
        PROVE  f[k] = AtPoint(m, f[k - 1], cp[k])
    <2>1. /\ Max(1 .. k) = k /\ (1 .. k) \ {k} = 1 .. k - 1 /\ 1 .. k # {}
          /\ 1 .. k \in SUBSET (1 .. n)
      BY PrefixMax, SMTT(30)
    <2>2. f[k] = folded[1 .. k] /\ f[k - 1] = folded[1 .. k - 1]
      BY <1>1
    <2>3. folded[1 .. k] = AtPoint(m, folded[1 .. k - 1], cp[k])
      BY <1>3, <2>1
    <2> QED
      BY <2>2, <2>3
  <1> HIDE DEF f, n
  <1>6. 0 \in Fine /\ \A k \in 1 .. n : k - 1 \in Fine => k \in Fine
    <2>1. 0 \in Fine
      <3>1. f[0] \in Walks(m)
        BY <1>0, <1>4, Zenon
      <3> QED
        BY <1>1, <3>1
    <2>2. ASSUME NEW k \in 1 .. n, k - 1 \in Fine
          PROVE  k \in Fine
      <3>1. f[k - 1] \in Walks(m)
        BY <2>2
      <3>2. AtPoint(m, f[k - 1], cp[k]) \in Walks(m)
        BY <1>1, <3>1, AtPointTyped
      <3>3. f[k] \in Walks(m) /\ k \in 0 .. n
        BY <1>1, <1>5, <3>2
      <3> QED
        BY <3>3
    <2> QED
      BY <2>1, <2>2
  <1>7. \A k \in 0 .. n : k \in Fine
    BY <1>1, <1>6, UpTo
  <1>8. f \in [0 .. n -> Walks(m)]
    BY <1>7 DEF f
  <1>9. whole = f[n]
    BY <1>1, <1>2 DEF f
  <1> QED
    BY <1>4, <1>5, <1>8, <1>9 DEF n, whole

\* The entries that have begun and not finished after the first k points.
Open(m, begin, finish, k) == {i \in 1 .. Len(m) : begin[i] <= k /\ k < finish[i]}

\* The address of the last change point so far.
Reached(cp, k) == IF k = 0 THEN 0 ELSE cp[k].at

\* The same, part by part.
Swept(m, cp, begin, finish) ==
  /\ Len(m) \in Nat /\ Len(cp) = 2 * Len(m) /\ Len(cp) \in Nat /\ DOMAIN m = 1 .. Len(m)
  /\ \A r \in 1 .. Len(cp) :
       /\ cp[r] \in Points(m) /\ cp[r].at \in Nat /\ cp[r].starts \in BOOLEAN
       /\ cp[r].entry \in 1 .. Len(m)
       /\ IF cp[r].starts THEN r = begin[cp[r].entry] ELSE r = finish[cp[r].entry]
  /\ \A i \in 1 .. Len(m) :
       /\ begin[i] \in 1 .. Len(cp) /\ finish[i] \in 1 .. Len(cp) /\ begin[i] < finish[i]
       /\ cp[begin[i]].at = m[i].addr /\ cp[begin[i]].starts = TRUE /\ cp[begin[i]].entry = i
       /\ cp[finish[i]].at = EndOf(m[i]) /\ cp[finish[i]].starts = FALSE
       /\ cp[finish[i]].entry = i
  /\ \A r, s \in 1 .. Len(cp) : r < s => cp[r].at <= cp[s].at

\* The list of change points has these properties.
LEMMA SweepFacts ==
  ASSUME NEW m \in Seq(E820Entries), NEW cp, NEW begin, NEW finish, Sweeps(m, cp, begin, finish)
  PROVE  Swept(m, cp, begin, finish)
  <1>1. cp \in Seq(Points(m)) /\ Len(cp) = 2 * Len(m)
    BY DEF Sweeps
  <1>2. /\ begin \in [1 .. Len(m) -> 1 .. Len(cp)] /\ finish \in [1 .. Len(m) -> 1 .. Len(cp)]
        /\ \A r \in 1 .. Len(cp) :
              IF cp[r].starts THEN r = begin[cp[r].entry] ELSE r = finish[cp[r].entry]
        /\ \A r, s \in 1 .. Len(cp) : r < s => cp[r].at <= cp[s].at
    BY DEF Sweeps
  <1>3. \A i \in 1 .. Len(m) :
       /\ begin[i] < finish[i]
       /\ cp[begin[i]] = [at |-> m[i].addr, starts |-> TRUE, entry |-> i]
       /\ cp[finish[i]] = [at |-> EndOf(m[i]), starts |-> FALSE, entry |-> i]
    BY DEF Sweeps
  <1>4. Len(m) \in Nat /\ DOMAIN m = 1 .. Len(m) /\ Len(cp) \in Nat
    BY <1>1
  <1>5. \A r \in 1 .. Len(cp) : cp[r] \in Points(m)
    BY <1>1
  <1>6. \A p \in Points(m) : p.at \in Nat /\ p.starts \in BOOLEAN /\ p.entry \in 1 .. Len(m)
    BY DEF Points
  <1>7. \A i \in 1 .. Len(m) : begin[i] \in 1 .. Len(cp) /\ finish[i] \in 1 .. Len(cp)
    BY <1>2
  <1>8. ASSUME NEW i \in 1 .. Len(m)
        PROVE  /\ begin[i] < finish[i]
              /\ cp[begin[i]].at = m[i].addr /\ cp[begin[i]].starts = TRUE /\ cp[begin[i]].entry = i
              /\ cp[finish[i]].at = EndOf(m[i]) /\ cp[finish[i]].starts = FALSE
              /\ cp[finish[i]].entry = i
    <2>1. /\ begin[i] < finish[i]
          /\ cp[begin[i]] = [at |-> m[i].addr, starts |-> TRUE, entry |-> i]
          /\ cp[finish[i]] = [at |-> EndOf(m[i]), starts |-> FALSE, entry |-> i]
      BY <1>3
    <2> QED
      BY <2>1
  <1> QED
    BY <1>1, <1>2, <1>4, <1>5, <1>6, <1>7, <1>8 DEF Swept

\* A point opens or closes its entry.
LEMMA OpenNext ==
  ASSUME NEW m \in Seq(E820Entries), NEW cp, NEW begin, NEW finish, Swept(m, cp, begin, finish),
         NEW k \in 1 .. Len(cp)
  PROVE  Open(m, begin, finish, k) =
           IF cp[k].starts THEN Open(m, begin, finish, k - 1) \cup {cp[k].entry}
           ELSE Open(m, begin, finish, k - 1) \ {cp[k].entry}
  <1> DEFINE n == Len(m)
             e == cp[k].entry
  <1>1. n \in Nat /\ Len(cp) = 2 * n /\ Len(cp) \in Nat /\ k \in Nat
    BY DEF Swept
  <1>2. /\ \A i \in 1 .. n : begin[i] \in Nat /\ finish[i] \in Nat /\ begin[i] < finish[i]
        /\ \A i \in 1 .. n : cp[begin[i]].entry = i /\ cp[finish[i]].entry = i
        /\ \A i \in 1 .. n : cp[begin[i]].starts = TRUE /\ cp[finish[i]].starts = FALSE
    BY DEF Swept
  <1>3. e \in 1 .. n /\ (IF cp[k].starts THEN k = begin[e] ELSE k = finish[e]) /\ cp[k].starts \in BOOLEAN
    BY DEF Swept
  <1> HIDE DEF n, e
  <1>4. CASE cp[k].starts
    <2>1. ASSUME NEW i \in 1 .. n
          PROVE  (begin[i] <= k /\ k < finish[i]) <=> (begin[i] <= k - 1 /\ k - 1 < finish[i]) \/ i = e
      <3>1. k = begin[e] /\ finish[i] # k /\ (begin[i] = k => i = e)
        BY <1>2, <1>3, <1>4 DEF e
      <3> QED
        BY <1>1, <1>2, <1>3, <3>1
    <2> QED
      BY <1>3, <1>4, <2>1 DEF Open, n, e
  <1>5. CASE ~cp[k].starts
    <2>1. ASSUME NEW i \in 1 .. n
          PROVE  (begin[i] <= k /\ k < finish[i]) <=> (begin[i] <= k - 1 /\ k - 1 < finish[i]) /\ i # e
      <3>1. k = finish[e] /\ begin[i] # k /\ (finish[i] = k => i = e)
        BY <1>2, <1>3, <1>5 DEF e
      <3> QED
        BY <1>1, <1>2, <1>3, <3>1
    <2> QED
      BY <1>3, <1>5, <2>1 DEF Open, n, e
  <1> QED
    BY <1>4, <1>5

\* Between two points the open entries are those that cover the address.
LEMMA OpenCovers ==
  ASSUME NEW m \in Seq(E820Entries), NEW cp, NEW begin, NEW finish, Swept(m, cp, begin, finish),
         NEW k \in 0 .. Len(cp), NEW x \in Nat, Reached(cp, k) <= x, k < Len(cp) => x < cp[k + 1].at
  PROVE  Covering(m, x) = Open(m, begin, finish, k)
  <1> DEFINE n == Len(m)
  <1>1. n \in Nat /\ Len(cp) = 2 * n /\ Len(cp) \in Nat /\ k \in Nat /\ DOMAIN m = 1 .. n
    BY DEF Swept
  <1>2. \A r \in 1 .. Len(cp) : cp[r].at \in Nat
    BY DEF Swept
  <1>3. \A r, s \in 1 .. Len(cp) : r <= s => cp[r].at <= cp[s].at
    <2>1. \A r, s \in 1 .. Len(cp) : r < s => cp[r].at <= cp[s].at
      BY DEF Swept
    <2>2. \A r, s \in 1 .. Len(cp) : r <= s <=> r < s \/ r = s
      BY <1>1
    <2>3. \A r \in 1 .. Len(cp) : cp[r].at <= cp[r].at
      BY <1>2
    <2> QED
      BY <2>1, <2>2, <2>3, Zenon
  <1>4. ASSUME NEW r \in 1 .. Len(cp)
        PROVE  cp[r].at <= x <=> r <= k
    <2>1. CASE r <= k
      <3>1. k \in 1 .. Len(cp) /\ cp[r].at <= cp[k].at /\ Reached(cp, k) = cp[k].at
        BY <1>1, <1>3, <2>1 DEF Reached
      <3> QED
        BY <1>2, <2>1, <3>1
    <2>2. CASE ~(r <= k)
      <3>1. k + 1 \in 1 .. Len(cp) /\ k + 1 <= r /\ k < Len(cp)
        BY <1>1, <2>2
      <3>2. cp[k + 1].at <= cp[r].at /\ x < cp[k + 1].at
        BY <1>3, <3>1
      <3> QED
        BY <1>2, <2>2, <3>1, <3>2
    <2> QED
      BY <2>1, <2>2
  <1>5. ASSUME NEW i \in 1 .. n
        PROVE  (m[i].addr <= x /\ x < EndOf(m[i])) <=> (begin[i] <= k /\ k < finish[i])
    <2>1. /\ begin[i] \in 1 .. Len(cp) /\ finish[i] \in 1 .. Len(cp)
          /\ cp[begin[i]].at = m[i].addr /\ cp[finish[i]].at = EndOf(m[i])
      BY DEF Swept
    <2>2. m[i].addr <= x <=> begin[i] <= k
      BY <1>4, <2>1
    <2>3. EndOf(m[i]) <= x <=> finish[i] <= k
      BY <1>4, <2>1
    <2>4. EndOf(m[i]) \in Nat /\ finish[i] \in Nat
      BY <1>2, <2>1
    <2> QED
      BY <1>1, <2>2, <2>3, <2>4
  <1> QED
    BY <1>1, <1>5 DEF Covering, Open

\* At the end nothing is open; at the beginning nothing is either.
LEMMA OpenEnds ==
  ASSUME NEW m \in Seq(E820Entries), NEW cp, NEW begin, NEW finish, Swept(m, cp, begin, finish)
  PROVE  Open(m, begin, finish, 0) = {} /\ Open(m, begin, finish, Len(cp)) = {}
  <1>1. \A i \in 1 .. Len(m) : begin[i] \in 1 .. Len(cp) /\ finish[i] \in 1 .. Len(cp)
    BY DEF Swept
  <1>2. Len(cp) \in Nat
    BY DEF Swept
  <1> QED
    BY <1>1, <1>2 DEF Open

-----------------------------------------------------------------------------
(***************************************************************************)
(* The new map.                                                            *)
(***************************************************************************)

\* In order, without overlaps, and no entry of it is empty.
InOrder(out) ==
  /\ \A i \in 2 .. Len(out) : EndOf(out[i - 1]) <= out[i].addr
  /\ \A i \in 1 .. Len(out) : out[i].addr >= 0 /\ out[i].size > 0

\* It is complete up to an address.
Complete(m, out, to) ==
  /\ \A i \in 1 .. Len(out) : EndOf(out[i]) <= to
  /\ \A x \in Nat : x < to => TypeAt(out, x) = TypeAt(m, x)

\* Behind the ends of all entries there is nothing.
LEMMA NothingBehind ==
  ASSUME NEW out \in Seq(NmEntries), NEW to \in Int, \A i \in 1 .. Len(out) : EndOf(out[i]) <= to,
         NEW x \in Int, to <= x
  PROVE  TypeAt(out, x) = 0
  <1>1. \A i \in 1 .. Len(out) : EndOf(out[i]) \in Int /\ ~(x < EndOf(out[i]))
    <2> SUFFICES ASSUME NEW i \in 1 .. Len(out) PROVE EndOf(out[i]) \in Int /\ ~(x < EndOf(out[i]))
      OBVIOUS
    <2>1. out[i] \in NmEntries
      OBVIOUS
    <2>2. EndOf(out[i]) \in Int
      BY <2>1 DEF NmEntries, EndOf
    <2> QED
      BY <2>2
  <1>2. Covering(out, x) = {}
    BY <1>1 DEF Covering
  <1> QED
    BY <1>2, NewTyped, StrongestTyped, TypeCovered

\* What one more entry behind the others adds.
LEMMA OneMore ==
  ASSUME NEW out \in Seq(NmEntries), NEW e \in NmEntries,
         \A i \in 1 .. Len(out) : EndOf(out[i]) <= e.addr, NEW x \in Int
  PROVE  TypeAt(Append(out, e), x) = IF e.addr <= x /\ x < EndOf(e) THEN e.type ELSE TypeAt(out, x)
  <1> DEFINE n == Len(out)
             more == Append(out, e)
  <1>1. /\ n \in Nat /\ DOMAIN out = 1 .. n
        /\ more \in Seq(NmEntries) /\ Len(more) = n + 1 /\ DOMAIN more = 1 .. n + 1
        /\ more[n + 1] = e /\ \A i \in 1 .. n : more[i] = out[i]
    OBVIOUS
  <1>2. e.addr \in Int /\ EndOf(e) \in Int /\ \A i \in 1 .. n : out[i].addr \in Int /\ EndOf(out[i]) \in Int
    <2>1. \A d \in NmEntries : d.addr \in Int /\ EndOf(d) \in Int
      BY DEF NmEntries, EndOf
    <2> QED
      BY <1>1, <2>1
  <1> HIDE DEF n, more
  <1>3. CASE e.addr <= x /\ x < EndOf(e)
    <2>1. Covering(more, x) = {n + 1}
      <3>1. \A i \in 1 .. n : ~(x < EndOf(out[i]))
        BY <1>2, <1>3 DEF n
      <3>2. \A i \in 1 .. n + 1 : i \in 1 .. n \/ i = n + 1
        BY <1>1
      <3>3. n + 1 \in 1 .. n + 1
        BY <1>1
      <3> QED
        BY <1>1, <1>3, <3>1, <3>2, <3>3 DEF Covering
    <2>2. n + 1 \in 1 .. Len(more)
      BY <1>1
    <2>3. Typed(more) /\ {n + 1} \in SUBSET (1 .. Len(more))
      BY <1>1, <2>2, NewTyped
    <2>4. Strongest(more, {n + 1}) = more[n + 1].type
      BY <2>2, <2>3, StrongestTyped
    <2> QED
      BY <1>1, <1>3, <2>1, <2>4, TypeCovered DEF more
  <1>4. CASE ~(e.addr <= x /\ x < EndOf(e))
    <2>1. Covering(more, x) = Covering(out, x)
      <3>1. \A i \in 1 .. n + 1 : i \in 1 .. n \/ i = n + 1
        BY <1>1
      <3>2. \A i \in 1 .. n : i \in 1 .. n + 1
        BY <1>1
      <3> QED
        BY <1>1, <1>4, <3>1, <3>2 DEF Covering
    <2>2. Covering(out, x) \in SUBSET (1 .. n)
      BY <1>1 DEF Covering
    <2>3. {more[i].type : i \in Covering(out, x)} = {out[i].type : i \in Covering(out, x)}
      BY <1>1, <2>2
    <2>4. Strongest(more, Covering(out, x)) = Strongest(out, Covering(out, x))
      BY <2>3 DEF Strongest
    <2> QED
      BY <1>4, <2>1, <2>4, TypeCovered DEF more
  <1> QED
    BY <1>3, <1>4

\* Closing the open region at an address completes the new map up to there.
LEMMA ClosedComplete ==
  ASSUME NEW m, NEW w \in Walks(m), NEW at \in Nat, NEW from \in Nat, from <= at,
         w.last # 0 => from = w.from,
         InOrder(w.out), Complete(m, w.out, from),
         \A x \in Nat : from <= x /\ x < at => TypeAt(m, x) = w.last
  PROVE  LET out == Closed(w, at)
         IN /\ out \in Seq(NmEntries) /\ InOrder(out) /\ Complete(m, out, at)
            /\ Len(out) = Len(w.out) \/ (Len(out) = Len(w.out) + 1 /\ EndOf(out[Len(out)]) = at)
  <1> DEFINE out == Closed(w, at)
             n == Len(w.out)
             e == [addr |-> w.from, size |-> at - w.from, type |-> w.last]
  <1>1. /\ w.out \in Seq(NmEntries) /\ n \in Nat /\ w.from \in Nat /\ w.last \in Nat
        /\ out \in Seq(NmEntries)
    BY ClosedTyped DEF Walks
  <1>2. \A i \in 1 .. n : w.out[i].addr \in Int /\ EndOf(w.out[i]) \in Int /\ w.out[i] \in NmEntries
    <2>1. \A d \in NmEntries : d.addr \in Int /\ EndOf(d) \in Int
      BY DEF NmEntries, EndOf
    <2> QED
      BY <1>1, <2>1
  <1>3. /\ \A i \in 1 .. n : EndOf(w.out[i]) <= from
        /\ \A x \in Nat : x < from => TypeAt(w.out, x) = TypeAt(m, x)
    BY DEF Complete
  <1>4. CASE w.last # 0 /\ at # w.from
    <2>1. /\ out = Append(w.out, e) /\ e \in NmEntries /\ from = w.from
          /\ e.addr = from /\ EndOf(e) = at /\ e.size > 0 /\ e.type = w.last
      <3>1. out = Append(w.out, e) /\ from = w.from
        BY <1>4 DEF Closed
      <3>2. e \in NmEntries /\ e.addr = w.from /\ e.type = w.last /\ e.size = at - w.from
        BY <1>1 DEF NmEntries
      <3>3. EndOf(e) = at /\ e.size > 0
        BY <1>1, <1>4, <3>1, <3>2 DEF EndOf
      <3> QED
        BY <3>1, <3>2, <3>3
    <2> HIDE DEF e, out, n
    <2>2. /\ Len(out) = n + 1 /\ out[n + 1] = e
          /\ \A i \in 1 .. n : out[i] = w.out[i]
      BY <1>1, <2>1 DEF n
    <2>3. InOrder(out)
      <3>1. ASSUME NEW i \in 2 .. n + 1
            PROVE  EndOf(out[i - 1]) <= out[i].addr
        <4>1. CASE i = n + 1
          <5>1. n \in 1 .. n /\ i - 1 = n /\ out[n] = w.out[n]
            BY <1>1, <2>2, <4>1
          <5> QED
            BY <1>3, <2>1, <2>2, <4>1, <5>1
        <4>2. CASE i # n + 1
          <5>1. i \in 2 .. n /\ i \in 1 .. n /\ i - 1 \in 1 .. n
            BY <1>1, <4>2
          <5> QED
            BY <2>2, <5>1 DEF InOrder, n
        <4> QED
          BY <4>1, <4>2
      <3>2. ASSUME NEW i \in 1 .. n + 1
            PROVE  out[i].addr >= 0 /\ out[i].size > 0
        <4>1. CASE i = n + 1
          BY <2>1, <2>2, <4>1
        <4>2. CASE i # n + 1
          <5>1. i \in 1 .. n
            BY <1>1, <4>2
          <5> QED
            BY <2>2, <5>1 DEF InOrder, n
        <4> QED
          BY <4>1, <4>2
      <3> QED
        BY <2>2, <3>1, <3>2 DEF InOrder
    <2>4. Complete(m, out, at)
      <3>1. ASSUME NEW i \in 1 .. n + 1
            PROVE  EndOf(out[i]) <= at
        <4>1. CASE i = n + 1
          BY <2>1, <2>2, <4>1
        <4>2. CASE i # n + 1
          <5>1. i \in 1 .. n
            BY <1>1, <4>2
          <5> QED
            BY <1>2, <1>3, <2>2, <5>1
        <4> QED
          BY <4>1, <4>2
      <3>2. ASSUME NEW x \in Nat, x < at
            PROVE  TypeAt(out, x) = TypeAt(m, x)
        <4>1. TypeAt(out, x) = IF e.addr <= x /\ x < EndOf(e) THEN e.type ELSE TypeAt(w.out, x)
          BY <1>1, <1>3, <2>1, OneMore DEF n
        <4>2. CASE from <= x
          BY <2>1, <3>2, <4>1, <4>2
        <4>3. CASE ~(from <= x)
          BY <1>3, <2>1, <4>1, <4>3
        <4> QED
          BY <4>2, <4>3
      <3> QED
        BY <2>2, <3>1, <3>2 DEF Complete
    <2> QED
      BY <1>1, <2>1, <2>2, <2>3, <2>4 DEF out, n
  <1>5. CASE ~(w.last # 0 /\ at # w.from)
    <2>1. out = w.out
      BY <1>5 DEF Closed
    <2>2. Complete(m, out, at)
      <3>1. ASSUME NEW i \in 1 .. n
            PROVE  EndOf(out[i]) <= at
        BY <1>2, <1>3, <2>1
      <3>2. ASSUME NEW x \in Nat, x < at
            PROVE  TypeAt(out, x) = TypeAt(m, x)
        <4>1. CASE x < from
          BY <1>3, <2>1, <4>1
        <4>2. CASE ~(x < from)
          <5>1. from <= x /\ TypeAt(m, x) = w.last
            BY <3>2, <4>2
          <5>2. w.last = 0
            BY <1>5, <3>2, <5>1
          <5>3. TypeAt(w.out, x) = 0
            BY <1>1, <1>3, <5>1, NothingBehind, SMTT(40)
          <5> QED
            BY <2>1, <5>1, <5>2, <5>3
        <4> QED
          BY <4>1, <4>2
      <3> QED
        BY <2>1, <3>1, <3>2 DEF Complete
    <2> QED
      BY <1>1, <2>1, <2>2 DEF out
  <1> QED
    BY <1>4, <1>5

\* After k points: the new map is complete up to the region that is open, and
\* of the strongest type from there on; or it is full, and complete up to its
\* end.
Sound(m, cp, begin, finish, w, k) ==
  LET open == Open(m, begin, finish, k)
      from == IF w.last # 0 THEN w.from ELSE Reached(cp, k)
  IN /\ InOrder(w.out)
     /\ w.full => /\ Len(w.out) = E820MAX
                  /\ Complete(m, w.out, EndOf(w.out[E820MAX]))
     /\ ~w.full => /\ w.overlap = open /\ w.last = Strongest(m, open)
                   /\ Len(w.out) < E820MAX
                   /\ from <= Reached(cp, k) /\ Complete(m, w.out, from)
                   /\ \A x \in Nat : from <= x /\ x < Reached(cp, k) => TypeAt(m, x) = w.last

\* So it is before the first point, ...
LEMMA SoundStart ==
  ASSUME NEW m \in Seq(E820Entries), NEW cp, NEW begin, NEW finish, Swept(m, cp, begin, finish)
  PROVE  Sound(m, cp, begin, finish, Start, 0)
  <1>1. Open(m, begin, finish, 0) = {} /\ Reached(cp, 0) = 0
    BY OpenEnds DEF Reached
  <1>2. Strongest(m, {}) = 0
    BY MapTyped, StrongestTyped
  <1>3. /\ Start.out = <<>> /\ Start.last = 0 /\ Start.full = FALSE /\ Start.overlap = {}
        /\ Len(<<>>) = 0
    BY EmptySeq DEF Start
  <1>4. InOrder(<<>>) /\ Complete(m, <<>>, 0)
    BY <1>3 DEF InOrder, Complete
  <1>5. Len(<<>>) < E820MAX
    BY <1>3, PageFacts
  <1>6. \A x \in Nat : ~(0 <= x /\ x < 0)
    OBVIOUS
  <1>7. 0 <= 0
    OBVIOUS
  <1> QED
    BY <1>1, <1>2, <1>3, <1>4, <1>5, <1>6, <1>7, Zenon DEF Sound

\* ... and after each point, if it was before.
LEMMA SoundStep ==
  ASSUME NEW m \in Seq(E820Entries), NEW cp, NEW begin, NEW finish, Swept(m, cp, begin, finish),
         NEW k \in 1 .. Len(cp), NEW w \in Walks(m), Sound(m, cp, begin, finish, w, k - 1)
  PROVE  Sound(m, cp, begin, finish, AtPoint(m, w, cp[k]), k)
  <1> DEFINE p == cp[k]
             after == AtPoint(m, w, p)
             was == Open(m, begin, finish, k - 1)
             open == Open(m, begin, finish, k)
             type == Strongest(m, open)
             before == Reached(cp, k - 1)
             from == IF w.last # 0 THEN w.from ELSE before
             out == Closed(w, p.at)
  <1>1. /\ p \in Points(m) /\ p.at \in Nat /\ k - 1 \in 0 .. Len(cp) /\ k \in Nat
        /\ k - 1 < Len(cp) /\ (k - 1) + 1 = k
    BY DEF Swept
  <1>2. before \in Nat /\ before <= p.at /\ Reached(cp, k) = p.at
    <2>1. Reached(cp, k) = p.at
      BY <1>1 DEF Reached
    <2>2. CASE k - 1 = 0
      BY <1>1, <2>1, <2>2 DEF Reached
    <2>3. CASE k - 1 # 0
      <3>1. k - 1 \in 1 .. Len(cp) /\ k - 1 < k /\ before = cp[k - 1].at
        BY <1>1, <2>3 DEF Reached
      <3> QED
        BY <2>1, <3>1 DEF Swept
    <2> QED
      BY <2>2, <2>3
  <1>3. /\ w.last \in Nat /\ w.from \in Nat /\ w.out \in Seq(NmEntries) /\ w.full \in BOOLEAN
        /\ Len(w.out) \in Nat
    BY DEF Walks
  <1>4. /\ InOrder(w.out)
        /\ w.full => /\ Len(w.out) = E820MAX
                     /\ Complete(m, w.out, EndOf(w.out[E820MAX]))
        /\ ~w.full => /\ w.overlap = was /\ w.last = Strongest(m, was)
                      /\ Len(w.out) < E820MAX
                      /\ from <= before /\ Complete(m, w.out, from)
                      /\ \A x \in Nat : from <= x /\ x < before => TypeAt(m, x) = w.last
    BY DEF Sound
  <1>5. open = IF p.starts THEN was \cup {p.entry} ELSE was \ {p.entry}
    BY OpenNext
  <1>6. \A x \in Nat : before <= x /\ x < p.at => Covering(m, x) = was
    BY <1>1, OpenCovers
  <1>7. type \in Nat
    <2>1. open \in SUBSET (1 .. Len(m))
      BY DEF Open
    <2> HIDE DEF open
    <2> QED
      BY <2>1, MapTyped, StrongestTyped
  <1> HIDE DEF p, was, open, before
  <1>8. CASE w.full
    <2>1. after = w
      BY <1>8, AtPointParts
    <2> HIDE DEF after
    <2> QED
      BY <1>4, <1>8, <2>1 DEF Sound, after, p
  <1>9. CASE ~w.full
    <2>1. w.overlap = was
      BY <1>4, <1>9
    <2>2. after = IF type = w.last THEN [w EXCEPT !.overlap = open]
                 ELSE [overlap |-> open, last |-> type, out |-> out,
                       from |-> IF type # 0 THEN p.at ELSE w.from, full |-> Len(out) >= E820MAX]
      <3>1. (IF p.starts THEN w.overlap \cup {p.entry} ELSE w.overlap \ {p.entry}) = open
        BY <1>5, <2>1
      <3>2. after =
              IF w.full THEN w
              ELSE IF Strongest(m, IF p.starts THEN w.overlap \cup {p.entry} ELSE w.overlap \ {p.entry}) = w.last
              THEN [w EXCEPT !.overlap = IF p.starts THEN w.overlap \cup {p.entry} ELSE w.overlap \ {p.entry}]
              ELSE [overlap |-> IF p.starts THEN w.overlap \cup {p.entry} ELSE w.overlap \ {p.entry},
                    last |-> Strongest(m, IF p.starts THEN w.overlap \cup {p.entry} ELSE w.overlap \ {p.entry}),
                    out |-> out,
                    from |-> IF Strongest(m, IF p.starts THEN w.overlap \cup {p.entry} ELSE w.overlap \ {p.entry}) # 0
                             THEN p.at ELSE w.from,
                    full |-> Len(out) >= E820MAX]
        BY AtPointParts
      <3> HIDE DEF after, out
      <3> QED
        BY <1>9, <3>1, <3>2
    <2>3. from \in Nat /\ from <= p.at
      <3>1. from \in Nat /\ from <= before
        BY <1>2, <1>3, <1>4, <1>9
      <3> HIDE DEF from
      <3> QED
        BY <1>1, <1>2, <3>1
    <2>4. ASSUME NEW x \in Nat, from <= x, x < p.at
          PROVE  TypeAt(m, x) = w.last
      <3>1. CASE x < before
        BY <1>4, <1>9, <2>4, <3>1
      <3>2. CASE ~(x < before)
        <4>1. Covering(m, x) = was
          BY <1>2, <1>6, <2>4, <3>2
        <4> QED
          BY <1>4, <1>9, <4>1, TypeCovered
      <3> QED
        BY <3>1, <3>2
    <2>5. /\ out \in Seq(NmEntries) /\ InOrder(out) /\ Complete(m, out, p.at)
          /\ Len(out) = Len(w.out) \/ (Len(out) = Len(w.out) + 1 /\ EndOf(out[Len(out)]) = p.at)
      <3>1. w.last # 0 => from = w.from
        OBVIOUS
      <3>2. InOrder(w.out) /\ Complete(m, w.out, from)
        BY <1>4, <1>9
      <3> HIDE DEF from
      <3> QED
        BY <1>1, <2>3, <2>4, <3>1, <3>2, ClosedComplete DEF p
    <2> HIDE DEF after, out, type
    <2>6. CASE type = w.last
      <3>1. /\ after.out = w.out /\ after.last = w.last /\ after.full = FALSE /\ after.overlap = open
            /\ after.from = w.from
        BY <1>9, <1>3, <2>2, <2>6 DEF Walks
      <3> DEFINE now == IF w.last # 0 THEN w.from ELSE p.at
      <3>2. now <= p.at
        BY <1>1, <2>3
      <3>3. Complete(m, w.out, now) /\ \A x \in Nat : now <= x /\ x < p.at => TypeAt(m, x) = w.last
        <4>1. CASE w.last # 0
          BY <1>4, <1>9, <2>4, <4>1
        <4>2. CASE w.last = 0
          <5>1. w.out = out
            BY <4>2 DEF out, Closed
          <5>2. now = p.at
            BY <4>2
          <5> QED
            BY <1>1, <2>5, <5>1, <5>2
        <4> QED
          BY <4>1, <4>2
      <3> HIDE DEF now
      <3>4. InOrder(after.out)
        BY <1>4, <3>1
      <3>5. /\ after.overlap = open /\ after.last = Strongest(m, open) /\ Len(after.out) < E820MAX
        BY <1>4, <1>9, <2>6, <3>1 DEF type
      <3>6. (IF after.last # 0 THEN after.from ELSE Reached(cp, k)) = now
        BY <1>2, <3>1 DEF now
      <3> QED
        BY <1>2, <3>1, <3>2, <3>3, <3>4, <3>5, <3>6 DEF Sound, after, p, open
    <2>7. CASE type # w.last
      <3>1. /\ after.out = out /\ after.last = type /\ after.overlap = open
            /\ after.full = (Len(out) >= E820MAX)
            /\ after.from = IF type # 0 THEN p.at ELSE w.from
        BY <2>2, <2>7
      <3>2. Len(out) \in Nat
        BY <2>5
      <3>3. ASSUME after.full
            PROVE  Len(out) = E820MAX /\ EndOf(out[E820MAX]) = p.at
        BY <1>3, <1>4, <1>9, <2>5, <3>1, <3>2, <3>3, PageFacts
      <3>4. (IF after.last # 0 THEN after.from ELSE Reached(cp, k)) = p.at
        BY <1>2, <3>1
      <3>5. after.full => /\ Len(after.out) = E820MAX
                         /\ Complete(m, after.out, EndOf(after.out[E820MAX]))
        BY <2>5, <3>1, <3>3
      <3>6. ASSUME ~after.full
            PROVE  Len(after.out) < E820MAX
        <4>1. ~(Len(out) >= E820MAX) /\ after.out = out
          BY <3>1, <3>6, Zenon
        <4> QED
          BY <3>2, <4>1, PageFacts
      <3>7. \A x \in Nat : ~(p.at <= x /\ x < p.at)
        BY <1>1
      <3>8. p.at <= p.at
        BY <1>1
      <3> QED
        BY <1>2, <2>5, <3>1, <3>4, <3>5, <3>6, <3>7, <3>8 DEF Sound, after, p, open, type
    <2> QED
      BY <2>6, <2>7
  <1> QED
    BY <1>3, <1>8, <1>9 DEF p

\* What the new map is to the firmware's.
Sanitized(m, out) ==
  /\ out \in Seq(NmEntries) /\ Len(out) <= E820MAX /\ InOrder(out)
  /\ \A x \in Nat : Len(out) < E820MAX \/ x < EndOf(out[E820MAX]) => TypeAt(out, x) = TypeAt(m, x)

\* That is what sanitize_e820_map makes of it, unless it gives up.
LEMMA SanitizeSound ==
  ASSUME NEW m \in Seq(E820Entries)
  PROVE  Sanitize(m) = <<>> \/ Sanitized(m, Sanitize(m))
  <1> DEFINE cp == ChangePoints(m)
             n == Len(cp)
  <1>1. PICK begin, finish : Sweeps(m, cp, begin, finish)
    BY SweepsOfMap
  <1>2. Swept(m, cp, begin, finish)
    BY <1>1, SweepFacts
  <1>3. cp \in Seq(Points(m))
    BY <1>1 DEF Sweeps
  <1>4. Sanitize(m) = <<>> \/ Sanitize(m) = Walked(m, cp).out
    BY DEF Sanitize
  <1> HIDE DEF cp
  <1>5. n \in Nat
    BY <1>3
  <1>6. PICK f \in [0 .. n -> Walks(m)] :
           /\ f[0] = Start
           /\ \A k \in 1 .. n : f[k] = AtPoint(m, f[k - 1], cp[k])
           /\ Walked(m, cp) = f[n]
    BY <1>3, WalkRun
  <1> HIDE DEF n
  <1> DEFINE Good == {k \in 0 .. n : Sound(m, cp, begin, finish, f[k], k)}
  <1>7. 0 \in Good
    <2>1. 0 \in 0 .. n /\ Sound(m, cp, begin, finish, f[0], 0)
      BY <1>2, <1>5, <1>6, SoundStart
    <2> QED
      BY <2>1
  <1>8. ASSUME NEW k \in 1 .. n, k - 1 \in Good
        PROVE  k \in Good
    <2>1. k - 1 \in 0 .. n /\ k \in 0 .. n /\ Sound(m, cp, begin, finish, f[k - 1], k - 1)
      BY <1>5, <1>8
    <2>2. f[k - 1] \in Walks(m)
      BY <1>6, <2>1
    <2>3. Sound(m, cp, begin, finish, AtPoint(m, f[k - 1], cp[k]), k)
      BY <1>2, <2>1, <2>2, SoundStep DEF n
    <2> QED
      BY <1>6, <2>1, <2>3
  <1> HIDE DEF Good
  <1>9. \A k \in 0 .. n : k \in Good
    BY <1>5, <1>7, <1>8, UpTo
  <1>10. n \in 0 .. n
    BY <1>5
  <1>11. Sound(m, cp, begin, finish, f[n], n) /\ f[n] \in Walks(m)
    BY <1>6, <1>9, <1>10 DEF Good
  <1> DEFINE w == f[n]
  <1>12. w.out \in Seq(NmEntries) /\ w.full \in BOOLEAN /\ Len(w.out) \in Nat
    BY <1>11 DEF Walks
  <1> HIDE DEF w
  <1>13. InOrder(w.out)
    BY <1>11 DEF Sound, w
  <1>14. CASE w.full
    <2>1. Len(w.out) = E820MAX /\ Complete(m, w.out, EndOf(w.out[E820MAX]))
      BY <1>11, <1>14 DEF Sound, w
    <2>2. ~(Len(w.out) < E820MAX) /\ Len(w.out) <= E820MAX
      BY <2>1, PageFacts
    <2>3. \A x \in Nat : x < EndOf(w.out[E820MAX]) => TypeAt(w.out, x) = TypeAt(m, x)
      BY <2>1 DEF Complete
    <2>9. Sanitized(m, w.out)
      BY <1>12, <1>13, <2>2, <2>3 DEF Sanitized
    <2> QED
      BY <1>4, <1>6, <2>9 DEF w
  <1>15. CASE ~w.full
    <2>1. Open(m, begin, finish, n) = {} /\ Strongest(m, {}) = 0
      BY <1>2, OpenEnds, MapTyped, StrongestTyped DEF n
    <2>2. Len(w.out) < E820MAX /\ w.last = 0 /\ Complete(m, w.out, Reached(cp, n))
      BY <1>11, <1>15, <2>1 DEF Sound, w
    <2>3. Reached(cp, n) \in Nat
      BY <1>2, <1>5 DEF Swept, Reached, n
    <2>4. ASSUME NEW x \in Nat
          PROVE  TypeAt(w.out, x) = TypeAt(m, x)
      <3>1. CASE x < Reached(cp, n)
        BY <2>2, <3>1 DEF Complete
      <3>2. CASE ~(x < Reached(cp, n))
        <4>1. Reached(cp, n) <= x
          BY <2>3, <3>2
        <4>2. Covering(m, x) = {}
          BY <1>2, <1>5, <2>1, <4>1, OpenCovers DEF n
        <4>3. TypeAt(m, x) = 0
          BY <2>1, <4>2, TypeCovered
        <4>4. TypeAt(w.out, x) = 0
          <5>1. \A i \in 1 .. Len(w.out) : EndOf(w.out[i]) <= Reached(cp, n)
            BY <2>2, <2>3 DEF Complete
          <5>2. w.out \in Seq(NmEntries) /\ Reached(cp, n) \in Int /\ x \in Int
            BY <1>12, <2>3
          <5> QED
            BY <4>1, <5>1, <5>2, NothingBehind, SMTT(40)
        <4> QED
          BY <4>3, <4>4
      <3> QED
        BY <3>1, <3>2
    <2>5. Len(w.out) <= E820MAX
      BY <1>12, <2>2, PageFacts
    <2>9. Sanitized(m, w.out)
      BY <1>12, <1>13, <2>4, <2>5 DEF Sanitized
    <2> QED
      BY <1>4, <1>6, <2>9 DEF w
  <1> QED
    BY <1>12, <1>14, <1>15

-----------------------------------------------------------------------------
(***************************************************************************)
(* Pages.                                                                  *)
(***************************************************************************)

\* Multiples of a page are as far apart as their numbers.
LEMMA Multiples ==
  ASSUME NEW p \in Int, NEW q \in Int
  PROVE  /\ p * PAGE \in Int /\ (p + 1) * PAGE = p * PAGE + PAGE
         /\ p < q => p * PAGE + PAGE <= q * PAGE
         /\ p <= q <=> p * PAGE <= q * PAGE
  <1>1. PAGE \in Nat /\ PAGE > 0
    BY PageFacts
  <1>2. p * PAGE \in Int /\ (p + 1) * PAGE = p * PAGE + PAGE
    BY <1>1
  <1>3. \A r \in Int : r >= 0 => r * PAGE >= 0
    BY <1>1
  <1>4. ASSUME NEW a \in Int, NEW b \in Int, a < b
        PROVE  a * PAGE + PAGE <= b * PAGE
    <2>1. b - a - 1 \in Int /\ b - a - 1 >= 0
      BY <1>4
    <2>2. (b - a - 1) * PAGE >= 0
      BY <1>3, <2>1
    <2>3. (b - a - 1) * PAGE = b * PAGE - a * PAGE - PAGE
      BY <1>1
    <2>4. a * PAGE \in Int /\ b * PAGE \in Int
      BY <1>1
    <2> QED
      BY <1>1, <2>2, <2>3, <2>4
  <1>5. p < q => p * PAGE + PAGE <= q * PAGE
    BY <1>4
  <1>6. q < p => q * PAGE + PAGE <= p * PAGE
    BY <1>4
  <1>7. q * PAGE \in Int
    BY <1>1
  <1>8. p <= q <=> p * PAGE <= q * PAGE
    <2>1. CASE p < q
      BY <1>1, <1>2, <1>5, <1>7, <2>1
    <2>2. CASE p = q
      BY <1>2, <2>2
    <2>3. CASE q < p
      BY <1>1, <1>2, <1>6, <1>7, <2>3
    <2> QED
      BY <2>1, <2>2, <2>3
  <1> QED
    BY <1>2, <1>5, <1>8

\* The last page that has begun, and the first that begins at an address or
\* after it.
LEMMA Quotients ==
  ASSUME NEW a \in Int, NEW q \in Int
  PROVE  /\ a \div PAGE \in Int /\ (a + PAGE - 1) \div PAGE \in Int
         /\ q <= a \div PAGE <=> q * PAGE <= a
         /\ (a + PAGE - 1) \div PAGE <= q <=> a <= q * PAGE
  <1>1. PAGE \in Nat /\ PAGE > 0
    BY PageFacts
  <1>2. ASSUME NEW b \in Int
        PROVE  /\ b \div PAGE \in Int
               /\ (b \div PAGE) * PAGE <= b /\ b < (b \div PAGE) * PAGE + PAGE
    <2>1. /\ b \div PAGE \in Int /\ b % PAGE \in Int
          /\ b = PAGE * (b \div PAGE) + (b % PAGE) /\ 0 <= b % PAGE /\ b % PAGE < PAGE
      BY <1>1
    <2>2. (b \div PAGE) * PAGE = PAGE * (b \div PAGE)
      BY <1>1, <2>1
    <2> QED
      BY <1>1, <2>1, <2>2
  <1>3. ASSUME NEW b \in Int
        PROVE  q <= b \div PAGE <=> q * PAGE <= b
    <2> DEFINE d == b \div PAGE
    <2>1. d \in Int /\ d * PAGE <= b /\ b < d * PAGE + PAGE /\ d * PAGE \in Int /\ q * PAGE \in Int
      BY <1>2, Multiples
    <2> HIDE DEF d
    <2>2. q <= d <=> q * PAGE <= d * PAGE
      BY <2>1, Multiples
    <2>3. d < q => d * PAGE + PAGE <= q * PAGE
      BY <2>1, Multiples
    <2>4. q <= d <=> q * PAGE <= b
      BY <1>1, <2>1, <2>2, <2>3
    <2> QED
      BY <2>4 DEF d
  <1>4. (a + PAGE - 1) \div PAGE <= q <=> a <= q * PAGE
    <2> DEFINE d == (a + PAGE - 1) \div PAGE
    <2>1. /\ d \in Int /\ d * PAGE <= a + PAGE - 1 /\ a + PAGE - 1 < d * PAGE + PAGE
          /\ d * PAGE \in Int /\ q * PAGE \in Int
      <3>1. a + PAGE - 1 \in Int
        BY <1>1
      <3> QED
        BY <1>2, <3>1, Multiples
    <2> HIDE DEF d
    <2>2. d <= q <=> d * PAGE <= q * PAGE
      BY <2>1, Multiples
    <2>3. q < d => q * PAGE + PAGE <= d * PAGE
      BY <2>1, Multiples
    <2>4. d <= q <=> a <= q * PAGE
      BY <1>1, <2>1, <2>2, <2>3
    <2> QED
      BY <2>4 DEF d
  <1>5. (a + PAGE - 1) \div PAGE \in Int
    BY <1>1, <1>2
  <1> QED
    BY <1>2, <1>3, <1>4, <1>5

\* The pages that lie wholly between two addresses.
LEMMA WholePages ==
  ASSUME NEW a \in Int, NEW b \in Int, NEW p
  PROVE  /\ p \in (a + PAGE - 1) \div PAGE .. b \div PAGE - 1 <=>
              p \in Int /\ a <= p * PAGE /\ p * PAGE + PAGE <= b
         /\ ((a + PAGE - 1) \div PAGE) * PAGE >= a
         /\ (b \div PAGE) * PAGE <= b
  <1> DEFINE c == (a + PAGE - 1) \div PAGE
             d == b \div PAGE
  <1>1. c \in Int /\ d \in Int
    BY Quotients
  <1>2. \A q \in Int : (c <= q <=> a <= q * PAGE) /\ (q <= d <=> q * PAGE <= b)
    BY Quotients
  <1> HIDE DEF c, d
  <1>3. p \in c .. d - 1 <=> p \in Int /\ a <= p * PAGE /\ p * PAGE + PAGE <= b
    <2>1. CASE p \in Int
      <3>1. (p + 1) * PAGE = p * PAGE + PAGE /\ p + 1 \in Int
        BY <2>1, Multiples
      <3>2. p + 1 <= d <=> p * PAGE + PAGE <= b
        BY <1>2, <3>1
      <3>3. c <= p <=> a <= p * PAGE
        BY <1>2, <2>1
      <3> QED
        BY <1>1, <2>1, <3>2, <3>3
    <2> QED
      BY <1>1, <2>1
  <1>4. c * PAGE >= a /\ d * PAGE <= b
    <2>1. c <= c /\ d <= d
      BY <1>1
    <2>2. a <= c * PAGE /\ d * PAGE <= b
      BY <1>1, <1>2, <2>1
    <2>3. c * PAGE \in Int
      BY <1>1, Multiples
    <2> QED
      BY <2>2, <2>3
  <1> QED
    BY <1>3, <1>4 DEF c, d

\* The numbers of the page at the start of the hole and behind it.
LEMMA HoleBounds ==
  /\ RES_START \div PAGE \in Int /\ (RES_START \div PAGE) * PAGE = RES_START
  /\ RES_END \div PAGE \in Int /\ (RES_END \div PAGE) * PAGE = RES_END
  <1>1. /\ PAGE \in Nat /\ PAGE > 0 /\ RES_START \in Nat /\ RES_END \in Nat
        /\ RES_START % PAGE = 0 /\ RES_END % PAGE = 0
    BY MemsizeAssumption
  <1>2. ASSUME NEW a \in Nat, a % PAGE = 0
        PROVE  a \div PAGE \in Int /\ (a \div PAGE) * PAGE = a
    <2>1. a \div PAGE \in Int /\ a = PAGE * (a \div PAGE) + (a % PAGE)
      BY <1>1
    <2>2. (a \div PAGE) * PAGE = PAGE * (a \div PAGE)
      BY <1>1, <2>1
    <2> QED
      BY <1>1, <1>2, <2>1, <2>2
  <1> QED
    BY <1>1, <1>2

\* A page of the hole lies between its bounds, any other on one side of it.
LEMMA HolePage ==
  ASSUME NEW p \in Int
  PROVE  /\ RES_START <= p * PAGE /\ p * PAGE + PAGE <= RES_END => p \in HolePages
         /\ p \notin HolePages => p * PAGE + PAGE <= RES_START \/ RES_END <= p * PAGE
  <1> DEFINE c == RES_START \div PAGE
             d == RES_END \div PAGE
  <1>1. c \in Int /\ c * PAGE = RES_START /\ d \in Int /\ d * PAGE = RES_END
    BY HoleBounds
  <1>2. HolePages = c .. d - 1
    BY DEF HolePages
  <1> HIDE DEF c, d
  <1>3. p + 1 \in Int /\ (p + 1) * PAGE = p * PAGE + PAGE
    BY Multiples
  <1>4. c <= p <=> RES_START <= p * PAGE
    BY <1>1, Multiples
  <1>5. p + 1 <= d <=> p * PAGE + PAGE <= RES_END
    BY <1>1, <1>3, Multiples
  <1>6. d <= p <=> RES_END <= p * PAGE
    BY <1>1, Multiples
  <1>7. p + 1 <= c <=> p * PAGE + PAGE <= RES_START
    BY <1>1, <1>3, Multiples
  <1> QED
    BY <1>1, <1>2, <1>4, <1>5, <1>6, <1>7

\* The pages wholly in an entry.
Within(e) == (e.addr + PAGE - 1) \div PAGE .. EndOf(e) \div PAGE - 1

\* What memsize_820 makes of an entry has the same pages outside the hole, and
\* does not leave the entry; what it passes over has its pages in the hole.
LEMMA ClipExact ==
  ASSUME NEW e \in NmEntries
  PROVE  /\ \A p : p \notin HolePages => (p \in PagesOf(Clip(e)) <=> p \in Within(e))
         /\ Skipped(e) => Within(e) \subseteq HolePages
         /\ e.addr <= Clip(e).start * PAGE /\ Clip(e).end * PAGE <= EndOf(e)
  <1> DEFINE E == EndOf(e)
             last == IF E > RES_START /\ E < RES_END THEN RES_START ELSE E
             first == IF InHole(e) THEN RES_END ELSE e.addr
  <1>1. /\ e.addr \in Int /\ E \in Int /\ PAGE \in Nat /\ PAGE > 0
        /\ RES_START \in Nat /\ RES_END \in Nat /\ RES_START < RES_END
    BY PageFacts DEF NmEntries, EndOf
  <1>2. /\ first \in Int /\ last \in Int /\ e.addr <= first /\ last <= E
    BY <1>1 DEF InHole
  <1>3. /\ Clip(e).start = (first + PAGE - 1) \div PAGE
        /\ Clip(e).end = last \div PAGE
        /\ PagesOf(Clip(e)) = (first + PAGE - 1) \div PAGE .. last \div PAGE - 1
    BY DEF Clip, PagesOf
  <1>4. Within(e) = (e.addr + PAGE - 1) \div PAGE .. E \div PAGE - 1
    BY DEF Within
  <1>5. /\ InHole(e) <=> e.addr > RES_START /\ e.addr < RES_END
        /\ Skipped(e) <=> InHole(e) /\ E < RES_END
        /\ InHole(e) => first = RES_END
        /\ ~InHole(e) => first = e.addr
        /\ E > RES_START /\ E < RES_END => last = RES_START
        /\ ~(E > RES_START /\ E < RES_END) => last = E
    BY DEF InHole, Skipped
  <1> HIDE DEF first, last, E
  <1>6. \A p : /\ p \in PagesOf(Clip(e)) <=> p \in Int /\ first <= p * PAGE /\ p * PAGE + PAGE <= last
               /\ p \in Within(e) <=> p \in Int /\ e.addr <= p * PAGE /\ p * PAGE + PAGE <= E
    BY <1>1, <1>2, <1>3, <1>4, WholePages
  <1>7. ASSUME NEW p, p \notin HolePages
        PROVE  p \in PagesOf(Clip(e)) <=> p \in Within(e)
    <2>1. CASE p \in Int
      <3>1. p * PAGE \in Int
        BY <2>1, Multiples
      <3>2. p * PAGE + PAGE <= RES_START \/ RES_END <= p * PAGE
        BY <1>7, <2>1, HolePage
      <3>3. first <= p * PAGE /\ p * PAGE + PAGE <= last <=> e.addr <= p * PAGE /\ p * PAGE + PAGE <= E
        BY <1>1, <1>2, <1>5, <3>1, <3>2, SMTT(30)
      <3> QED
        BY <1>6, <3>3
    <2>2. CASE p \notin Int
      BY <1>6, <2>2
    <2> QED
      BY <2>1, <2>2
  <1>8. ASSUME Skipped(e), NEW p \in Within(e)
        PROVE  p \in HolePages
    <2>1. p \in Int /\ e.addr <= p * PAGE /\ p * PAGE + PAGE <= E
      BY <1>6, <1>8
    <2>2. p * PAGE \in Int
      BY <2>1, Multiples
    <2>3. RES_START <= p * PAGE /\ p * PAGE + PAGE <= RES_END
      BY <1>1, <1>5, <1>8, <2>1, <2>2
    <2> QED
      BY <2>1, <2>3, HolePage
  <1>9. e.addr <= Clip(e).start * PAGE /\ Clip(e).end * PAGE <= E
    <2>1. /\ ((first + PAGE - 1) \div PAGE) * PAGE >= first
          /\ (last \div PAGE) * PAGE <= last
      BY <1>2, WholePages
    <2>2. (first + PAGE - 1) \div PAGE \in Int /\ last \div PAGE \in Int
      BY <1>2, Quotients
    <2>3. Clip(e).start * PAGE \in Int /\ Clip(e).end * PAGE \in Int
      BY <1>3, <2>2, Multiples
    <2> QED
      BY <1>1, <1>2, <1>3, <2>1, <2>3
  <1> QED
    BY <1>7, <1>8, <1>9 DEF E

-----------------------------------------------------------------------------
(***************************************************************************)
(* The segments of memsize_820.                                            *)
(***************************************************************************)

\* There are no more of them than entries.
LEMMA SegmentsTyped ==
  ASSUME NEW m \in Seq(NmEntries)
  PROVE  Segments(m) \in Seq(Ranges) /\ Len(Segments(m)) <= Len(m)
  <1> DEFINE n == Len(m)
  <1>1. PICK f \in [0 .. n -> Seq(Ranges)] :
           /\ f[0] = <<>>
           /\ \A k \in 1 .. n : f[k] = SegmentAdded(f[k - 1], m[k])
           /\ Segments(m) = f[n]
    BY SegmentsRun
  <1>2. n \in Nat
    OBVIOUS
  <1> DEFINE Good == {k \in 0 .. n : Len(f[k]) <= k}
  <1>3. 0 \in Good
    BY <1>1, <1>2
  <1>4. ASSUME NEW k \in 1 .. n, k - 1 \in Good
        PROVE  k \in Good
    <2>1. Len(f[k - 1]) <= k - 1
      BY <1>4
    <2>2. f[k] = f[k - 1] \/ f[k] = Append(f[k - 1], Clip(m[k]))
      BY <1>1 DEF SegmentAdded
    <2> HIDE DEF Good, n
    <2>3. k - 1 \in 0 .. n /\ k \in 0 .. n /\ k \in Nat
      BY <1>2
    <2>4. f[k - 1] \in Seq(Ranges)
      BY <1>1, <2>3
    <2>5. Len(f[k - 1]) \in Nat
      BY <2>4
    <2>6. Len(f[k]) = Len(f[k - 1]) \/ Len(f[k]) = Len(f[k - 1]) + 1
      BY <2>2, <2>4
    <2>7. Len(f[k]) <= k
      BY <2>1, <2>3, <2>5, <2>6
    <2> QED
      BY <2>3, <2>7 DEF Good
  <1> HIDE DEF Good
  <1>5. \A k \in 0 .. n : k \in Good
    BY <1>2, <1>3, <1>4, UpTo
  <1> QED
    BY <1>1, <1>2, <1>5 DEF Good

\* A list of segments: each one behind the ones before, none empty, and outside
\* the hole with the usable pages of the first k entries.
SegsListed(m, segs, k) ==
  /\ \A i \in 1 .. Len(segs) : segs[i].start < segs[i].end /\ segs[i].end * PAGE <= EndOf(m[k])
  /\ \A i, j \in 1 .. Len(segs) : i < j => segs[i].end <= segs[j].start
  /\ \A p : p \notin HolePages =>
       ((\E i \in 1 .. Len(segs) : p \in PagesOf(segs[i])) <=>
        (\E i \in 1 .. k : Usable(m[i]) /\ p \in Within(m[i])))

\* An entry adds its pages to them.
LEMMA SegsListedStep ==
  ASSUME NEW m \in Seq(NmEntries), NEW k \in 1 .. Len(m), NEW segs \in Seq(Ranges),
         k = 1 => segs = <<>>,
         k > 1 => SegsListed(m, segs, k - 1) /\ EndOf(m[k - 1]) <= m[k].addr,
         m[k].size > 0,
         Keeps(m[k]) => PagesOf(Clip(m[k])) # {}
  PROVE  SegsListed(m, SegmentAdded(segs, m[k]), k)
  <1> DEFINE e == m[k]
             n == Len(segs)
             c == Clip(e)
  <1>1. e \in NmEntries /\ k \in Nat /\ n \in Nat
    OBVIOUS
  <1>2. e.addr \in Int /\ EndOf(e) \in Int /\ e.addr <= EndOf(e)
    <2>1. e.addr \in Int /\ e.size \in Int /\ e.size > 0 /\ EndOf(e) = e.addr + e.size
      BY <1>1, NewEntryFacts
    <2> QED
      BY <2>1
  <1>3. c \in Ranges /\ c.start \in Int /\ c.end \in Int
    BY <1>1, ClipTyped DEF Ranges
  <1>4. c.start * PAGE \in Int /\ e.addr <= c.start * PAGE /\ c.end * PAGE <= EndOf(e)
    BY <1>1, <1>3, ClipExact, Multiples
  <1>5. \A p : p \notin HolePages => (p \in PagesOf(c) <=> p \in Within(e))
    BY <1>1, ClipExact
  <1>6. Skipped(e) => Within(e) \subseteq HolePages
    BY <1>1, ClipExact
  <1>7. ASSUME NEW i \in 1 .. n
        PROVE  /\ segs[i].start \in Int /\ segs[i].end \in Int /\ segs[i].start < segs[i].end
               /\ segs[i].end * PAGE <= EndOf(e)
               /\ segs[i].end <= c.start
    <2>1. k > 1 /\ k - 1 \in 1 .. Len(m)
      BY <1>1, <1>7
    <2>2. segs[i] \in Ranges
      OBVIOUS
    <2>3. segs[i].start \in Int /\ segs[i].end \in Int /\ segs[i].end * PAGE \in Int
      BY <2>2, Multiples DEF Ranges
    <2>4. EndOf(m[k - 1]) \in Int
      <3>1. m[k - 1] \in NmEntries
        BY <2>1
      <3> QED
        BY <3>1, NewEntryFacts
    <2>5. /\ segs[i].start < segs[i].end /\ segs[i].end * PAGE <= EndOf(m[k - 1])
          /\ EndOf(m[k - 1]) <= e.addr
      BY <1>7, <2>1 DEF SegsListed
    <2>6. segs[i].end * PAGE <= e.addr
      BY <1>2, <2>3, <2>4, <2>5
    <2>7. segs[i].end * PAGE <= EndOf(e) /\ segs[i].end * PAGE <= c.start * PAGE
      BY <1>2, <1>4, <2>3, <2>6
    <2>8. segs[i].end <= c.start
      BY <1>3, <2>3, <2>7, Multiples
    <2> QED
      BY <2>3, <2>5, <2>7, <2>8
  <1>8. \A i, j \in 1 .. n : i < j => segs[i].end <= segs[j].start
    BY <1>1 DEF SegsListed
  <1>9. \A p : p \notin HolePages =>
          ((\E i \in 1 .. n : p \in PagesOf(segs[i])) <=>
           (\E i \in 1 .. k - 1 : Usable(m[i]) /\ p \in Within(m[i])))
    BY <1>1 DEF SegsListed
  <1>10. \A p : (\E i \in 1 .. k : Usable(m[i]) /\ p \in Within(m[i])) <=>
                \/ \E i \in 1 .. k - 1 : Usable(m[i]) /\ p \in Within(m[i])
                \/ Usable(e) /\ p \in Within(e)
    <2>1. \A i : i \in 1 .. k <=> i \in 1 .. k - 1 \/ i = k
      BY <1>1
    <2> QED
      BY <2>1
  <1> HIDE DEF c, e, n
  <1>11. CASE Keeps(e)
    <2> DEFINE new == Append(segs, c)
    <2>1. SegmentAdded(segs, e) = new
      BY <1>11 DEF SegmentAdded, c
    <2>2. /\ Len(new) = n + 1 /\ new[n + 1] = c
          /\ \A i \in 1 .. n : new[i] = segs[i]
          /\ \A i : i \in 1 .. n + 1 <=> i \in 1 .. n \/ i = n + 1
      BY <1>1, <1>3 DEF n
    <2> HIDE DEF new
    <2>3. c.start < c.end
      <3>1. PICK p : p \in c.start .. c.end - 1
        BY <1>11 DEF PagesOf, c, e
      <3> QED
        BY <1>3, <3>1
    <2>4. \A i \in 1 .. n + 1 : new[i].start < new[i].end /\ new[i].end * PAGE <= EndOf(e)
      BY <1>4, <1>7, <2>2, <2>3
    <2>5. ASSUME NEW i \in 1 .. n + 1, NEW j \in 1 .. n + 1, i < j
          PROVE  new[i].end <= new[j].start
      <3>1. i \in 1 .. n /\ (j \in 1 .. n \/ j = n + 1)
        BY <1>1, <2>5
      <3> QED
        BY <1>7, <1>8, <2>2, <2>5, <3>1
    <2>6. \A p : (\E i \in 1 .. n + 1 : p \in PagesOf(new[i])) <=>
                 (\E i \in 1 .. n : p \in PagesOf(segs[i])) \/ p \in PagesOf(c)
      BY <2>2, ZenonT(40)
    <2>7. Usable(e)
      BY <1>11 DEF Keeps
    <2>8. \A p : p \notin HolePages =>
            ((\E i \in 1 .. n + 1 : p \in PagesOf(new[i])) <=>
             (\E i \in 1 .. k : Usable(m[i]) /\ p \in Within(m[i])))
      BY <1>5, <1>9, <1>10, <2>6, <2>7
    <2>9. SegsListed(m, new, k)
      BY <2>2, <2>4, <2>5, <2>8 DEF SegsListed, e
    <2> QED
      BY <2>1, <2>9 DEF e
  <1>12. CASE ~Keeps(e)
    <2>1. SegmentAdded(segs, e) = segs
      BY <1>12 DEF SegmentAdded
    <2>2. \A p : p \notin HolePages =>
            ((\E i \in 1 .. n : p \in PagesOf(segs[i])) <=>
             (\E i \in 1 .. k : Usable(m[i]) /\ p \in Within(m[i])))
      BY <1>6, <1>9, <1>10, <1>12 DEF Keeps
    <2>3. SegsListed(m, segs, k)
      BY <1>7, <1>8, <2>2 DEF SegsListed, e, n
    <2> QED
      BY <2>1, <2>3 DEF e
  <1> QED
    BY <1>11, <1>12

\* What memsize_820 makes of a list that is in order and without regions that
\* hold no whole page.
LEMMA SegmentsExact ==
  ASSUME NEW m \in Seq(NmEntries), InOrder(m), Len(m) > 0,
         \A k \in DOMAIN m : Keeps(m[k]) => PagesOf(Clip(m[k])) # {}
  PROVE  SegsListed(m, Segments(m), Len(m))
  <1> DEFINE n == Len(m)
  <1>1. PICK f \in [0 .. n -> Seq(Ranges)] :
           /\ f[0] = <<>>
           /\ \A k \in 1 .. n : f[k] = SegmentAdded(f[k - 1], m[k])
           /\ Segments(m) = f[n]
    BY SegmentsRun
  <1>2. n \in Nat /\ n > 0
    OBVIOUS
  <1> DEFINE Good == {k \in 0 .. n : k = 0 \/ SegsListed(m, f[k], k)}
  <1>3. 0 \in Good
    BY <1>2
  <1>4. ASSUME NEW k \in 1 .. n, k - 1 \in Good
        PROVE  k \in Good
    <2>1. f[k - 1] \in Seq(Ranges) /\ k \in 0 .. n
      BY <1>1, <1>2
    <2>2. k = 1 => f[k - 1] = <<>>
      BY <1>1
    <2>3. k > 1 => SegsListed(m, f[k - 1], k - 1)
      BY <1>2, <1>4
    <2>4. k > 1 => EndOf(m[k - 1]) <= m[k].addr
      BY <1>2 DEF InOrder
    <2>5. m[k].size > 0
      BY DEF InOrder
    <2>6. Keeps(m[k]) => PagesOf(Clip(m[k])) # {}
      OBVIOUS
    <2> HIDE DEF Good, n
    <2>7. SegsListed(m, SegmentAdded(f[k - 1], m[k]), k)
      BY <2>1, <2>2, <2>3, <2>4, <2>5, <2>6, SegsListedStep DEF n
    <2>8. SegsListed(m, f[k], k)
      BY <1>1, <2>7
    <2> QED
      BY <2>1, <2>8 DEF Good
  <1> HIDE DEF Good
  <1>5. \A k \in 0 .. n : k \in Good
    BY <1>2, <1>3, <1>4, UpTo
  <1>6. n \in Good
    BY <1>2, <1>5
  <1>7. SegsListed(m, f[n], n)
    BY <1>2, <1>6 DEF Good
  <1> QED
    BY <1>1, <1>7

-----------------------------------------------------------------------------
(***************************************************************************)
(* sort_pmap and adj_mem.                                                  *)
(***************************************************************************)

\* A segment that starts behind all earlier ones stays; the first is copied to
\* the entry below the array.
LEMMA InsertAscending ==
  ASSUME NEW pm \in Pmaps, NEW i \in 0 .. E820MAX - 1,
         \A k \in 0 .. i - 1 : pm[k].start < pm[i].start
  PROVE  \A k \in 0 .. E820MAX - 1 : InsertSeg(pm, i)[k] = pm[k]
  <1> DEFINE Lower == {-2} \cup {k \in 0 .. i - 1 : pm[i].start > pm[k].start}
             j == Place(pm, i)
  <1>1. i \in Int /\ E820MAX \in Nat /\ DOMAIN pm = -1 .. E820MAX - 1
    BY PageFacts DEF Pmaps
  <1>2. \A k \in -1 .. E820MAX - 1 : pm[k].start \in Int
    BY DEF Pmaps, Ranges
  <1>3. Lower = {-2} \cup 0 .. i - 1
    BY <1>1, <1>2
  <1>4. j = Max(Lower) + 1
    BY DEF Place
  <1> HIDE DEF Lower, j
  <1>5. CASE i = 0
    <2>1. Lower = {-2}
      BY <1>3, <1>5
    <2>2. Max(Lower) = -2
      BY <2>1 DEF Max
    <2>3. j = -1
      BY <1>4, <2>2
    <2>4. InsertSeg(pm, i) =
            [k \in DOMAIN pm |-> IF k = -1 THEN pm[0] ELSE IF -1 < k /\ k < 0 THEN pm[k + 1] ELSE pm[k]]
      BY <1>5, <2>3 DEF InsertSeg, j
    <2> QED
      BY <1>1, <2>4
  <1>6. CASE i > 0
    <2>1. i - 1 \in Lower /\ \A y \in Lower : i - 1 >= y
      BY <1>1, <1>3, <1>6
    <2>2. \A x \in Lower : (\A y \in Lower : x >= y) => x = i - 1
      <3> SUFFICES ASSUME NEW x \in Lower, \A y \in Lower : x >= y PROVE x = i - 1
        OBVIOUS
      <3>1. x >= i - 1 /\ i - 1 >= x /\ x \in Int
        BY <1>1, <1>3, <2>1
      <3> QED
        BY <1>1, <3>1
    <2>3. Max(Lower) = i - 1
      BY <2>1, <2>2 DEF Max
    <2>4. j = i
      BY <1>1, <1>4, <2>3
    <2>5. InsertSeg(pm, i) = pm
      BY <2>4 DEF InsertSeg, j
    <2> QED
      BY <2>5
  <1> QED
    BY <1>1, <1>5, <1>6

\* sort_pmap inserts the segments 0 .. n - 1, in this order.
LEMMA SortedInserts ==
  ASSUME NEW pm \in Pmaps, NEW n \in 0 .. E820MAX
  PROVE  \E f \in [0 .. n -> Pmaps] :
           /\ f[0] = pm
           /\ \A k \in 1 .. n : f[k] = InsertSeg(f[k - 1], k - 1)
           /\ Sorted(pm, n) = f[n]
  <1> DEFINE is == [i \in 1 .. n |-> i]
  <1>1. is \in Seq(1 .. E820MAX) /\ Len(is) = n /\ \A k \in 1 .. n : is[k] = k
    <2>1. E820MAX \in Nat /\ n \in Nat /\ n <= E820MAX
      BY PageFacts
    <2>2. is \in [1 .. n -> 1 .. E820MAX]
      BY <2>1
    <2> QED
      BY <2>1, <2>2
  <1>2. Sorted(pm, n) = InsertAll(pm, is)
    BY DEF Sorted, InsertAll, FoldLeft, MapThenFoldSet
  <1> HIDE DEF is
  <1>3. PICK f \in [0 .. Len(is) -> Pmaps] :
           /\ f[0] = pm
           /\ \A k \in 1 .. Len(is) : f[k] = InsertSeg(f[k - 1], is[k] - 1)
           /\ InsertAll(pm, is) = f[Len(is)]
    BY <1>1, SortedRun
  <1> QED
    BY <1>1, <1>2, <1>3

\* A list that is in order already stays as it is.
LEMMA SortedAscending ==
  ASSUME NEW pm \in Pmaps, NEW n \in 0 .. E820MAX
  PROVE  /\ Sorted(pm, n) \in Pmaps
         /\ (\A i \in 0 .. n - 1 : \A k \in 0 .. i - 1 : pm[k].start < pm[i].start)
              => \A k \in 0 .. E820MAX - 1 : Sorted(pm, n)[k] = pm[k]
  <1>1. PICK f \in [0 .. n -> Pmaps] :
           /\ f[0] = pm
           /\ \A k \in 1 .. n : f[k] = InsertSeg(f[k - 1], k - 1)
           /\ Sorted(pm, n) = f[n]
    BY SortedInserts
  <1>2. n \in Nat /\ n \in 0 .. n /\ n <= E820MAX /\ E820MAX \in Nat
    BY PageFacts
  <1>3. Sorted(pm, n) \in Pmaps
    BY <1>1, <1>2
  <1> DEFINE Good == {l \in 0 .. n : \A k \in 0 .. E820MAX - 1 : f[l][k] = pm[k]}
  <1>4. ASSUME \A i \in 0 .. n - 1 : \A k \in 0 .. i - 1 : pm[k].start < pm[i].start
        PROVE  \A k \in 0 .. E820MAX - 1 : Sorted(pm, n)[k] = pm[k]
    <2>1. 0 \in Good
      BY <1>1, <1>2
    <2>2. ASSUME NEW l \in 1 .. n, l - 1 \in Good
          PROVE  l \in Good
      <3>1. l \in 0 .. n /\ l - 1 \in 0 .. n - 1 /\ l - 1 \in 0 .. E820MAX - 1 /\ f[l - 1] \in Pmaps
        BY <1>1, <1>2
      <3>2. \A k \in 0 .. E820MAX - 1 : f[l - 1][k] = pm[k]
        BY <2>2
      <3> HIDE DEF Good
      <3>3. \A k \in 0 .. (l - 1) - 1 : f[l - 1][k].start < f[l - 1][l - 1].start
        <4> SUFFICES ASSUME NEW k \in 0 .. (l - 1) - 1
                     PROVE  f[l - 1][k].start < f[l - 1][l - 1].start
          OBVIOUS
        <4>1. k \in 0 .. E820MAX - 1
          BY <1>2, <3>1
        <4>2. f[l - 1][k] = pm[k] /\ f[l - 1][l - 1] = pm[l - 1]
          BY <3>1, <3>2, <4>1
        <4>3. pm[k].start < pm[l - 1].start
          BY <1>4, <3>1
        <4> QED
          BY <4>2, <4>3
      <3>4. \A k \in 0 .. E820MAX - 1 : InsertSeg(f[l - 1], l - 1)[k] = f[l - 1][k]
        BY <3>1, <3>3, InsertAscending
      <3>5. \A k \in 0 .. E820MAX - 1 : f[l][k] = pm[k]
        BY <1>1, <3>2, <3>4
      <3> QED
        BY <3>1, <3>5 DEF Good
    <2> HIDE DEF Good
    <2>3. \A k \in 0 .. n : k \in Good
      BY <1>2, <2>1, <2>2, UpTo
    <2> QED
      BY <1>1, <1>2, <2>3 DEF Good
  <1> QED
    BY <1>3, <1>4

\* The number of numbers from a up to, not including, b.
LEMMA RangeSize ==
  ASSUME NEW a \in Int, NEW b \in Int, a <= b
  PROVE  Cardinality(a .. b - 1) = b - a
  <1>1. CASE a = b
    <2>1. a .. b - 1 = {}
      BY <1>1
    <2> QED
      BY <1>1, <2>1, FS_EmptySet
  <1>2. CASE a < b
    <2>1. Cardinality(a .. b - 1) = (b - 1) - a + 1
      BY <1>2, FS_Interval
    <2> QED
      BY <2>1
  <1> QED
    BY <1>1, <1>2

\* adj_mem counts the pages a segment and the limits have in common.
LEMMA SelectedExact ==
  ASSUME NEW s \in Ranges, NEW lower \in Int, NEW upper \in Int
  PROVE  /\ Selected(s, lower, upper) \in Int
         /\ s.start <= s.end /\ lower <= upper =>
              Selected(s, lower, upper) = Cardinality(PagesOf(s) \cap lower .. upper - 1)
  <1> DEFINE a == s.start
             b == s.end
  <1>1. a \in Int /\ b \in Int
    BY DEF Ranges
  <1>2. /\ a >= lower /\ b <= upper => Selected(s, lower, upper) = b - a
        /\ a < lower /\ b < lower => Selected(s, lower, upper) = 0
        /\ a < lower /\ b >= lower /\ b > upper => Selected(s, lower, upper) = upper - lower
        /\ a < lower /\ b >= lower /\ b <= upper => Selected(s, lower, upper) = b - lower
        /\ a >= lower /\ b > upper /\ a > upper => Selected(s, lower, upper) = 0
        /\ a >= lower /\ b > upper /\ a <= upper => Selected(s, lower, upper) = upper - a
    BY <1>1 DEF Selected
  <1>3. PagesOf(s) = a .. b - 1
    BY DEF PagesOf
  <1> HIDE DEF a, b
  <1>4. Selected(s, lower, upper) \in Int
    BY <1>1, <1>2
  <1>5. ASSUME a <= b, lower <= upper
        PROVE  Selected(s, lower, upper) = Cardinality((a .. b - 1) \cap lower .. upper - 1)
    <2>1. CASE a >= lower /\ b <= upper
      <3>1. (a .. b - 1) \cap lower .. upper - 1 = a .. b - 1
        BY <1>1, <2>1
      <3> QED
        BY <1>1, <1>2, <1>5, <2>1, <3>1, RangeSize
    <2>2. CASE \/ a < lower /\ b < lower
               \/ a >= lower /\ b > upper /\ a > upper
      <3>1. (a .. b - 1) \cap lower .. upper - 1 = {}
        BY <1>1, <2>2
      <3> QED
        BY <1>2, <2>2, <3>1, FS_EmptySet
    <2>3. CASE a < lower /\ b >= lower /\ b > upper
      <3>1. (a .. b - 1) \cap lower .. upper - 1 = lower .. upper - 1
        BY <1>1, <2>3
      <3> QED
        BY <1>2, <1>5, <2>3, <3>1, RangeSize
    <2>4. CASE a < lower /\ b >= lower /\ b <= upper
      <3>1. (a .. b - 1) \cap lower .. upper - 1 = lower .. b - 1
        BY <1>1, <2>4
      <3> QED
        BY <1>1, <1>2, <2>4, <3>1, RangeSize
    <2>5. CASE a >= lower /\ b > upper /\ a <= upper
      <3>1. (a .. b - 1) \cap lower .. upper - 1 = a .. upper - 1
        BY <1>1, <2>5
      <3> QED
        BY <1>1, <1>2, <2>5, <3>1, RangeSize
    <2> QED
      BY <1>1, <2>1, <2>2, <2>3, <2>4, <2>5
  <1> QED
    BY <1>3, <1>4, <1>5 DEF a, b

\* A sum of numbers is a number.
LEMMA TotalTyped ==
  ASSUME NEW g \in Seq(Int)
  PROVE  Total(g) \in Int
  <1>1. PICK f \in [0 .. Len(g) -> Int] : Total(g) = f[Len(g)]
    BY TotalRun
  <1> QED
    BY <1>1

-----------------------------------------------------------------------------
(***************************************************************************)
(* The inductive invariant of mem_size.                                    *)
(***************************************************************************)

\* The shape of the state.
MemTypes ==
  /\ stage \in {"sanitize", "build", "sort", "limits", "reserve", "done"}
  /\ e820 \in Seq(E820Entries) /\ kb \in [e88 : Nat, e801 : Nat]
  /\ nm \in Seq(NmEntries) /\ Len(nm) <= E820MAX
  /\ pmap \in Pmaps /\ msegs \in 0 .. E820MAX
  /\ test_pages \in Int /\ selected_pages \in Int
  /\ plim.lower \in Int /\ plim.upper \in Int

\* Once it is there, the new map is the firmware's map without its overlaps.
NewMap == stage # "sanitize" => nm = <<>> \/ Sanitized(e820, nm)

\* No region is left without a whole page.
NoneEmpty == \A k \in DOMAIN nm : Keeps(nm[k]) => PagesOf(Clip(nm[k])) # {}

\* The segments in pmap are those of memsize_820, before the sort and, when no
\* region is without a whole page, after it.
SegmentsThere ==
  stage = "sort" \/ (stage = "limits" /\ NoneEmpty) =>
    Len(nm) = 0 \/ (msegs = Len(Segments(nm)) /\ \A i \in 1 .. msegs : pmap[i - 1] = Segments(nm)[i])

\* The inductive invariant.
MemIInv == MemTypes /\ NewMap /\ SegmentsThere

\* The segments are written at the start of pmap.
LEMMA SetPmapTyped ==
  ASSUME NEW segs \in Seq(Ranges), Len(segs) <= E820MAX, pmap \in Pmaps, SetPmap(segs)
  PROVE  /\ pmap' \in Pmaps /\ msegs' \in 0 .. E820MAX /\ msegs' = Len(segs)
         /\ \A i \in 1 .. Len(segs) : pmap'[i - 1] = segs[i]
  <1>1. E820MAX \in Nat /\ Len(segs) \in Nat /\ DOMAIN segs = 1 .. Len(segs)
    BY PageFacts
  <1>2. DOMAIN pmap = -1 .. E820MAX - 1
    BY DEF Pmaps
  <1>3. pmap' = [i \in -1 .. E820MAX - 1 |-> IF i + 1 \in 1 .. Len(segs) THEN segs[i + 1] ELSE pmap[i]]
    BY <1>1, <1>2 DEF SetPmap
  <1>4. \A i \in -1 .. E820MAX - 1 :
          (IF i + 1 \in 1 .. Len(segs) THEN segs[i + 1] ELSE pmap[i]) \in Ranges
    BY DEF Pmaps
  <1>5. pmap' \in Pmaps
    BY <1>3, <1>4 DEF Pmaps
  <1>6. \A i \in 1 .. Len(segs) : pmap'[i - 1] = segs[i]
    BY <1>1, <1>3
  <1> QED
    BY <1>1, <1>5, <1>6 DEF SetPmap

\* mem_size starts in it.
LEMMA MemStarts == MemInit => MemIInv
  <1> SUFFICES ASSUME MemInit PROVE MemIInv
    OBVIOUS
  <1>1. e820 \in Seq(E820Entries) /\ kb \in [e88 : Nat, e801 : Nat]
    BY MemsizeAssumption DEF MemInit
  <1>2. nm \in Seq(NmEntries) /\ Len(nm) = 0
    BY EmptySeq DEF MemInit
  <1>3. pmap \in Pmaps
    BY DEF MemInit, Pmaps, Ranges
  <1> QED
    BY <1>1, <1>2, <1>3, PageFacts DEF MemInit, MemIInv, MemTypes, NewMap, SegmentsThere

\* What can be said of the segments of the new map.
LEMMA SegmentsFacts ==
  ASSUME MemTypes, nm # <<>>, Sanitized(e820, nm), NoneEmpty
  PROVE  /\ Segments(nm) \in Seq(Ranges) /\ Len(Segments(nm)) <= E820MAX
         /\ SegsListed(nm, Segments(nm), Len(nm))
  <1>1. nm \in Seq(NmEntries) /\ Len(nm) <= E820MAX /\ Len(nm) \in Nat /\ Len(nm) > 0
    BY DEF MemTypes
  <1>2. InOrder(nm)
    BY DEF Sanitized
  <1>3. SegsListed(nm, Segments(nm), Len(nm))
    BY <1>1, <1>2, SegmentsExact DEF NoneEmpty
  <1>4. Segments(nm) \in Seq(Ranges) /\ Len(Segments(nm)) <= Len(nm)
    BY <1>1, SegmentsTyped
  <1>5. Len(Segments(nm)) \in Nat
    BY <1>4
  <1> QED
    BY <1>1, <1>3, <1>4, <1>5, PageFacts

\* Every step of mem_size keeps it.
LEMMA MemSteps == MemIInv /\ [MemNext]_memVars => MemIInv'
  <1> SUFFICES ASSUME MemIInv, [MemNext]_memVars PROVE MemIInv'
    OBVIOUS
  <1> USE DEF MemIInv
  <1>1. CASE SanitizeMap
    <2>1. nm' = <<>> \/ Sanitized(e820, nm')
      BY <1>1, SanitizeSound DEF SanitizeMap, MemTypes
    <2>2. nm' \in Seq(NmEntries) /\ Len(nm') <= E820MAX
      <3>1. <<>> \in Seq(NmEntries) /\ Len(<<>>) <= E820MAX
        BY EmptySeq, PageFacts
      <3>2. CASE nm' = <<>>
        BY <3>1, <3>2
      <3>3. CASE Sanitized(e820, nm')
        BY <3>3 DEF Sanitized
      <3> QED
        BY <2>1, <3>2, <3>3
    <2>3. MemTypes'
      BY <1>1, <2>2 DEF MemTypes, SanitizeMap
    <2>4. NewMap'
      BY <1>1, <2>1 DEF NewMap, SanitizeMap, Sanitized, TypeAt, EndOf
    <2>5. SegmentsThere'
      BY <1>1 DEF SegmentsThere, SanitizeMap
    <2> QED
      BY <2>3, <2>4, <2>5
  <1>2. CASE Memsize820
    <2>1. Segments(nm) \in Seq(Ranges) /\ Len(Segments(nm)) <= E820MAX
      <3>1. Segments(nm) \in Seq(Ranges) /\ Len(Segments(nm)) <= Len(nm)
        BY SegmentsTyped DEF MemTypes
      <3>2. Len(nm) \in Nat /\ Len(Segments(nm)) \in Nat
        BY <3>1 DEF MemTypes
      <3> QED
        BY <3>1, <3>2, PageFacts DEF MemTypes
    <2>2. /\ pmap' \in Pmaps /\ msegs' \in 0 .. E820MAX /\ msegs' = Len(Segments(nm))
          /\ \A i \in 1 .. Len(Segments(nm)) : pmap'[i - 1] = Segments(nm)[i]
      <3>1. SetPmap(Segments(nm)) /\ pmap \in Pmaps
        BY <1>2 DEF Memsize820, MemTypes
      <3> QED
        BY <2>1, <3>1, SetPmapTyped
    <2>3. test_pages' \in Int
      <3> DEFINE segs == Segments(nm)
                 lengths == [k \in DOMAIN segs |-> segs[k].end - segs[k].start]
      <3>1. test_pages' = test_pages + Total(lengths) /\ test_pages \in Int
        BY <1>2 DEF Memsize820, MemTypes
      <3>2. \A k \in 1 .. Len(segs) : segs[k] \in Ranges
        BY <2>1
      <3>3. DOMAIN segs = 1 .. Len(segs) /\ Len(segs) \in Nat
        BY <2>1
      <3> HIDE DEF segs
      <3>4. lengths \in [1 .. Len(segs) -> Int]
        BY <3>2, <3>3 DEF Ranges
      <3>5. lengths \in Seq(Int)
        BY <3>3, <3>4
      <3> HIDE DEF lengths
      <3> QED
        BY <3>1, <3>5, TotalTyped
    <2>4. /\ stage' = "sort" /\ nm' = nm /\ e820' = e820 /\ kb' = kb
          /\ selected_pages' = selected_pages /\ plim' = plim /\ stage = "build"
      BY <1>2 DEF Memsize820
    <2>5. MemTypes'
      BY <2>2, <2>3, <2>4 DEF MemTypes
    <2>6. NewMap'
      BY <2>4 DEF NewMap, Sanitized, TypeAt, EndOf
    <2>7. SegmentsThere'
      BY <2>2, <2>4 DEF SegmentsThere
    <2> QED
      BY <2>5, <2>6, <2>7
  <1>3. CASE Memsize801
    <2> DEFINE size == (IF kb.e801 < kb.e88 THEN kb.e88 ELSE kb.e801) \div PAGE
               low == RES_START \div PAGE
               high == RES_END \div PAGE
               segs == <<[start |-> 0, end |-> low], [start |-> high, end |-> high + size]>>
    <2>1. size \in Int /\ low \in Int /\ high \in Int
      <3>1. kb.e88 \in Int /\ kb.e801 \in Int
        BY DEF MemTypes
      <3> QED
        BY <3>1, HoleBounds, Quotients
    <2>2. /\ SetPmap(segs) /\ test_pages' = low + size /\ Len(nm) = 0
          /\ stage' = "sort" /\ nm' = nm /\ e820' = e820 /\ kb' = kb
          /\ selected_pages' = selected_pages /\ plim' = plim /\ stage = "build"
      BY <1>3 DEF Memsize801
    <2> HIDE DEF size, low, high
    <2>3. segs \in Seq(Ranges) /\ Len(segs) = 2
      <3>1. [start |-> 0, end |-> low] \in Ranges /\ [start |-> high, end |-> high + size] \in Ranges
        BY <2>1 DEF Ranges
      <3> QED
        BY <3>1
    <2> HIDE DEF segs
    <2>4. pmap' \in Pmaps /\ msegs' \in 0 .. E820MAX
      <3>1. pmap \in Pmaps /\ SetPmap(segs) /\ Len(segs) <= E820MAX
        BY <2>2, <2>3, PageFacts DEF MemTypes
      <3> QED
        BY <2>3, <3>1, SetPmapTyped
    <2>5. MemTypes'
      BY <2>1, <2>2, <2>4 DEF MemTypes
    <2>6. NewMap'
      BY <2>2 DEF NewMap, Sanitized, TypeAt, EndOf
    <2>7. SegmentsThere'
      BY <2>2 DEF SegmentsThere
    <2> QED
      BY <2>5, <2>6, <2>7
  <1>4. CASE SortPmap
    <2>1. /\ stage = "sort" /\ stage' = "limits" /\ pmap' = Sorted(pmap, msegs)
          /\ nm' = nm /\ e820' = e820 /\ kb' = kb /\ msegs' = msegs
          /\ test_pages' = test_pages /\ selected_pages' = selected_pages /\ plim' = plim
      BY <1>4 DEF SortPmap
    <2>2. pmap' \in Pmaps
      BY <2>1, SortedAscending DEF MemTypes
    <2>3. MemTypes'
      BY <2>1, <2>2 DEF MemTypes
    <2>4. NewMap'
      BY <2>1 DEF NewMap, Sanitized, TypeAt, EndOf
    <2>5. ASSUME NoneEmpty, Len(nm) # 0
          PROVE  msegs = Len(Segments(nm)) /\ \A i \in 1 .. msegs : pmap'[i - 1] = Segments(nm)[i]
      <3> DEFINE segs == Segments(nm)
      <3>1. nm # <<>> /\ Sanitized(e820, nm)
        BY <2>1, <2>5 DEF NewMap
      <3>2. segs \in Seq(Ranges) /\ Len(segs) <= E820MAX /\ SegsListed(nm, segs, Len(nm))
        BY <2>5, <3>1, SegmentsFacts
      <3>3. msegs = Len(segs) /\ \A i \in 1 .. msegs : pmap[i - 1] = segs[i]
        BY <2>1, <2>5 DEF SegmentsThere
      <3> HIDE DEF segs
      <3>4. E820MAX \in Nat /\ msegs \in Nat /\ msegs <= E820MAX
        BY PageFacts DEF MemTypes
      <3>5. \A i \in 1 .. msegs : segs[i].start \in Int /\ segs[i].end \in Int /\ segs[i].start < segs[i].end
        <4>1. \A i \in 1 .. Len(segs) : segs[i] \in Ranges
          BY <3>2
        <4> QED
          BY <3>2, <3>3, <4>1 DEF SegsListed, Ranges
      <3>6. ASSUME NEW i \in 0 .. msegs - 1, NEW k \in 0 .. i - 1
            PROVE  pmap[k].start < pmap[i].start
        <4>1. /\ i + 1 \in 1 .. msegs /\ k + 1 \in 1 .. msegs /\ k + 1 < i + 1
              /\ (i + 1) - 1 = i /\ (k + 1) - 1 = k
          BY <3>4
        <4>2. pmap[i] = segs[i + 1] /\ pmap[k] = segs[k + 1]
          BY <3>3, <4>1
        <4>3. segs[k + 1].end <= segs[i + 1].start
          BY <3>2, <3>3, <4>1 DEF SegsListed
        <4> QED
          BY <3>5, <4>1, <4>2, <4>3
      <3>7. \A k \in 0 .. E820MAX - 1 : pmap'[k] = pmap[k]
        BY <2>1, <3>6, SortedAscending DEF MemTypes
      <3>8. \A i \in 1 .. msegs : pmap'[i - 1] = segs[i]
        BY <3>3, <3>4, <3>7
      <3> QED
        BY <3>3, <3>8 DEF segs
    <2>6. NoneEmpty' <=> NoneEmpty
      BY <2>1 DEF NoneEmpty
    <2>7. SegmentsThere'
      BY <2>1, <2>5, <2>6 DEF SegmentsThere
    <2> QED
      BY <2>3, <2>4, <2>7
  <1>5. CASE AdjMem
    <2>1. /\ stage = "limits" /\ stage' = "reserve" /\ pmap' = pmap
          /\ nm' = nm /\ e820' = e820 /\ kb' = kb /\ msegs' = msegs /\ test_pages' = test_pages
          /\ plim' = [lower |-> 0, upper |-> pmap[msegs - 1].end]
          /\ selected_pages' =
               Total([k \in 1 .. msegs |-> Selected(pmap[k - 1], plim'.lower, plim'.upper)])
      BY <1>5 DEF AdjMem
    <2>2. E820MAX \in Nat /\ msegs \in Nat /\ msegs <= E820MAX
      BY PageFacts DEF MemTypes
    <2>3. \A k \in -1 .. E820MAX - 1 : pmap[k] \in Ranges
      BY DEF MemTypes, Pmaps
    <2>4. plim'.lower \in Int /\ plim'.upper \in Int
      <3>1. msegs - 1 \in -1 .. E820MAX - 1
        BY <2>2
      <3> QED
        BY <2>1, <2>3, <3>1 DEF Ranges
    <2>5. selected_pages' \in Int
      <3> DEFINE parts == [k \in 1 .. msegs |-> Selected(pmap[k - 1], plim'.lower, plim'.upper)]
      <3>1. ASSUME NEW k \in 1 .. msegs
            PROVE  Selected(pmap[k - 1], plim'.lower, plim'.upper) \in Int
        <4>1. pmap[k - 1] \in Ranges
          BY <2>2, <2>3
        <4>2. \A lower, upper \in Int : Selected(pmap[k - 1], lower, upper) \in Int
          BY <4>1, SelectedExact
        <4> QED
          BY <2>4, <4>2
      <3>2. parts \in [1 .. msegs -> Int]
        BY <3>1
      <3>3. parts \in Seq(Int)
        BY <2>2, <3>2
      <3>4. Total(parts) \in Int
        BY <3>3, TotalTyped
      <3> QED
        BY <2>1, <3>4
    <2>6. MemTypes'
      BY <2>1, <2>4, <2>5 DEF MemTypes
    <2>7. NewMap'
      BY <2>1 DEF NewMap, Sanitized, TypeAt, EndOf
    <2>8. SegmentsThere'
      BY <2>1 DEF SegmentsThere
    <2> QED
      BY <2>6, <2>7, <2>8
  <1>6. CASE ReserveLocks
    <2> DEFINE kept == [pmap EXCEPT ![0].end = @ - 1]
    <2>1. /\ stage = "reserve" /\ stage' = "done" /\ pmap' = kept
          /\ plim' = [lower |-> 0, upper |-> kept[msegs - 1].end]
          /\ nm' = nm /\ e820' = e820 /\ kb' = kb /\ msegs' = msegs /\ test_pages' = test_pages
          /\ selected_pages' = selected_pages
      BY <1>6 DEF ReserveLocks
    <2>2. E820MAX \in Nat /\ E820MAX > 1 /\ msegs \in Nat /\ msegs <= E820MAX
      BY PageFacts DEF MemTypes
    <2>3. kept \in Pmaps
      <3>1. 0 \in -1 .. E820MAX - 1 /\ pmap \in Pmaps
        BY <2>2 DEF MemTypes
      <3>2. pmap[0] \in Ranges
        BY <3>1 DEF Pmaps
      <3>3. [pmap[0] EXCEPT !.end = @ - 1] \in Ranges
        BY <3>2 DEF Ranges
      <3>4. kept = [pmap EXCEPT ![0] = [pmap[0] EXCEPT !.end = @ - 1]]
        BY <3>1 DEF Pmaps
      <3> QED
        BY <3>1, <3>3, <3>4 DEF Pmaps
    <2> HIDE DEF kept
    <2>4. plim'.lower \in Int /\ plim'.upper \in Int
      <3>1. msegs - 1 \in -1 .. E820MAX - 1
        BY <2>2
      <3>2. kept[msegs - 1] \in Ranges
        BY <2>3, <3>1 DEF Pmaps
      <3> QED
        BY <2>1, <3>2 DEF Ranges
    <2>5. MemTypes'
      BY <2>1, <2>3, <2>4 DEF MemTypes
    <2>6. NewMap'
      BY <2>1 DEF NewMap, Sanitized, TypeAt, EndOf
    <2>7. SegmentsThere'
      BY <2>1 DEF SegmentsThere
    <2> QED
      BY <2>5, <2>6, <2>7
  <1>7. CASE UNCHANGED memVars
    <2>1. MemTypes'
      BY <1>7 DEF MemTypes, memVars
    <2>2. NewMap'
      <3>1. stage' = stage /\ e820' = e820 /\ nm' = nm
        BY <1>7 DEF memVars
      <3> QED
        BY <3>1 DEF NewMap, Sanitized, TypeAt, EndOf
    <2>3. SegmentsThere'
      BY <1>7 DEF SegmentsThere, NoneEmpty, memVars
    <2> QED
      BY <2>1, <2>2, <2>3
  <1> QED
    BY <1>1, <1>2, <1>3, <1>4, <1>5, <1>6, <1>7 DEF MemNext

\* The invariant says that each step of mem_size keeps the memory it should.
LEMMA MemExact == MemIInv => MapExact
  <1> SUFFICES ASSUME MemIInv PROVE MapExact
    OBVIOUS
  <1>1. MemTypes /\ NewMap /\ SegmentsThere
    BY DEF MemIInv
  <1>2. MemTypeOK
    BY <1>1 DEF MemTypes, MemTypeOK, Pmaps, Ranges
  <1>3. SanitizeExact
    <2> SUFFICES ASSUME stage = "build", Len(nm) > 0
                 PROVE  /\ \A k \in 2 .. Len(nm) : EndOf(nm[k - 1]) <= nm[k].addr
                        /\ \A x \in 0 .. ADDR_SPACE - 1 :
                             Len(nm) < E820MAX \/ x < EndOf(nm[E820MAX]) => TypeAt(nm, x) = TypeAt(e820, x)
      BY DEF SanitizeExact
    <2>1. nm # <<>> /\ Sanitized(e820, nm)
      <3>1. nm # <<>>
        BY <1>1 DEF MemTypes
      <3> QED
        BY <1>1, <3>1 DEF NewMap
    <2>2. \A x \in 0 .. ADDR_SPACE - 1 : x \in Nat
      BY PageFacts
    <2> QED
      BY <2>1, <2>2 DEF Sanitized, InOrder
  <1>4. PmapExact
    <2> SUFFICES ASSUME stage = "limits", Len(nm) > 0, NoneEmpty
                 PROVE  /\ PmapPages \ HolePages = UsablePages \ HolePages
                        /\ \A i \in Segs \ {0} : pmap[i - 1].end <= pmap[i].start
      BY DEF PmapExact, NoneEmpty
    <2> DEFINE segs == Segments(nm)
    <2>1. nm # <<>> /\ Sanitized(e820, nm)
      <3>1. nm # <<>>
        BY <1>1 DEF MemTypes
      <3> QED
        BY <1>1, <3>1 DEF NewMap
    <2>2. segs \in Seq(Ranges) /\ SegsListed(nm, segs, Len(nm))
      BY <1>1, <2>1, SegmentsFacts
    <2>3. msegs = Len(segs) /\ \A i \in 1 .. msegs : pmap[i - 1] = segs[i]
      BY <1>1 DEF SegmentsThere
    <2> HIDE DEF segs
    <2>4. msegs \in Nat /\ Segs = 0 .. msegs - 1 /\ DOMAIN nm = 1 .. Len(nm) /\ Len(nm) \in Nat
      BY <1>1, PageFacts DEF MemTypes, Segs
    <2>5. \A p : p \in PmapPages <=> \E i \in 1 .. msegs : p \in PagesOf(segs[i])
      <3>1. \A i \in 1 .. msegs : i - 1 \in Segs
        BY <2>4
      <3>2. \A i \in Segs : i + 1 \in 1 .. msegs /\ pmap[i] = segs[i + 1]
        <4> SUFFICES ASSUME NEW i \in Segs PROVE i + 1 \in 1 .. msegs /\ pmap[i] = segs[i + 1]
          OBVIOUS
        <4>1. i + 1 \in 1 .. msegs /\ (i + 1) - 1 = i
          BY <2>4
        <4> QED
          BY <2>3, <4>1
      <3>3. \A i \in 1 .. msegs : i - 1 \in Segs /\ pmap[i - 1] = segs[i]
        BY <2>3, <3>1
      <3>4. \A p : p \in PmapPages <=> \E i \in Segs : p \in PagesOf(pmap[i])
        BY DEF PmapPages
      <3> QED
        BY <3>2, <3>3, <3>4
    <2>6. \A p : p \in UsablePages <=> \E k \in 1 .. Len(nm) : Usable(nm[k]) /\ p \in Within(nm[k])
      BY <2>4 DEF UsablePages, Within
    <2>7. PmapPages \ HolePages = UsablePages \ HolePages
      BY <2>2, <2>3, <2>5, <2>6 DEF SegsListed
    <2>8. \A i \in Segs \ {0} : pmap[i - 1].end <= pmap[i].start
      <3> SUFFICES ASSUME NEW i \in Segs \ {0} PROVE pmap[i - 1].end <= pmap[i].start
        OBVIOUS
      <3>1. i \in 1 .. msegs /\ i + 1 \in 1 .. msegs /\ (i + 1) - 1 = i /\ i < i + 1
        BY <2>4
      <3>2. pmap[i - 1] = segs[i] /\ pmap[i] = segs[i + 1]
        BY <2>3, <3>1
      <3> QED
        BY <2>2, <2>3, <3>1, <3>2 DEF SegsListed
    <2> QED
      BY <2>7, <2>8
  <1>5. AdjExact
    <2> SUFFICES ASSUME \A i \in Segs : pmap[i].start <= pmap[i].end,
                        NEW lower \in 0 .. ADDR_SPACE \div PAGE, NEW upper \in 0 .. ADDR_SPACE \div PAGE,
                        lower <= upper, NEW i \in Segs
                 PROVE  Selected(pmap[i], lower, upper)
                          = Cardinality(PagesOf(pmap[i]) \cap lower .. upper - 1)
      BY DEF AdjExact
    <2>1. pmap[i] \in Ranges
      BY <1>1, PageFacts DEF MemTypes, Pmaps, Segs
    <2>2. lower \in Int /\ upper \in Int
      OBVIOUS
    <2>3. pmap[i].start <= pmap[i].end
      OBVIOUS
    <2> QED
      BY <2>1, <2>2, <2>3, SelectedExact
  <1> QED
    BY <1>2, <1>3, <1>4, <1>5 DEF MapExact

\* From the firmware's map to the segments that are tested, for every map of
\* any length: sanitize_e820_map removes the overlaps and gives every address
\* the greatest of its types, memsize_820 and sort_pmap keep exactly the whole
\* pages of usable memory outside the hole, in order and each one once, and
\* adj_mem counts the pages between the limits.
THEOREM MemoryFound == MemSpec => []MapExact
  <1>1. MemSpec => []MemIInv
    BY MemStarts, MemSteps, PTL DEF MemSpec
  <1> QED
    BY <1>1, MemExact, PTL

=============================================================================

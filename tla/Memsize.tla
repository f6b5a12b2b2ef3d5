------------------------------- MODULE Memsize -------------------------------
(***************************************************************************)
(* How memtest86 finds the memory to test: mem_size of memsize.c with      *)
(* sanitize_e820_map, memsize_820, memsize_801 and sort_pmap, adj_mem of   *)
(* config.c, the reservation of the page of the locks in test_start and    *)
(* compute_segments of main.c.                                             *)
(*                                                                         *)
(* An address is a number of units, PAGE of which make a page.  An entry   *)
(* of the firmware's map is a record with addr, size and type; a segment   *)
(* of v->pmap has the pages from start up to, not including, end.          *)
(***************************************************************************)
EXTENDS Integers, Sequences, FiniteSets, FiniteSetsExt, SequencesExt, TLC

CONSTANTS
  Maps,                 \* the e820 maps the firmware may report
  ExtKb,                \* what the older calls may report: {e88, e801} sizes
  PAGE,                 \* units in a page (4096 bytes)
  RES_START, RES_END,   \* the hole between 640 and 1024 KB, in units
  E820MAX,              \* entries of the tables
  ADDR_SPACE            \* addresses are computed modulo this (2^64)

E820_RAM == 1
E820_ACPI == 3

\* What an entry of the firmware's map may say: any address and any size.
E820Entries == [addr : 0 .. ADDR_SPACE - 1, size : 0 .. ADDR_SPACE - 1, type : Nat]

ASSUME MemsizeAssumption ==
  /\ PAGE \in Nat \ {0} /\ E820MAX \in Nat \ {0, 1} /\ ADDR_SPACE \in Nat \ {0}
  /\ RES_START \in Nat /\ RES_END \in Nat /\ RES_START < RES_END
  /\ RES_START % PAGE = 0 /\ RES_END % PAGE = 0
  /\ \A m \in Maps : m \in Seq(E820Entries) /\ Len(m) <= E820MAX
  /\ ExtKb \subseteq [e88 : Nat, e801 : Nat]

VARIABLES
  stage,                \* the function of memsize.c that runs next
  e820,                 \* the firmware's map
  kb,                   \* alt_mem_k, ext_mem_k
  nm,                   \* memsize_820: the sanitized map
  pmap,                 \* v->pmap; index -1 is what lies before it, v->erri
  msegs,                \* v->msegs
  test_pages,           \* v->test_pages
  selected_pages,       \* v->selected_pages
  plim                  \* v->plim_lower, v->plim_upper

memVars == <<stage, e820, kb, nm, pmap, msegs, test_pages, selected_pages, plim>>

MaxOf(a, b) == IF a < b THEN b ELSE a
MinOf(a, b) == IF a < b THEN a ELSE b

Segs == 0 .. msegs - 1
PagesOf(s) == s.start .. s.end - 1
PmapPages == UNION {PagesOf(pmap[i]) : i \in Segs}

\* The sums of memsize_820 and adj_mem run over the segments in order.
Total(f) == FoldLeft(+, 0, f)

-----------------------------------------------------------------------------
(***************************************************************************)
(* sanitize_e820_map: walk the change points in order of address, keep the *)
(* set of entries that cover the current one, let the largest type win.    *)
(***************************************************************************)
Wraps(e) == (e.addr + e.size) % ADDR_SPACE < e.addr

\* Point 2i - 1 is the start of entry i, point 2i its end.
Point(m, k) ==
  LET e == m[(k + 1) \div 2]
  IN [at |-> IF k % 2 = 1 THEN e.addr ELSE e.addr + e.size,
      starts |-> k % 2 = 1, entry |-> (k + 1) \div 2]

\* The bubble sort exchanges neighbours only when it must, so points that
\* compare equal stay in their order.
Earlier(m, j, k) ==
  LET p == Point(m, j)
      q == Point(m, k)
  IN p.at < q.at \/ (p.at = q.at /\ IF p.starts = q.starts THEN j < k ELSE p.starts)

PlaceOf(m, k) == Cardinality({j \in 1 .. 2 * Len(m) : Earlier(m, j, k)}) + 1

ChangePoints(m) ==
  [r \in 1 .. 2 * Len(m) |-> Point(m, CHOOSE k \in 1 .. 2 * Len(m) : PlaceOf(m, k) = r)]

Strongest(m, overlap) == Max({0} \cup {m[k].type : k \in overlap})

\* One turn of the loop: w.last is last_type, w.from last_addr, w.out the new
\* map, w.full the break when there is no more space in it.
AtPoint(m, w, p) ==
  LET overlap == IF p.starts THEN w.overlap \cup {p.entry} ELSE w.overlap \ {p.entry}
      type == Strongest(m, overlap)
      out == IF w.last # 0 /\ p.at # w.from
             THEN Append(w.out, [addr |-> w.from, size |-> p.at - w.from, type |-> w.last])
             ELSE w.out
  IN CASE w.full -> w
       [] ~w.full /\ type = w.last -> [w EXCEPT !.overlap = overlap]
       [] OTHER -> [overlap |-> overlap, last |-> type, out |-> out,
                    from |-> IF type # 0 THEN p.at ELSE w.from,
                    full |-> Len(out) >= E820MAX]

Start == [overlap |-> {}, last |-> 0, from |-> 0, out |-> <<>>, full |-> FALSE]
Walked(m, points) == FoldLeft(LAMBDA w, p : AtPoint(m, w, p), Start, points)

Sanitize(m) ==
  IF \E k \in DOMAIN m : Wraps(m[k]) THEN <<>> ELSE Walked(m, ChangePoints(m)).out

(***************************************************************************)
(* memsize_820: the usable regions, less the hole, in whole pages.         *)
(***************************************************************************)
Usable(e) == e.type \in {E820_RAM, E820_ACPI}
EndOf(e) == e.addr + e.size
InHole(e) == e.addr > RES_START /\ e.addr < RES_END
Skipped(e) == InHole(e) /\ EndOf(e) < RES_END

\* Mutant of Clip: a region that starts in a page gets the whole page.
ClipOutwards(e) ==
  [start |-> (IF InHole(e) THEN RES_END ELSE e.addr) \div PAGE, end |-> EndOf(e) \div PAGE]

Clip(e) ==
  LET end == IF EndOf(e) > RES_START /\ EndOf(e) < RES_END THEN RES_START ELSE EndOf(e)
      start == IF InHole(e) THEN RES_END ELSE e.addr
  IN [start |-> (start + PAGE - 1) \div PAGE, end |-> end \div PAGE]

Keeps(e) == Usable(e) /\ ~Skipped(e)

Segments(m) ==
  FoldLeft(LAMBDA segs, e : IF Keeps(e) THEN Append(segs, Clip(e)) ELSE segs, <<>>, m)

(***************************************************************************)
(* sort_pmap: one turn of the insertion sort.  When no earlier segment     *)
(* starts below segment i, the search ends at j = -1, and the move and the *)
(* store reach one entry below the array.                                  *)
(***************************************************************************)
Place(pm, i) == Max({-2} \cup {k \in 0 .. i - 1 : pm[i].start > pm[k].start}) + 1

InsertSeg(pm, i) ==
  LET j == Place(pm, i)
  IN IF i = j THEN pm
     ELSE [k \in DOMAIN pm |-> IF k = j THEN pm[i]
                               ELSE IF j < k /\ k < i THEN pm[k + 1] ELSE pm[k]]

Sorted(pm, n) == FoldLeft(LAMBDA acc, i : InsertSeg(acc, i - 1), pm, [i \in 1 .. n |-> i])

(***************************************************************************)
(* adj_mem: what segment s contributes to the pages between two limits.    *)
(***************************************************************************)
Selected(s, lower, upper) ==
  CASE s.start >= lower /\ s.end <= upper -> s.end - s.start
    [] s.start < lower /\ s.end < lower -> 0
    [] s.start < lower /\ s.end >= lower /\ s.end > upper -> upper - lower
    [] s.start < lower /\ s.end >= lower /\ s.end <= upper -> s.end - lower
    [] s.start >= lower /\ s.end > upper /\ s.start > upper -> 0
    [] s.start >= lower /\ s.end > upper /\ s.start <= upper -> upper - s.start

(***************************************************************************)
(* compute_segments: the parts of the segments that lie in window win and  *)
(* within the limits, as a sequence (v->map).                              *)
(***************************************************************************)
ComputeSegments(win) ==
  LET wstart == MaxOf(win.start, plim.lower)
      wend == MinOf(win.end, plim.upper)
      part(i) == [start |-> MaxOf(pmap[i - 1].start, wstart),
                  end |-> MinOf(pmap[i - 1].end, wend)]
  IN IF wstart >= wend THEN <<>>
     ELSE SelectSeq([i \in 1 .. msegs |-> part(i)],
                    LAMBDA s : s.start < s.end /\ s.start < wend /\ s.end > wstart)

-----------------------------------------------------------------------------
(***************************************************************************)
(* The steps of mem_size.                                                  *)
(***************************************************************************)
MemInit ==
  /\ stage = "sanitize"
  /\ e820 \in Maps /\ kb \in ExtKb
  /\ nm = <<>> /\ msegs = 0
  /\ pmap = [i \in -1 .. E820MAX - 1 |-> [start |-> 0, end |-> 0]]
  /\ test_pages = 0 /\ selected_pages = 0
  /\ plim = [lower |-> 0, upper |-> 0]

SanitizeMap ==
  /\ stage = "sanitize"
  /\ nm' = Sanitize(e820)
  /\ stage' = "build"
  /\ UNCHANGED <<e820, kb, pmap, msegs, test_pages, selected_pages, plim>>

\* The old contents of pmap stay behind the new segments.
SetPmap(segs) ==
  /\ pmap' = [i \in DOMAIN pmap |-> IF i + 1 \in DOMAIN segs THEN segs[i + 1] ELSE pmap[i]]
  /\ msegs' = Len(segs)

Memsize820 ==
  /\ stage = "build" /\ Len(nm) >= 1
  /\ LET segs == Segments(nm)
     IN /\ SetPmap(segs)
        /\ test_pages' = test_pages + Total([k \in DOMAIN segs |-> segs[k].end - segs[k].start])
  /\ stage' = "sort"
  /\ UNCHANGED <<e820, kb, nm, selected_pages, plim>>

\* No good map: 640 KB, and the greater of the two older sizes above 1 MB.
Memsize801 ==
  /\ stage = "build" /\ Len(nm) = 0
  /\ LET size == (IF kb.e801 < kb.e88 THEN kb.e88 ELSE kb.e801) \div PAGE
         low == RES_START \div PAGE
         high == RES_END \div PAGE
     IN /\ SetPmap(<<[start |-> 0, end |-> low], [start |-> high, end |-> high + size]>>)
        /\ test_pages' = low + size
  /\ stage' = "sort"
  /\ UNCHANGED <<e820, kb, nm, selected_pages, plim>>

SortPmap ==
  /\ stage = "sort"
  /\ pmap' = Sorted(pmap, msegs)
  /\ stage' = "limits"
  /\ UNCHANGED <<e820, kb, nm, msegs, test_pages, selected_pages, plim>>

AdjMem ==
  /\ stage = "limits"
  /\ plim' = [lower |-> 0, upper |-> pmap[msegs - 1].end]
  /\ selected_pages' =
       Total([k \in 1 .. msegs |-> Selected(pmap[k - 1], plim'.lower, plim'.upper)])
  /\ stage' = "reserve"
  /\ UNCHANGED <<e820, kb, nm, pmap, msegs, test_pages>>

\* test_start: do not test the page of the locks; set_defaults sets the
\* limits again afterwards.
ReserveLocks ==
  /\ stage = "reserve"
  /\ LET kept == [pmap EXCEPT ![0].end = @ - 1]
     IN /\ pmap' = kept
        /\ plim' = [lower |-> 0, upper |-> kept[msegs - 1].end]
  /\ stage' = "done"
  /\ UNCHANGED <<e820, kb, nm, msegs, test_pages, selected_pages>>

MemNext ==
  \/ SanitizeMap \/ Memsize820 \/ Memsize801 \/ SortPmap \/ AdjMem \/ ReserveLocks

MemSpec == MemInit /\ [][MemNext]_memVars

-----------------------------------------------------------------------------
(***************************************************************************)
(* Properties.                                                             *)
(***************************************************************************)
MemTypeOK ==
  /\ stage \in {"sanitize", "build", "sort", "limits", "reserve", "done"}
  /\ Len(nm) <= E820MAX
  /\ msegs \in 0 .. E820MAX
  /\ pmap \in [-1 .. E820MAX - 1 -> [start : Int, end : Int]]
  /\ {test_pages, selected_pages, plim.lower, plim.upper} \subseteq Int

TypeAt(m, x) == Max({0} \cup {m[k].type : k \in {j \in DOMAIN m : m[j].addr <= x /\ x < EndOf(m[j])}})

\* "The following replaces the original e820 map with a new one, removing
\* overlaps": the new map is in order, without overlaps, and gives every
\* address the greatest of the types the firmware gave it, as far as its
\* E820MAX entries reach.
SanitizeExact ==
  stage = "build" /\ Len(nm) > 0 =>
    /\ \A k \in 2 .. Len(nm) : EndOf(nm[k - 1]) <= nm[k].addr
    /\ \A x \in 0 .. ADDR_SPACE - 1 :
         Len(nm) < E820MAX \/ x < EndOf(nm[E820MAX]) => TypeAt(nm, x) = TypeAt(e820, x)

\* The hole itself is left out of the comparison: see HoleUnused.
HolePages == RES_START \div PAGE .. RES_END \div PAGE - 1
UsablePages ==
  UNION {IF Usable(nm[k]) THEN (nm[k].addr + PAGE - 1) \div PAGE .. EndOf(nm[k]) \div PAGE - 1
         ELSE {} : k \in DOMAIN nm}

\* Where no region is left without a whole page (then two segments may start
\* in one page, and sort_pmap loses one of them), the sorted segments list
\* exactly the pages that lie wholly in usable memory, in ascending order and
\* each one once.
PmapExact ==
  /\ stage = "limits" /\ Len(nm) > 0
  /\ \A k \in DOMAIN nm : Keeps(nm[k]) => PagesOf(Clip(nm[k])) # {}
  => /\ PmapPages \ HolePages = UsablePages \ HolePages
     /\ \A i \in Segs \ {0} : pmap[i - 1].end <= pmap[i].start

\* adj_mem counts the pages of the segments between the limits, whatever the
\* limits are.
AdjExact ==
  stage = "limits" /\ (\A i \in Segs : pmap[i].start <= pmap[i].end) =>
    \A lower, upper \in 0 .. ADDR_SPACE \div PAGE :
      lower <= upper =>
        \A i \in Segs : Selected(pmap[i], lower, upper)
                         = Cardinality(PagesOf(pmap[i]) \cap lower .. upper - 1)

\* "Adjust the map to not test the page at 939k, reserved for locks": the
\* page below the hole, where the barrier is, is not among those to test.
LockPage == RES_START \div PAGE - 1
LockPageUntested == stage = "done" => LockPage \notin PmapPages

\* "Don't ever use memory between 640 and 1024k".
HoleUnused == stage = "done" => PmapPages \cap HolePages = {}

\* From the firmware's map to the segments that are tested: each of the steps
\* of mem_size keeps exactly the memory it should.
MapExact == MemTypeOK /\ SanitizeExact /\ PmapExact /\ AdjExact

=============================================================================

----------------------------- MODULE MemPatterns -----------------------------
(***************************************************************************)
(* The test algorithms of memtest86 (test.c), as do_test of main.c calls   *)
(* them, over the windows of the memory that Memsize found, and the number *)
(* of ticks that find_ticks_for_test expects of them.                      *)
(*                                                                         *)
(* A test is a sequence of sweeps over the segments of a window; a sweep   *)
(* goes through a segment in sections of SPINSZ words, a call of do_tick   *)
(* before each.  One step of the model is one section.  Addresses are      *)
(* those of words.  One CPU tests at a time (CPM_RROBIN, the only mode     *)
(* set_defaults chooses), so a chunk is the whole segment.                 *)
(***************************************************************************)
EXTENDS Memsize

CONSTANTS
  TestedMaps,           \* the e820 maps to go on testing with
  tseq,                 \* the sequence of tests, by their pattern (tseq[].pat)
  Faults,               \* the words that may be stuck, each with its value
  WPP,                  \* words in a page (1024)
  SPINSZ,               \* words in a section
  WIN_SZ,               \* pages in a window
  Win0Start, Win1End,   \* win0_start, win1_end, in pages
  USB_WORD,             \* first word that is tested (0x500 bytes)
  BITS,                 \* bits in a word (32)
  BYTE,                 \* patterns of the walking-ones test (8)
  MOD_SZ,               \* distance of the words of the modulo test (20)
  BLOCK,                \* words in a block of the block move (16)
  ALIGN, BANK,          \* words between the addresses of the address test
  c_iter                \* iterations

ASSUME PatternsAssumption ==
  /\ TestedMaps \subseteq Maps
  /\ {WPP, SPINSZ, WIN_SZ, BITS, BYTE, MOD_SZ, BLOCK, ALIGN, BANK, c_iter} \subseteq Nat \ {0}
  /\ SPINSZ % WPP = 0 /\ WPP % BITS = 0 /\ USB_WORD % BITS = 0
  /\ WPP % BLOCK = 0 /\ USB_WORD % BLOCK = 0 /\ BLOCK % 4 = 0
  /\ 0 < USB_WORD /\ USB_WORD < WPP
  /\ \A f \in Faults : f.word \in Nat

VARIABLES
  phase,                \* "off", "run" or "over"
  test,                 \* place in tseq[]
  fault,                \* the stuck word, word -1 when there is none
  win,                  \* window, a place in Windows
  map,                  \* v->map: [start, end], in words, end included
  todo,                 \* the sweeps still to do in this window
  at,                   \* the loop: segment j, pointers p and pe, counter k,
                        \* pattern val, numbers n drawn from rand
  bitf_seq,             \* the step of the bit fade test
  mem,                  \* the words
  errs,                 \* the words reported to error()
  written,              \* the words written by the test (checking only)
  nticks                \* calls of do_tick in this test

testVars == <<phase, test, fault, win, map, todo, at, bitf_seq, mem, errs, written, nticks>>
vars == <<memVars, testVars>>

ALL == 2 ^ BITS - 1
Not(v) == ALL - v
Bit(i) == 2 ^ (i % BITS)
Words == 0 .. (ADDR_SPACE \div PAGE) * WPP - 1
Read(m, a) == IF a = fault.word THEN fault.value ELSE m[a]

-----------------------------------------------------------------------------
(***************************************************************************)
(* The sweeps of the tests.                                                *)
(***************************************************************************)
Sweep(kind, old, new, dir) ==
  [kind |-> kind, old |-> old, new |-> new, dir |-> dir, off |-> 0, sval |-> 0]

Repeat(s, times) == FlattenSeq([i \in 1 .. times |-> s])

\* movinv1: fill with p1, then up with p1 to p2 and down with p2 to p1.
Movinv1(iter, p1, p2) ==
  <<Sweep("fill", p1, p1, "up")>>
  \o Repeat(<<Sweep("invert", p1, p2, "up"), Sweep("invert", p2, p1, "down")>>, iter)

AddrTst1 == <<Sweep("walkAll", 0, ALL, "up"), Sweep("walkAll", ALL, 0, "up"),
              Sweep("walkBanks", 0, ALL, "up"), Sweep("walkBanks", ALL, 0, "up")>>

AddrTst2 == <<Sweep("ownFill", 0, 0, "up"), Sweep("ownCheck", 0, 0, "up")>>

Movinvr == <<Sweep("randFill", 0, 0, "up"), Sweep("randInvert", 0, 0, "up"),
             Sweep("randInvert", 1, 0, "up")>>

\* movinv32: p1 and off say where in the shifting pattern a segment starts.
Movinv32(iter, p1, off, sval) ==
  LET s(kind, dir) == [Sweep(kind, p1, p1, dir) EXCEPT !.off = off, !.sval = sval]
  IN <<s("shiftFill", "up")>>
     \o Repeat(<<s("shiftInvert", "up"), s("shiftRevert", "down")>>, iter)

Modtst(offset, iter, p1, p2) ==
  LET s(kind, v) == [Sweep(kind, v, v, "up") EXCEPT !.off = offset]
  IN <<s("modFill", p1)>> \o Repeat(<<s("modRest", p2)>>, iter) \o <<s("modCheck", p1)>>

BlockMove(iter) == <<Sweep("blockFill", 0, 0, "up"), Sweep("blockMove", iter, 0, "up"),
                     Sweep("blockCheck", 0, 0, "up")>>

Fade(seq) == CASE seq = 0 -> <<Sweep("fadeFill", 0, 0, "up")>>
               [] seq = 2 -> <<Sweep("fadeCheck", 0, 0, "up")>>
               [] seq = 3 -> <<Sweep("fadeFill", ALL, ALL, "up")>>
               [] seq = 5 -> <<Sweep("fadeCheck", ALL, ALL, "up")>>
               [] OTHER -> <<>>

\* do_test, by pattern, in a window with the segments m; a random number is some
\* number, its complement too.  In the random data test the second pattern is
\* the complement of p1, which holds the number of the window's last page.
LastPage(m) == m[Len(m)].end \div WPP

SweepsOf(pt, seq, m) ==
  CASE pt = 0 -> AddrTst1
    [] pt \in {1, 2} -> AddrTst2
    [] pt \in {3, 4} -> Movinv1(c_iter, 0, ALL) \o Movinv1(c_iter, ALL, 0)
    [] pt = 5 -> FlattenSeq([i \in 1 .. BYTE |->
                   Movinv1(c_iter, Bit(i), Not(Bit(i))) \o Movinv1(c_iter, Not(Bit(i)), Bit(i))])
    [] pt = 6 -> Repeat(Movinv1(2, 1, Not(LastPage(m) % (ALL + 1))), c_iter)
    [] pt = 7 -> BlockMove(c_iter)
    [] pt = 8 -> FlattenSeq([i \in 1 .. BITS |->
                   Movinv32(c_iter, 2 ^ (i - 1), i - 1, 0)
                   \o Movinv32(c_iter, Not(2 ^ (i - 1)), i - 1, 1)])
    [] pt = 9 -> Repeat(Movinvr, c_iter)
    [] pt = 10 -> Repeat(FlattenSeq([i \in 1 .. MOD_SZ |->
                   Modtst(i - 1, 2, 1, Not(1)) \o Modtst(i - 1, 2, Not(1), 1)]), c_iter)
    [] pt = 11 -> Fade(seq)

-----------------------------------------------------------------------------
(***************************************************************************)
(* What a section does to the words it visits.  x is the loop at a word:   *)
(* the counter k, the pattern val, the number n of random numbers drawn.   *)
(***************************************************************************)
Loop == [k |-> at.k, val |-> at.val, n |-> at.n]

\* The pattern of movinv32 moves a bit to the left, or back to the right.
ShiftUp(s, x) ==
  IF x.k + 1 = BITS THEN [x EXCEPT !.k = 0, !.val = IF s.sval = 0 THEN 1 ELSE Not(1)]
  ELSE [x EXCEPT !.k = @ + 1, !.val = ((2 * @) % (ALL + 1)) + s.sval]

ShiftDown(s, x) ==
  LET high == 2 ^ (BITS - 1)
  IN IF x.k - 1 <= 0 THEN [x EXCEPT !.k = BITS, !.val = IF s.sval = 0 THEN high ELSE Not(high)]
     ELSE [x EXCEPT !.k = @ - 1, !.val = (@ \div 2) + s.sval * high]

NextWord(s, x) ==
  CASE s.kind \in {"shiftFill", "shiftInvert"} -> ShiftUp(s, x)
    [] s.kind = "shiftRevert" -> ShiftDown(s, x)
    [] s.kind \in {"randFill", "randInvert"} -> [x EXCEPT !.n = @ + 1]
    [] s.kind = "modRest" -> [x EXCEPT !.k = IF @ + 1 > MOD_SZ - 1 THEN 0 ELSE @ + 1]
    [] OTHER -> x

Rand(x) == x.n % (ALL + 1)

\* What word a must hold, and what is stored there.
Expected(s, a, x) ==
  CASE s.kind = "ownCheck" -> a
    [] s.kind = "randInvert" -> IF s.old = 1 THEN Not(Rand(x)) ELSE Rand(x)
    [] s.kind = "shiftInvert" -> x.val
    [] s.kind = "shiftRevert" -> Not(x.val)
    [] OTHER -> s.old

Stored(s, a, x) ==
  CASE s.kind = "ownFill" -> a
    [] s.kind = "randFill" -> Rand(x)
    [] s.kind \in {"randInvert", "shiftInvert"} -> Not(Expected(s, a, x))
    [] s.kind \in {"shiftFill", "shiftRevert"} -> x.val
    [] OTHER -> s.new

\* Mutant of Checks: the modulo test does not compare.
ChecksNoMod(s) == s.kind \in {"invert", "ownCheck", "randInvert", "shiftInvert", "shiftRevert",
                              "fadeCheck"}
Checks(s) == s.kind \in {"invert", "ownCheck", "randInvert", "shiftInvert", "shiftRevert",
                         "modCheck", "fadeCheck"}

Stores(s, x) == s.kind \notin {"ownCheck", "modCheck", "fadeCheck"}
                /\ (s.kind = "modRest" => x.k # s.off)

\* What a section leaves: the words m, the errors bad, the words hit that were
\* written, the loop x.
Here == [m |-> mem, bad |-> errs, hit |-> written, x |-> Loop]

\* count words from the word at.p on, step by step.
Over(s, count, step) ==
  LET along[i \in 0 .. count] == IF i = 0 THEN Loop ELSE NextWord(s, along[i - 1])
      visited == {at.p + step * i : i \in 0 .. count - 1}
      x == [a \in visited |-> along[IF step < 0 THEN at.p - a ELSE (a - at.p) \div step]]
      hit == {a \in visited : Stores(s, x[a])}
  IN [m |-> [a \in Words |-> IF a \in hit THEN Stored(s, a, x[a]) ELSE mem[a]],
      bad |-> errs \cup {a \in visited : Checks(s) /\ Read(mem, a) # Expected(s, a, x[a])},
      hit |-> written \cup hit,
      x |-> along[count]]

\* The assembly loops test at their end: the first word is always visited.
UpTo(a, b) == MaxOf(b - a, 0) + 1
Spaced(a, b) == MaxOf((b - a + MOD_SZ - 1) \div MOD_SZ, 1)

\* block_move: the pattern of a block, pairs of equal words (here, two
\* halves); the rotation of a section by half a block; the comparison.
BlockWord(i) == LET v == Bit(i \div BLOCK) IN IF i % BLOCK < BLOCK \div 2 THEN v ELSE Not(v)
BlockLen(a, b) == IF b % BLOCK = 0 THEN b - a ELSE b + 1 - a

FillBlocks(a, len) ==
  LET words == a .. a + len - 1
  IN [Here EXCEPT !.m = [w \in Words |-> IF w \in words THEN BlockWord(w - a) ELSE mem[w]],
                  !.hit = @ \cup words]

Copy(m, to, from, len) ==
  [w \in Words |-> IF w \in to .. to + len - 1 THEN Read(m, w - to + from) ELSE m[w]]

MoveOnce(m, a, half) ==
  LET s == BLOCK \div 2
  IN Copy(Copy(Copy(m, a + half, a, half), a + s, a + half, half - s), a, a + 2 * half - s, s)

MoveBlocks(a, half, times) ==
  LET moved[i \in 0 .. times] == IF i = 0 THEN mem ELSE MoveOnce(moved[i - 1], a, half)
  IN [Here EXCEPT !.m = moved[times], !.hit = @ \cup a .. a + 2 * half - 1]

LastPair(a, b) == a + 2 * MaxOf((b - a + 1) \div 2, 0)
ComparePairs(a, b) ==
  [Here EXCEPT !.bad = @ \cup {w \in a .. LastPair(a, b) :
                                (w - a) % 2 = 0 /\ Read(mem, w) # Read(mem, w + 1)}]

-----------------------------------------------------------------------------
(***************************************************************************)
(* A window: which segments, and where a sweep begins in each of them.     *)
(***************************************************************************)
\* Mutant of Windows: the first one ends a page early.
WindowsGap == <<[start |-> 0, end |-> Win1End], [start |-> Win0Start, end |-> WIN_SZ - 1]>>
              \o [i \in 1 .. plim.upper \div WIN_SZ |->
                    [start |-> i * WIN_SZ, end |-> (i + 1) * WIN_SZ]]

Windows == <<[start |-> 0, end |-> Win1End], [start |-> Win0Start, end |-> WIN_SZ]>>
           \o [i \in 1 .. plim.upper \div WIN_SZ |->
                 [start |-> i * WIN_SZ, end |-> (i + 1) * WIN_SZ]]

\* mapping and emapping: the first and the last word; not below 0x500.
InWords(segs) ==
  [i \in DOMAIN segs |-> [start |-> MaxOf(segs[i].start * WPP, USB_WORD),
                          end |-> segs[i].end * WPP - 1]]

\* In window 0 the program is relocated, and do_test lets the first segment
\* begin at the lower limit.
MapOf(w) ==
  LET segs == InWords(ComputeSegments(Windows[w]))
  IN IF w = 1 /\ segs # <<>> THEN [segs EXCEPT ![1].start = MaxOf(plim.lower * WPP, USB_WORD)]
     ELSE segs

\* movinv32 goes down with the pattern and the counter that it came up with.
DownPhase(s, x) ==
  LET last == IF x.k - 1 < 0 THEN BITS - 1 ELSE x.k - 1
      pattern[i \in 0 .. last] ==
        IF i = 0 THEN (IF s.sval = 0 THEN 1 ELSE Not(1))
        ELSE ((2 * pattern[i - 1]) % (ALL + 1)) + s.sval
  IN [x EXCEPT !.k = last + 1, !.val = pattern[last]]

\* The loop at the beginning of segment i of m for sweep s.
Begin(s, m, i, x) ==
  LET edge == IF s.dir = "down" THEN m[i].end ELSE m[i].start
  IN [j |-> i, pe |-> edge, n |-> x.n,
      p |-> IF s.kind \in {"modFill", "modCheck"} THEN edge + s.off ELSE edge,
      k |-> CASE s.kind \in {"shiftFill", "shiftInvert"} -> s.off
              [] s.kind = "modRest" -> 0
              [] OTHER -> x.k,
      val |-> IF s.kind \in {"shiftFill", "shiftInvert"} THEN s.old ELSE x.val]

BeginSweep(s, m, x) ==
  Begin(s, m, IF s.dir = "down" THEN Len(m) ELSE 1,
        IF s.kind = "shiftRevert" THEN DownPhase(s, x) ELSE [x EXCEPT !.n = 0])

\* After a section that left c: the same segment, the next one, or the next
\* sweep.
Advance(x, done, p, pe) ==
  LET s == Head(todo)
      i == IF s.kind \in {"walkAll", "walkBanks"} THEN 0
           ELSE IF s.dir = "down" THEN at.j - 1 ELSE at.j + 1
  IN CASE ~done -> /\ at' = [j |-> at.j, p |-> p, pe |-> pe, k |-> x.k, val |-> x.val, n |-> x.n]
                   /\ UNCHANGED todo
       [] done /\ i \in DOMAIN map -> at' = Begin(s, map, i, x) /\ UNCHANGED todo
       [] done /\ i \notin DOMAIN map ->
            /\ todo' = Tail(todo)
            /\ at' = IF Len(todo) > 1 THEN BeginSweep(todo[2], map, x) ELSE at

Section(c, done, p, pe) ==
  /\ mem' = c.m /\ errs' = c.bad /\ written' = c.hit
  /\ Advance(c.x, done, p, pe)
  /\ UNCHANGED <<memVars, phase, test, fault, win, map, bitf_seq>>

-----------------------------------------------------------------------------
(***************************************************************************)
(* The sections.                                                           *)
(***************************************************************************)
Testing(kinds) == phase = "run" /\ todo # <<>> /\ Head(todo).kind \in kinds
Tick(times) == nticks' = nticks + times

\* Where the section that starts at at.pe ends, on the way up and down.
Raised(end) == IF at.pe # 0 THEN MinOf(at.pe + SPINSZ, end) ELSE end
Lowered(start) == IF at.pe >= SPINSZ THEN MaxOf(at.pe - SPINSZ, start) ELSE start

\* Nothing is left: the loops are left in the middle.
Break(pe) == at.p = pe /\ Section(Here, TRUE, at.p, pe)

\* Words from p to pe, both included; the next section starts behind pe.
SectionUp ==
  /\ Testing({"fill", "ownFill", "ownCheck", "randFill", "randInvert", "shiftFill",
              "shiftInvert", "modRest"}) \/ (Testing({"invert"}) /\ Head(todo).dir = "up")
  /\ LET pe == Raised(map[at.j].end)
     IN \/ Break(pe)
        \/ at.p # pe /\ Section(Over(Head(todo), UpTo(at.p, pe), 1), pe = map[at.j].end, pe + 1, pe)
  /\ Tick(1)

\* From p down to pe; below the first section boundary, down to start.
SectionDown ==
  /\ Testing({"shiftRevert"}) \/ (Testing({"invert"}) /\ Head(todo).dir = "down")
  /\ LET start == map[at.j].start
         pe == Lowered(start)
     IN \/ Break(pe)
        \/ at.p # pe /\ Section(Over(Head(todo), UpTo(pe, at.p), -1),
                               at.pe < start + SPINSZ, pe - 1, pe)
  /\ Tick(1)

\* Every MOD_SZth word, up to MOD_SZ words before the end; p goes on from
\* where the last section left it.
SectionMod ==
  /\ Testing({"modFill", "modCheck"})
  /\ LET end == map[at.j].end - MOD_SZ
         pe == Raised(end)
         count == Spaced(at.p, pe)
     IN \/ Break(pe)
        \/ at.p # pe /\ Section(Over(Head(todo), count, MOD_SZ), pe = end,
                               at.p + count * MOD_SZ, pe)
  /\ Tick(1)

\* The bit fade test leaves out the word at pe and still goes on behind it.
SectionFade ==
  /\ Testing({"fadeFill", "fadeCheck"})
  /\ LET pe == Raised(map[at.j].end)
     IN \/ Break(pe)
        \/ at.p # pe /\ Section(Over(Head(todo), pe - at.p, 1), pe = map[at.j].end, pe + 1, pe)
  /\ Tick(1)

FillSection ==
  /\ Testing({"blockFill"})
  /\ LET pe == Raised(map[at.j].end)
         len == (BlockLen(at.p, pe) \div BLOCK) * BLOCK
     IN \/ Break(pe)
        \/ at.p # pe /\ Section(FillBlocks(at.p, len), pe = map[at.j].end, at.p + len, pe)
  /\ Tick(1)

\* The ticks are inside the loop over the iterations.
MoveSection ==
  /\ Testing({"blockMove"})
  /\ LET pe == Raised(map[at.j].end)
     IN \/ Break(pe) /\ Tick(0)
        \/ /\ at.p # pe
           /\ Section(MoveBlocks(at.p, BlockLen(at.p, pe) \div 2, Head(todo).old),
                      pe = map[at.j].end, pe, pe)
           /\ Tick(Head(todo).old)

\* pe is moved back to the last pair, and the next section starts from there.
CheckSection ==
  /\ Testing({"blockCheck"})
  /\ LET end == map[at.j].end
         pe == Raised(end)
         last == IF pe % BLOCK = 0 THEN pe - 1 ELSE pe - 2
     IN \/ Break(pe)
        \/ at.p # pe /\ Section(ComparePairs(at.p, last), pe = end, LastPair(at.p, last), last)
  /\ Tick(1)

AlignUp(a, unit) == ((a + unit - 1) \div unit) * unit

\* addr_tst1: the words whose address differs from that of a in one bit that a
\* lacks, up to end, get the complement of what a gets.
WalkFrom(c, a, s, end) ==
  LET others == {a + b : b \in {x \in {2 ^ i : i \in 0 .. 10} : (a \div x) % 2 = 0 /\ a + x < end}}
      m == [w \in DOMAIN c.m |-> IF w = a THEN s.old ELSE IF w \in others THEN s.new ELSE c.m[w]]
  IN [c EXCEPT !.m = m, !.hit = @ \cup others \cup {a},
               !.bad = IF others # {} /\ Read(m, a) # s.old THEN @ \cup {a} ELSE @]

WalkAll ==
  /\ Testing({"walkAll"})
  /\ LET a == AlignUp(map[1].start, ALIGN)
     IN Section(WalkFrom(Here, a, Head(todo), map[Len(map)].end), TRUE, at.p, at.pe)
  /\ Tick(1)

\* In every segment, from each bank that begins behind its first word; p + bank
\* counts words, bank bytes.
Banks(m) ==
  LET first == AlignUp(m.start, BANK)
  IN {a \in first .. m.end - 1 : first > m.start /\ (a - first) % (4 * BANK) = 0}

WalkBanks ==
  /\ Testing({"walkBanks"})
  /\ LET inSegment(c, i) ==
           FoldLeft(LAMBDA d, a : WalkFrom(d, a, Head(todo), map[i].end), c,
                    SetToSortSeq(Banks(map[i]), <))
     IN Section(FoldLeft(inSegment, Here, [i \in DOMAIN map |-> i]), TRUE, at.p, at.pe)
  /\ Tick(1)

-----------------------------------------------------------------------------
(***************************************************************************)
(* From window to window and from test to test.  The bit fade test goes    *)
(* through all windows once for each of its steps, and not through window  *)
(* 0; its sleep touches no memory, and its last step does nothing.         *)
(***************************************************************************)
Pat(t) == tseq[t]
FirstWindow(t) == IF Pat(t) = 11 THEN 2 ELSE 1

\* The window's segments, and the sweeps of test t over them; a window
\* without memory is skipped.
Enter(w, t, seq) ==
  LET m == MapOf(w)
      sweeps == IF m = <<>> THEN <<>> ELSE SweepsOf(Pat(t), seq, m)
  IN /\ win' = w /\ map' = m
     /\ todo' = sweeps
     /\ at' = IF sweeps = <<>> THEN at
              ELSE BeginSweep(sweeps[1], m, [k |-> 0, val |-> 0, n |-> 0])

PatInit ==
  /\ phase = "off" /\ test = 1 /\ fault = [word |-> -1, value |-> 0]
  /\ win = 1 /\ map = <<>> /\ todo = <<>> /\ bitf_seq = 0
  /\ at = [j |-> 0, p |-> 0, pe |-> 0, k |-> 0, val |-> 0, n |-> 0]
  /\ mem = [a \in Words |-> 0] /\ errs = {} /\ written = {} /\ nticks = 0

StartTests ==
  /\ phase = "off" /\ stage = "done" /\ e820 \in TestedMaps
  /\ phase' = "run"
  /\ fault' \in Faults \cup {[word |-> -1, value |-> 0]}
  /\ Enter(FirstWindow(1), 1, 0)
  /\ UNCHANGED <<memVars, test, bitf_seq, mem, errs, written, nticks>>

NextWindow ==
  /\ phase = "run" /\ todo = <<>> /\ win < Len(Windows)
  /\ Enter(win + 1, test, bitf_seq)
  /\ UNCHANGED <<memVars, phase, test, fault, bitf_seq, mem, errs, written, nticks>>

NextFadeStep ==
  /\ phase = "run" /\ todo = <<>> /\ win = Len(Windows)
  /\ Pat(test) = 11 /\ bitf_seq < 6
  /\ bitf_seq' = bitf_seq + 1
  /\ Enter(FirstWindow(test), test, bitf_seq')
  /\ nticks' = nticks + (IF bitf_seq' \in {1, 4} THEN c_iter ELSE 0)
  /\ UNCHANGED <<memVars, phase, test, fault, mem, errs, written>>

TestEnded == phase = "run" /\ todo = <<>> /\ win = Len(Windows)
             /\ (Pat(test) # 11 \/ bitf_seq = 6)

\* test_setup of the next test; after the last one the pass is over and the
\* machine stops.
NextTest ==
  /\ TestEnded /\ test < Len(tseq)
  /\ test' = test + 1 /\ bitf_seq' = 0
  /\ errs' = {} /\ written' = {} /\ nticks' = 0
  /\ Enter(FirstWindow(test'), test', 0)
  /\ UNCHANGED <<memVars, phase, fault, mem>>

PassOver ==
  /\ TestEnded /\ test = Len(tseq)
  /\ phase' = "over"
  /\ UNCHANGED <<memVars, test, fault, win, map, todo, at, bitf_seq, mem, errs, written, nticks>>

PatNext ==
  \/ StartTests \/ NextWindow \/ NextFadeStep \/ NextTest \/ PassOver
  \/ SectionUp \/ SectionDown \/ SectionMod \/ SectionFade
  \/ FillSection \/ MoveSection \/ CheckSection \/ WalkAll \/ WalkBanks

Init == MemInit /\ PatInit
Next == (MemNext /\ UNCHANGED testVars) \/ PatNext
Spec == Init /\ [][Next]_vars

-----------------------------------------------------------------------------
(***************************************************************************)
(* find_chunks and find_ticks_for_test, with one CPU.                      *)
(***************************************************************************)
\* Mutant of Chunks: the last, shorter section of a segment is not counted.
ChunksDown ==
  LET ofWindow(w) == LET m == InWords(ComputeSegments(Windows[w]))
                     IN Total([i \in DOMAIN m |-> (m[i].end - m[i].start) \div SPINSZ])
  IN Total([w \in DOMAIN Windows |-> ofWindow(w)])

Chunks ==
  LET ofWindow(w) == LET m == InWords(ComputeSegments(Windows[w]))
                     IN Total([i \in DOMAIN m |-> (m[i].end - m[i].start + SPINSZ - 1) \div SPINSZ])
  IN Total([w \in DOMAIN Windows |-> ofWindow(w)])

TicksOf(pt) ==
  LET c == c_iter
      each == CASE pt \in {1, 2} -> 2
                [] pt \in {3, 4} -> 2 + 4 * c
                [] pt = 5 -> 2 * BYTE + 4 * BYTE * c
                [] pt = 6 -> c + 4 * c
                [] pt = 8 -> (1 + 2 * c) * 2 * BITS
                [] pt = 9 -> 3 * c
                [] pt = 10 -> 4 * 2 * MOD_SZ * c
                [] OTHER -> 0
  IN CASE pt = 0 -> 4
       [] pt = 7 -> Chunks + Chunks + c * Chunks
       [] pt = 11 -> 2 * c + 4 * Chunks
       [] OTHER -> each * Chunks

-----------------------------------------------------------------------------
(***************************************************************************)
(* Properties.                                                             *)
(***************************************************************************)
PatTypeOK ==
  /\ phase \in {"off", "run", "over"}
  /\ test \in DOMAIN tseq /\ bitf_seq \in 0 .. 6
  /\ todo # <<>> => at.j \in DOMAIN map
  /\ mem \in [Words -> Int] /\ errs \subseteq Words /\ written \subseteq Words

\* The state of both parts has its types.
TypeOK == MemTypeOK /\ PatTypeOK

\* Memory without a fault passes every test: each check expects what the
\* sweep before it wrote, across sections, segments and windows.
NoFalseError == fault.word = -1 => errs = {}

WordsOf(m) == UNION {m[i].start .. m[i].end : i \in DOMAIN m}
PmapWords == {a \in Words : a >= USB_WORD /\ a \div WPP \in PmapPages}

\* What a test leaves unchecked: the modulo test, which stops short of
\* end - MOD_SZ, the last MOD_SZ + 1 words of a segment; the bit fade test the
\* last word of every section.
Unchecked ==
  CASE Pat(test) = 10 -> UNION {map[i].end - MOD_SZ .. map[i].end : i \in DOMAIN map}
    [] Pat(test) = 11 -> {a \in WordsOf(map) : \E i \in DOMAIN map :
                            a = map[i].end \/ (a > map[i].start /\ (a - map[i].start) % SPINSZ = 0)}
    [] OTHER -> {}

\* A word that is stuck is reported by the time its window has been gone
\* through, as long as the test checks data (the addresses that a test stores
\* may be what the word is stuck at).
Detects ==
  /\ phase = "run" /\ todo = <<>> /\ Pat(test) \notin {0, 1, 2}
  /\ Pat(test) = 11 => bitf_seq >= 5
  /\ fault.word \in WordsOf(map) \ Unchecked
  => {fault.word, fault.word - 1} \cap errs # {}

\* A test over all the windows writes every word of the memory, and no other
\* (where there is memory in page 0: do_test takes that for granted).
CoversMemory ==
  TestEnded /\ Pat(test) \in 1 .. 9 /\ 0 \in PmapPages => written = PmapWords

\* find_ticks_for_test foresees the number of calls of do_tick, and a test
\* never makes more of them on its way (so its loops end).
TicksForeseen ==
  phase = "run" /\ Pat(test) \notin {0, 7, 11} /\ 0 \in PmapPages =>
    /\ nticks <= TicksOf(Pat(test))
    /\ TestEnded => nticks = TicksOf(Pat(test))

\* The tests say of a word what it is: no word of sound memory is reported,
\* and a stuck bit in a tested word is.
VerdictExact == NoFalseError /\ Detects

\* The position of the test program is one test_start can be in, and the
\* progress display counts up to exactly what was foreseen.
ProgressExact == PatTypeOK /\ TicksForeseen

=============================================================================

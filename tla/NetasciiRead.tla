---------------------------- MODULE NetasciiRead ----------------------------
(***************************************************************************)
(* The netascii half of atftpd's file reader: rfileRead of                 *)
(* atftp/tftp_rfile.c with convert set.  A line feed becomes <CR, LF>, a   *)
(* carriage return <CR, NUL>.  The position in the file and the character  *)
(* in mid-conversion carry over from block to block, so a block can only be*)
(* read after the one before it, or again.                                 *)
(***************************************************************************)
EXTENDS Integers, Sequences, SequencesExt

CONSTANTS
  MaxLength,            \* bound: length of the file
  Size,                 \* data_buffer_size
  MaxAgain              \* bound: how often a block is read again

ASSUME ReadAssumption ==
  MaxLength \in Nat /\ Size \in Nat \ {0} /\ MaxAgain \in Nat

VARIABLES
  file,
  head,                 \* fp->_head, from 0
  newline, prevchar,    \* the two halves of *temp
  prev_block_number, prev_file_pos,
  blocks                \* history: each call's block, *temp before, and data

readerVars == <<file, head, newline, prevchar, prev_block_number, prev_file_pos, blocks>>

(***************************************************************************)
(* What the conversion should give.                                        *)
(***************************************************************************)
Converted(c) == CASE c = "LF" -> <<"CR", "LF">>
                  [] c = "CR" -> <<"CR", "NUL">>
                  [] OTHER    -> <<c>>

Netascii == FlattenSeq([i \in DOMAIN file |-> Converted(file[i])])

BlockOf(text, n) ==
  LET last == IF (n + 1) * Size > Len(text) THEN Len(text) ELSE (n + 1) * Size
  IN  SubSeq(text, n * Size + 1, last)

-----------------------------------------------------------------------------
(***************************************************************************)
(* The conversion loop, one character of the buffer a step.                *)
(***************************************************************************)
EOF(s) == s.head = Len(file)

Second(s) == [s EXCEPT !.newline = FALSE,
                       !.data = Append(@, IF s.prevchar = "LF" THEN "LF" ELSE "NUL")]

First(s) ==
  LET c == file[s.head + 1]
  IN  IF c \in {"LF", "CR"}
      THEN [s EXCEPT !.head = @ + 1, !.newline = TRUE, !.prevchar = c,
                     !.data = Append(@, "CR")]
      ELSE [s EXCEPT !.head = @ + 1, !.data = Append(@, c)]

\* The reader after a block from the given position.
Fill(position) ==
  LET reader[i \in 0 .. Size] ==
        IF i = 0
        THEN [head |-> position, newline |-> newline, prevchar |-> prevchar,
              data |-> <<>>]
        ELSE LET s == reader[i - 1]
             IN  IF s.newline THEN Second(s) ELSE IF EOF(s) THEN s ELSE First(s)
  IN  reader[Size]

ReaderInit ==
  /\ file \in UNION {[1 .. n -> {"LF", "CR", "x"}] : n \in 0 .. MaxLength}
  /\ head = 0 /\ newline = FALSE /\ prevchar = "NUL"
  /\ prev_block_number = 0 /\ prev_file_pos = 0
  /\ blocks = <<>>

Temp == IF newline THEN prevchar ELSE "none"

\* Mutant: the character in mid-conversion does not carry over.
DropState(n, position) ==
  LET s == Fill(position)
  IN  /\ head' = s.head /\ newline' = FALSE /\ prevchar' = s.prevchar
      /\ prev_block_number' = n /\ prev_file_pos' = position
      /\ blocks' = Append(blocks, [number |-> n, temp |-> Temp, data |-> s.data])
      /\ UNCHANGED file

Convert(n, position) ==
  LET s == Fill(position)
  IN  /\ head' = s.head /\ newline' = s.newline /\ prevchar' = s.prevchar
      /\ prev_block_number' = n /\ prev_file_pos' = position
      /\ blocks' = Append(blocks, [number |-> n, temp |-> Temp, data |-> s.data])
      /\ UNCHANGED file

(***************************************************************************)
(* tftpd_send_file asks for block 0 first, then for the block after the one*)
(* that was acknowledged or, if its data was lost, for the same again; it  *)
(* asks for none beyond the one with which rfileFeof holds.  Any other     *)
(* block (an old ACK) is refused, which changes nothing.                   *)
(***************************************************************************)
ReadFirst ==
  /\ blocks = <<>>
  /\ Convert(0, prev_file_pos)

ReadNext ==
  /\ blocks # <<>> /\ head # Len(file)
  /\ Convert(prev_block_number + 1, head)

ReadAgain ==
  /\ blocks # <<>> /\ Len(blocks) - prev_block_number <= MaxAgain
  /\ Convert(prev_block_number, prev_file_pos)

ReaderOver == blocks # <<>> /\ head = Len(file) /\ UNCHANGED readerVars

ReaderNext == ReadFirst \/ ReadNext \/ ReadAgain \/ ReaderOver

ReaderSpec == ReaderInit /\ [][ReaderNext]_readerVars

-----------------------------------------------------------------------------
\* Every block has the text that its number stands for, however the file's
\* line ends fall on the block boundaries and however often blocks are read
\* again - as long as no block was read again with another character in
\* mid-conversion than the first time.
Exact ==
  \A i \in DOMAIN blocks :
    (\A j, k \in 1 .. i :
       blocks[j].number = blocks[k].number => blocks[j].temp = blocks[k].temp)
    => blocks[i].data = BlockOf(Netascii, blocks[i].number)

\* tftp_rfile.c:186, "If the client request many time the same block, the
\* netascii conversion is done each time": the block that is sent again is the
\* block that was lost.
SameAgain ==
  \A i, j \in DOMAIN blocks :
    blocks[i].number = blocks[j].number => blocks[i].data = blocks[j].data

\* tftpd_file.c:401, "record the last block number", when rfileFeof holds: the
\* text is then complete.
CompleteAtFeof ==
  blocks # <<>> /\ head = Len(file)
    => (Last(blocks).number + 1) * Size >= Len(Netascii)

=============================================================================

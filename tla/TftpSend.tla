------------------------------- MODULE TftpSend -------------------------------
(***************************************************************************)
(* atftpd's transfer of one file to one client: tftpd_send_file of         *)
(* atftp/tftpd_file.c, in unicast and without netascii conversion.  The    *)
(* state machine of the thread is private; what it shares with the world   *)
(* is tftpd_cancel, set by the main thread's signal handler, and packets.  *)
(*                                                                         *)
(* The client is not part of the repository.  It is an RFC 1350 client: it *)
(* acknowledges what it gets, takes the blocks in order, answers a repeated*)
(* block with a repeated ACK or not at all, and repeats its last ACK when  *)
(* it has waited long enough.  Packets may be lost; unless inOrder they may*)
(* also overtake each other and be duplicated.  The thread's socket is     *)
(* connected: nobody else's packets reach it.                              *)
(***************************************************************************)
EXTENDS Integers, Sequences, SequencesExt

CONSTANTS
  FullBlocks,           \* full blocks of the file
  Partial,              \* the file goes on after them: it does not fill blocks
  Wrap,                 \* block numbers on the wire are modulo 2^16
  NB_OF_RETRY,
  Requests,             \* the requests a client may make: "unknown" file,
                        \* "invalid" options, "options", "plain" (none)
  Reordered,            \* those it may make over a network that reorders
  WrapAllowed,          \* --allow-wraparound
  Signals,              \* the threads SIGTERM may reach: "main", "worker"
  Capacity,             \* bound: packets under way in one direction
  MaxTries              \* bound: repeated ACKs before the client gives up

ASSUME SendAssumption ==
  /\ FullBlocks \in Nat /\ Partial \in BOOLEAN /\ Wrap \in Nat /\ Wrap > 1
  /\ NB_OF_RETRY \in Nat /\ WrapAllowed \in BOOLEAN
  /\ Requests \cup Reordered \subseteq {"unknown", "invalid", "options", "plain"}
  /\ Signals \subseteq {"main", "worker"}
  /\ Capacity \in Nat \ {0} /\ MaxTries \in Nat

VARIABLES
  request,              \* what the client asked for
  inOrder,              \* the network keeps the order and duplicates nothing
  state, timeout_state,
  block_number, wraparound_offset, last_block, number_of_timeout,
  result,               \* what tftpd_send_file returned
  tftpd_cancel,
  forwarded,            \* the handler has passed the signal on to main
  toClient, toServer,   \* packets under way
  got,                  \* the client: bodies of the blocks it has taken
  heard,                \* the client: the server has answered
  client,               \* the client: "waiting", "done" or "failed"
  tries,                \* the client: repeated ACKs since the last new packet
  told                  \* history: an ERROR packet was sent

sendVars   == <<state, timeout_state, block_number, wraparound_offset,
                last_block, number_of_timeout>>
signalVars == <<tftpd_cancel, forwarded>>
netVars    == <<toClient, toServer>>
session    == <<request, inOrder>>
clientVars == <<got, heard, client, tries>>
vars == <<session, sendVars, result, signalVars, netVars, clientVars, told>>

(***************************************************************************)
(* The file and the packets.  A body stands for the bytes of one block.    *)
(***************************************************************************)
NoBody == -1

\* rfileRead: seek, clamped to the end of the file, and read.
Body(block) ==
  IF block < FullBlocks \/ (block = FullBlocks /\ Partial) THEN block ELSE NoBody

\* rfileFeof, after the read: no byte is left.
Eof(block) == block >= FullBlocks \/ (block = FullBlocks - 1 /\ ~Partial)

\* A block shorter than the block size ends the transfer for the client.
Short(block) == block >= FullBlocks

\* Mutant: the block after the one the header announces.
DataAhead(block) == [op |-> "DATA", block |-> (block + 1) % Wrap,
                     body |-> Body(block + 1), short |-> Short(block + 1)]

Data(block) == [op |-> "DATA", block |-> (block + 1) % Wrap,
                body |-> Body(block), short |-> Short(block)]
Ack(n) == [op |-> "ACK", block |-> n % Wrap]
Oack   == [op |-> "OACK"]
Error  == [op |-> "ERROR"]

FromServer == {Oack, Error} \cup {Data(block) : block \in 0 .. FullBlocks}
FromClient == {Error} \cup {Ack(n) : n \in 0 .. FullBlocks + 1}

\* sendto: a packet for which there is no room is lost.
Send(channel, packet) ==
  IF Len(channel) < Capacity THEN Append(channel, packet) ELSE channel

\* The packets that may arrive next, and what is under way after one has.
Arriving(channel) == {i \in DOMAIN channel : inOrder => i = 1}

Rest(channel, i) ==
  {RemoveAt(channel, i)} \cup (IF inOrder THEN {} ELSE {channel})

-----------------------------------------------------------------------------
Init ==
  /\ inOrder \in BOOLEAN
  /\ request \in IF inOrder THEN Requests ELSE Reordered
  /\ state = "check" /\ timeout_state = "S_BEGIN"
  /\ block_number = 0 /\ wraparound_offset = 0 /\ last_block = -1
  /\ number_of_timeout = 0
  /\ result = "none"
  /\ tftpd_cancel = FALSE /\ forwarded = FALSE
  /\ toClient = <<>> /\ toServer = <<>>
  /\ got = <<>> /\ heard = FALSE /\ client = "waiting" /\ tries = 0
  /\ told = FALSE

(***************************************************************************)
(* Before the state machine: the file must be known, the options in range. *)
(***************************************************************************)
Return(value) == result = "none" /\ result' = value

TellError ==
  /\ toClient' = Send(toClient, Error)
  /\ told' = TRUE
  /\ UNCHANGED toServer

Refuse ==
  /\ state = "check"
  /\ request \in {"unknown", "invalid"}
  /\ Return("ERR")
  /\ TellError
  /\ UNCHANGED <<session, sendVars, signalVars, clientVars>>

\* The size test reads file_stat, which nothing has set: without wraparound
\* any file may fail it.
TooBig ==
  /\ state = "check" /\ request \in {"options", "plain"}
  /\ ~WrapAllowed
  /\ Return("ERR")
  /\ state' = "tooBig"
  /\ TellError
  /\ UNCHANGED <<session, timeout_state, block_number, wraparound_offset,
                 last_block, number_of_timeout, signalVars, clientVars>>

Accept ==
  /\ state = "check" /\ request \in {"options", "plain"}
  /\ result = "none"
  /\ state' = "S_BEGIN"
  /\ UNCHANGED <<session, timeout_state, block_number, wraparound_offset,
                 last_block, number_of_timeout, result, signalVars, netVars,
                 clientVars, told>>

(***************************************************************************)
(* One turn of the loop in each of its states.                             *)
(***************************************************************************)
Turn(s) == result = "none" /\ ~tftpd_cancel /\ state = s

\* A packet of the given kind arrives at the server.
Receive(op, i) ==
  /\ toServer[i].op = op
  /\ toServer' \in Rest(toServer, i)
  /\ UNCHANGED toClient

(***************************************************************************)
(* Mutants: the bugs this code could plausibly have, for the runs to catch.*)
(* The specification uses none of them.                                    *)
(***************************************************************************)

\* A cancelled thread just aborts.
AbortSilently ==
  /\ result = "none" /\ tftpd_cancel
  /\ state # "check"
  /\ state' = "S_ABORT"
  /\ result' = "ERR"
  /\ UNCHANGED <<session, timeout_state, block_number, wraparound_offset,
                 last_block, number_of_timeout, signalVars, netVars, clientVars,
                 told>>

\* The retries are not counted.
NotCounted ==
  /\ Turn("S_WAIT_PACKET")
  /\ state' = timeout_state
  /\ UNCHANGED <<session, timeout_state, block_number, wraparound_offset,
                 last_block, number_of_timeout, result, signalVars, netVars,
                 clientVars, told>>

\* The ACK of the block before the last ends the transfer.
EndEarly ==
  /\ Turn("S_WAIT_PACKET")
  /\ \E i \in Arriving(toServer) :
       /\ Receive("ACK", i)
       /\ number_of_timeout' = 0
       /\ block_number' = toServer[i].block
  /\ state' = IF last_block # -1 /\ block_number' >= last_block
              THEN "S_END" ELSE "S_SEND_DATA"
  /\ UNCHANGED <<session, timeout_state, wraparound_offset, last_block, result,
                 signalVars, clientVars, told>>

(***************************************************************************)
(* The turns.                                                              *)
(***************************************************************************)

\* The cancel test at the top of the loop: tell the client, and abort.
Cancelled ==
  /\ result = "none" /\ tftpd_cancel
  /\ state # "check"
  /\ state' = "S_ABORT"
  /\ result' = "ERR"
  /\ TellError
  /\ UNCHANGED <<session, timeout_state, block_number, wraparound_offset,
                 last_block, number_of_timeout, signalVars, clientVars>>

Begin ==
  /\ Turn("S_BEGIN")
  /\ state' = IF request = "options" THEN "S_SEND_OACK" ELSE "S_SEND_DATA"
  /\ UNCHANGED <<session, timeout_state, block_number, wraparound_offset,
                 last_block, number_of_timeout, result, signalVars, netVars,
                 clientVars, told>>

SendOack ==
  /\ Turn("S_SEND_OACK")
  /\ timeout_state' = state
  /\ toClient' = Send(toClient, Oack)
  /\ state' = "S_WAIT_PACKET"
  /\ UNCHANGED <<session, block_number, wraparound_offset, last_block,
                 number_of_timeout, result, signalVars, toServer, clientVars,
                 told>>

SendData ==
  /\ Turn("S_SEND_DATA")
  /\ timeout_state' = state
  /\ last_block' = IF Eof(block_number) THEN block_number ELSE last_block
  /\ toClient' = Send(toClient, Data(block_number))
  /\ state' = "S_WAIT_PACKET"
  /\ UNCHANGED <<session, block_number, wraparound_offset, number_of_timeout,
                 result, signalVars, toServer, clientVars, told>>

GetTimeout ==
  /\ Turn("S_WAIT_PACKET")
  /\ number_of_timeout' = number_of_timeout + 1
  /\ state' = IF number_of_timeout' > NB_OF_RETRY THEN "S_END" ELSE timeout_state
  /\ UNCHANGED <<session, timeout_state, block_number, wraparound_offset,
                 last_block, result, signalVars, netVars, clientVars, told>>

\* Every ACK counts, whatever block it is for; 0 means one more wrap-around,
\* unless nothing has been acknowledged yet.
GetAck ==
  /\ Turn("S_WAIT_PACKET")
  /\ \E i \in Arriving(toServer) :
       /\ Receive("ACK", i)
       /\ number_of_timeout' = 0
       /\ LET recv_number == toServer[i].block
          IN  /\ wraparound_offset' =
                   IF recv_number = 0 /\ block_number # 0
                   THEN wraparound_offset + Wrap ELSE wraparound_offset
              /\ block_number' = wraparound_offset' + recv_number
  /\ state' = IF last_block # -1 /\ block_number' > last_block
              THEN "S_END" ELSE "S_SEND_DATA"
  /\ UNCHANGED <<session, timeout_state, last_block, result, signalVars,
                 clientVars, told>>

GetError ==
  /\ Turn("S_WAIT_PACKET")
  /\ \E i \in Arriving(toServer) : Receive("ERROR", i)
  /\ state' = "S_ABORT"
  /\ UNCHANGED <<session, timeout_state, block_number, wraparound_offset,
                 last_block, number_of_timeout, result, signalVars, clientVars,
                 told>>

\* SIGTERM reaches this thread: its handler forwards the signal to the main
\* thread, and select returns an error here.
Interrupted ==
  /\ Turn("S_WAIT_PACKET")
  /\ "worker" \in Signals /\ ~forwarded
  /\ forwarded' = TRUE
  /\ state' = "S_ABORT"
  /\ UNCHANGED <<session, timeout_state, block_number, wraparound_offset,
                 last_block, number_of_timeout, result, tftpd_cancel, netVars,
                 clientVars, told>>

End ==
  /\ Turn("S_END")
  /\ result' = "OK"
  /\ UNCHANGED <<session, sendVars, signalVars, netVars, clientVars, told>>

Abort ==
  /\ Turn("S_ABORT")
  /\ result' = "ERR"
  /\ UNCHANGED <<session, sendVars, signalVars, netVars, clientVars, told>>

\* The main thread's handler.
MainCancel ==
  /\ ~tftpd_cancel
  /\ forwarded \/ "main" \in Signals
  /\ tftpd_cancel' = TRUE
  /\ UNCHANGED <<session, sendVars, result, forwarded, netVars, clientVars, told>>

(***************************************************************************)
(* The network and the client (external).                                  *)
(***************************************************************************)
Lose ==
  /\ \/ /\ \E i \in Arriving(toClient) : toClient' = RemoveAt(toClient, i)
        /\ UNCHANGED toServer
     \/ /\ \E i \in Arriving(toServer) : toServer' = RemoveAt(toServer, i)
        /\ UNCHANGED toClient
  /\ UNCHANGED <<session, sendVars, result, signalVars, clientVars, told>>

Reply(packets) == \E p \in packets : toServer' = Send(toServer, p)

\* The OACK counts as block 0.
ClientGetsOack(i) ==
  /\ toClient[i].op = "OACK"
  /\ got = <<>> /\ client = "waiting"
  /\ heard' = TRUE
  /\ Reply({Ack(0)})
  /\ UNCHANGED <<got, client, tries>>

ClientGetsBlock(i) ==
  /\ toClient[i].op = "DATA"
  /\ client = "waiting"
  /\ toClient[i].block = (Len(got) + 1) % Wrap
  /\ got' = Append(got, toClient[i].body)
  /\ client' = IF toClient[i].short THEN "done" ELSE "waiting"
  /\ heard' = TRUE /\ tries' = 0
  /\ Reply({Ack(Len(got) + 1)})

\* A repetition of the last block is acknowledged again ...
ClientGetsOldBlock(i) ==
  /\ toClient[i].op = "DATA"
  /\ client # "failed"
  /\ got # <<>> /\ toClient[i].block = Len(got) % Wrap
  /\ Reply({Ack(Len(got))})
  /\ UNCHANGED clientVars

ClientGetsError(i) ==
  /\ toClient[i].op = "ERROR"
  /\ client' = IF client = "waiting" THEN "failed" ELSE client
  /\ UNCHANGED <<got, heard, tries, toServer>>

\* ... or, like any other packet, ignored (see Lose).
ClientReceives ==
  /\ \E i \in Arriving(toClient) :
       /\ toClient' \in Rest(toClient, i)
       /\ \/ ClientGetsOack(i) \/ ClientGetsBlock(i)
          \/ ClientGetsOldBlock(i) \/ ClientGetsError(i)
  /\ UNCHANGED <<session, sendVars, result, signalVars, told>>

ClientTimeout ==
  /\ client = "waiting" /\ heard
  /\ tries < MaxTries
  /\ tries' = tries + 1
  /\ Reply({Ack(Len(got))})
  /\ UNCHANGED <<session, sendVars, result, signalVars, toClient, got, heard,
                 client, told>>

\* The client gives up, silently or with an ERROR packet.
ClientGivesUp ==
  /\ client = "waiting"
  /\ client' = "failed"
  /\ Reply({Error}) \/ UNCHANGED toServer
  /\ UNCHANGED <<session, sendVars, result, signalVars, toClient, got, heard,
                 tries, told>>

\* tftpd_send_file has returned; the client goes on by itself.
Over == result # "none" /\ UNCHANGED vars

-----------------------------------------------------------------------------
ServerStep ==
  \/ Refuse \/ TooBig \/ Accept \/ Cancelled
  \/ Begin \/ SendOack \/ SendData \/ GetTimeout \/ GetAck \/ GetError
  \/ Interrupted \/ End \/ Abort

ClientStep == ClientReceives \/ ClientTimeout \/ ClientGivesUp

Next == ServerStep \/ MainCancel \/ ClientStep \/ Lose \/ Over

Spec == Init /\ [][Next]_vars

\* The thread runs, and select returns after the timeout at the latest.
FairSpec == Spec /\ WF_vars(ServerStep)

-----------------------------------------------------------------------------
(***************************************************************************)
(* Properties                                                              *)
(***************************************************************************)

\* The thread's counters stay in their ranges: at most NB_OF_RETRY + 1
\* timeouts in a row, no block beyond the one after the last.
TypeOK ==
  /\ request \in Requests \cup Reordered /\ inOrder \in BOOLEAN
  /\ state \in {"check", "tooBig", "S_BEGIN", "S_SEND_OACK", "S_SEND_DATA",
                "S_WAIT_PACKET", "S_END", "S_ABORT"}
  /\ timeout_state \in {"S_BEGIN", "S_SEND_OACK", "S_SEND_DATA"}
  /\ block_number \in 0 .. FullBlocks + 1
  /\ last_block \in -1 .. FullBlocks
  /\ number_of_timeout \in 0 .. NB_OF_RETRY + 1
  /\ result \in {"none", "OK", "ERR"}
  /\ tftpd_cancel \in BOOLEAN /\ forwarded \in BOOLEAN /\ told \in BOOLEAN
  /\ toClient \in Seq(FromServer) /\ Len(toClient) <= Capacity
  /\ toServer \in Seq(FromClient) /\ Len(toServer) <= Capacity
  /\ got \in Seq(-1 .. FullBlocks) /\ Len(got) <= FullBlocks + 1
  /\ heard \in BOOLEAN
  /\ client \in {"waiting", "done", "failed"}

\* What the client has taken is the beginning of the file: no block missing,
\* twice or in another's place, whatever was lost, repeated or late.
Integrity == \A i \in DOMAIN got : got[i] = Body(i - 1)

\* An ACK makes the thread end the transfer only when the client has the
\* whole file.
EndComplete ==
  state = "S_END" /\ number_of_timeout = 0 => client = "done"

\* tftpd.c:832, "sending an ERROR packet to all clients to terminate the
\* connection": no transfer is given up without a word to a client that is
\* still waiting, unless the signal reached the transfer's own thread.
Told == result = "ERR" => told \/ client # "waiting" \/ forwarded

\* The same without the exception.
ToldAlways == result = "ERR" => told \/ client # "waiting"

\* Every transfer comes to an end, however many packets are lost, unless the
\* network repeats the same ACK for ever.
Terminates == inOrder => <>(result # "none")

\* tftp_def.c:43, "Allow block id wraparound in send (default: no)": without
\* the option no ACK is taken for one of a block beyond 2^16.
NoWrapUnlessAllowed == ~WrapAllowed => wraparound_offset = 0

\* tftpd_file.c:228, "Verify that the file can be sent in 2^16 block": a file
\* is refused as too big only if it is.
RefusesOnlyTooBig == state = "tooBig" => FullBlocks >= Wrap

(***************************************************************************)
(* What is true of every state, and kept by every step, of a transfer whose*)
(* block numbers do not wrap: the parts of SendInv.                        *)
(***************************************************************************)
Under(channel) == {channel[i] : i \in DOMAIN channel}

\* Nobody is ahead of the client: no block is sent before the one before it
\* was taken, no block is acknowledged that was not taken.
Window ==
  /\ block_number <= Len(got) /\ wraparound_offset = 0
  /\ \A p \in Under(toClient) : p.op = "DATA" => p.block <= Len(got) + 1
  /\ \A p \in Under(toServer) : p.op = "ACK" => p.block <= Len(got)

\* A network that keeps the order never brings an ACK of an earlier block.
AckOrder ==
  inOrder =>
    \A i \in DOMAIN toServer :
      toServer[i].op = "ACK" =>
        /\ block_number <= toServer[i].block
        /\ \A j \in DOMAIN toServer :
             i < j /\ toServer[j].op = "ACK" => toServer[i].block <= toServer[j].block

\* Block 0 is acknowledged only as the answer to an OACK.
OackAnswer ==
  request # "options" =>
    /\ "S_SEND_OACK" \notin {state, timeout_state}
    /\ Oack \notin Under(toClient) /\ Ack(0) \notin Under(toServer)
    /\ heard => got # <<>>

\* The client is done when, and only when, it has the short block, and then
\* the server knows that this block was the last one.
LastKnown ==
  /\ client = "done" <=> Len(got) = FullBlocks + 1
  /\ Data(FullBlocks) \in Under(toClient) \/ client = "done" => last_block # -1
  /\ last_block # -1 => last_block >= IF Partial THEN FullBlocks ELSE FullBlocks - 1

\* The loop goes on only with a block of the file and retries to spare; ended
\* by an ACK, it has one for a block after the last.
LoopInv ==
  /\ state \notin {"S_END", "S_ABORT"} =>
       block_number <= FullBlocks /\ number_of_timeout <= NB_OF_RETRY
  /\ state = "S_END" /\ number_of_timeout = 0 =>
       last_block # -1 /\ block_number > last_block

\* An ERROR packet on its way, or a transfer given up, has its reason.
ErrorReason ==
  /\ Error \in Under(toServer) => client # "waiting"
  /\ state = "S_ABORT" => told \/ client # "waiting" \/ forwarded

\* The counters stay in their ranges, nobody is ahead of the client, and
\* whoever is dropped before the end of the file is told so.
SendInv ==
  /\ TypeOK /\ Integrity /\ Told
  /\ Window /\ AckOrder /\ OackAnswer /\ LastKnown /\ LoopInv /\ ErrorReason

=============================================================================

---------------------------- MODULE TftpMulticast ----------------------------
(***************************************************************************)
(* atftpd's multicast transfer: one server thread that sends a file to a   *)
(* group of clients (tftpd_send_file of atftp/tftpd_file.c) while the      *)
(* threads of later requests for the same file add their clients to its    *)
(* list (tftpd_list_find_multicast_server_and_add of atftp/tftpd_list.c).  *)
(*                                                                         *)
(* The functions of tftpd_list.c run under client_mutex: each is one       *)
(* action, and between two of them the other threads run.                  *)
(*                                                                         *)
(* tftp_get_packet is given the address of the current client's entry and  *)
(* stores the sender's address there with every packet (tftp_io.c:336 takes*)
(* the port of &sa, a pointer, for that of sa; no pointer looks like an    *)
(* address, so it is 0).  The comparison of that entry with the sender that*)
(* follows never fails: the branches for packets from other clients        *)
(* (tftpd_file.c:490 and :564) are never taken, and are not modelled.      *)
(*                                                                         *)
(* The clients are not part of the repository: RFC 2090 clients, of which  *)
(* the master acknowledges the last block up to which it has all, and the  *)
(* others only the last one.  A packet to the clients arrives at once or   *)
(* never; an ACK may arrive late or never.  They send nothing that         *)
(* tftp_get_packet calls GET_DISCARD, which the loop ignores.              *)
(***************************************************************************)
EXTENDS Integers, Sequences, FiniteSets

CONSTANTS
  Clients,              \* client addresses
  First,                \* the one whose request made the server thread
  Threads,              \* the threads of later requests
  Blocks,               \* blocks of the file; the client numbers them from 1
  Wrap,                 \* 2^16
  NB_OF_RETRY,
  MayCancel,            \* the main thread may set tftpd_cancel
  MaxAcks               \* bound: packets a client sends to the server

ASSUME MulticastAssumption ==
  /\ IsFiniteSet(Clients) /\ First \in Clients /\ IsFiniteSet(Threads)
  /\ Blocks \in Nat \ {0} /\ Wrap \in Nat /\ Wrap > Blocks + 1
  /\ NB_OF_RETRY \in Nat /\ MayCancel \in BOOLEAN
  /\ MaxAcks \in Nat

VARIABLES
  state, timeout_state,
  block_number, wraparound_offset, last_block, number_of_timeout,
  client_info,          \* index in list, 0 = NULL; sa is its client
  result,               \* what tftpd_send_file returned
  list,                 \* data->client_info: addresses and done flags
  unspec,               \* the first entry's address family is AF_UNSPEC
  client_ready,
  freed,                \* the server thread's data has been freed
  tftpd_cancel,
  mcast_switch,         \* the option mcast_switch_client
  pc,                   \* pc[t]: where the thread of a later request is
  asker,                \* asker[t]: the client that made the request
  has,                  \* has[c]: blocks client c has received
  role,                 \* role[c]: "none", "slave" or "master", as last told
  failed,               \* clients that have given up
  sent,                 \* sent[c]: packets client c has sent to the server
  toServer,             \* packets under way
  chosen,               \* history: to whom the last OACK with mc = 1 went
  added,                \* history: clients added to the list
  answered,             \* history: clients offered the file, or sent an ERROR
  touched               \* history: a freed thread was used

sendVars   == <<state, timeout_state, block_number, wraparound_offset,
                last_block, number_of_timeout, client_info, result>>
listVars   == <<list, unspec, client_ready>>
threadVars == <<pc, asker, freed>>
mainVars   == <<tftpd_cancel, mcast_switch>>
clientVars == <<has, role, failed, sent, toServer>>
history    == <<chosen, added, answered, touched>>
vars == <<sendVars, listVars, threadVars, mainVars, clientVars, history>>

\* The last block up to which a client has all.
Prefix(blocks) ==
  CHOOSE n \in 0 .. Blocks : 1 .. n \subseteq blocks /\ n + 1 \notin blocks

Complete(c) == has[c] = 1 .. Blocks

\* A packet from the server changes the role of client c, or is lost.
Told(c, r) ==
  \/ c \notin failed /\ role' = [role EXCEPT ![c] = r]
  \/ UNCHANGED role

-----------------------------------------------------------------------------
\* The socket is multicast and the thread ready to receive new clients.
Init ==
  /\ state = "S_BEGIN" /\ timeout_state = "S_BEGIN"
  /\ block_number = 0 /\ wraparound_offset = 0 /\ last_block = -1
  /\ number_of_timeout = 0
  /\ client_info = 1 /\ result = "none"
  /\ list = <<[client |-> First, done |-> FALSE]>>
  /\ unspec = TRUE /\ client_ready = TRUE
  /\ freed = FALSE /\ tftpd_cancel = FALSE /\ mcast_switch \in BOOLEAN
  /\ pc = [t \in Threads |-> "request"] /\ asker = [t \in Threads |-> First]
  /\ has = [c \in Clients |-> {}] /\ role = [c \in Clients |-> "none"]
  /\ failed = {} /\ sent = [c \in Clients |-> 0] /\ toServer = {}
  /\ chosen = First /\ added = {First} /\ answered = {} /\ touched = FALSE

(***************************************************************************)
(* tftpd_list.c                                                            *)
(***************************************************************************)

\* tftpd_clientlist_done.
MarkDone == list' = [list EXCEPT ![client_info].done = TRUE]

\* Mutant: the search does not start again at the beginning.
LaterClient ==
  LET others == {i \in DOMAIN list : i > client_info /\ ~list[i].done}
  IN  IF others = {} THEN 0 ELSE CHOOSE i \in others : \A j \in others : i <= j

\* tftpd_clientlist_next: the next client, round the list, that is not done;
\* client_info itself only if it is alone; 0 = there is none.
NextClient ==
  LET distance(i) == (i - client_info - 1) % Len(list)
      others == {i \in DOMAIN list : i # client_info /\ ~list[i].done}
  IN  IF others # {}
      THEN CHOOSE i \in others : \A j \in others : distance(i) <= distance(j)
      ELSE IF Len(list) = 1 /\ ~list[1].done THEN 1 ELSE 0

\* Its effect on the thread.
TakeNext ==
  /\ client_info' = NextClient
  /\ client_ready' = (client_ready /\ NextClient # 0)

\* tftpd_list_find_multicast_server_and_add, with the list of threads and the
\* server's client list locked: c is in the list, is added, or gets a server
\* of its own.
Listed(c) ==
  \E i \in DOMAIN list :
    list[i].client = c /\ ~list[i].done /\ (i = 1 => ~unspec)

FindAndAdd(t) ==
  /\ pc[t] = "request"
  /\ \E c \in Clients \ failed :
       /\ role[c] = "none"
       /\ asker' = [asker EXCEPT ![t] = c]
       /\ \/ /\ client_ready /\ ~freed /\ Listed(c)
             /\ pc' = [pc EXCEPT ![t] = "found"]
             /\ UNCHANGED <<list, added>>
          \/ /\ client_ready /\ ~freed /\ ~Listed(c)
             /\ pc' = [pc EXCEPT ![t] = "found"]
             /\ list' = Append(list, [client |-> c, done |-> FALSE])
             /\ added' = added \cup {c}
          \/ /\ ~client_ready \/ freed
             /\ pc' = [pc EXCEPT ![t] = "own"]
             /\ UNCHANGED <<list, added>>
  /\ UNCHANGED <<sendVars, unspec, client_ready, freed, mainVars,
                 clientVars, chosen, answered, touched>>

\* The thread then reads the server thread's address, port and socket, and
\* sends its client an OACK with mc = 0.
UseThread(t) ==
  /\ pc[t] = "found"
  /\ pc' = [pc EXCEPT ![t] = "over"]
  /\ touched' = (touched \/ freed)
  /\ Told(asker[t], "slave")
  /\ UNCHANGED <<sendVars, listVars, asker, freed, mainVars, has, failed,
                 sent, toServer, chosen, added, answered>>

(***************************************************************************)
(* One turn of the server thread's loop in each of its states.             *)
(***************************************************************************)
Turn(s) == result = "none" /\ ~tftpd_cancel /\ state = s

Begin ==
  /\ Turn("S_BEGIN")
  /\ state' = "S_SEND_OACK"
  /\ UNCHANGED <<timeout_state, block_number, wraparound_offset, last_block,
                 number_of_timeout, client_info, result, listVars, threadVars,
                 mainVars, clientVars, history>>

\* The OACK makes the current client the master.
SendOack ==
  /\ Turn("S_SEND_OACK")
  /\ timeout_state' = state
  /\ LET c == list[client_info].client
     IN  /\ Told(c, "master")
         /\ chosen' = c
         /\ answered' = answered \cup {c}
  /\ state' = "S_WAIT_PACKET"
  /\ UNCHANGED <<block_number, wraparound_offset, last_block,
                 number_of_timeout, client_info, result, listVars, threadVars,
                 mainVars, has, failed, sent, toServer, added, touched>>

\* The block goes to the group: any of the clients that know of it may miss it.
\* A block past the end of the file is empty and gives nobody anything.
SendData ==
  /\ Turn("S_SEND_DATA")
  /\ timeout_state' = state
  /\ last_block' = IF block_number >= Blocks - 1 THEN block_number ELSE last_block
  /\ \E receivers \in SUBSET {c \in Clients \ failed : role[c] # "none"} :
       has' = [c \in Clients |->
                 IF c \in receivers /\ block_number < Blocks
                 THEN has[c] \cup {block_number + 1} ELSE has[c]]
  /\ state' = "S_WAIT_PACKET"
  /\ UNCHANGED <<block_number, wraparound_offset, number_of_timeout,
                 client_info, result, listVars, threadVars, mainVars, role,
                 failed, sent, toServer, history>>

\* sockaddr_print_addr of a client's entry: an address without a family fails
\* its assertion.
PrintAddr(i) == result' = IF i = 1 /\ unspec THEN "assert" ELSE result

\* The client has not answered for too long.
GiveUp ==
  /\ Turn("S_WAIT_PACKET")
  /\ number_of_timeout' = number_of_timeout + 1
  /\ number_of_timeout' > NB_OF_RETRY
  /\ PrintAddr(client_info)
  /\ state' = "S_END"
  /\ UNCHANGED <<timeout_state, block_number, wraparound_offset, last_block,
                 client_info, listVars, threadVars, mainVars, clientVars,
                 history>>

Retry ==
  /\ Turn("S_WAIT_PACKET")
  /\ ~mcast_switch \/ NextClient = client_info
  /\ number_of_timeout' = number_of_timeout + 1
  /\ number_of_timeout' <= NB_OF_RETRY
  /\ state' = timeout_state
  /\ UNCHANGED <<timeout_state, block_number, wraparound_offset, last_block,
                 client_info, result, listVars, threadVars, mainVars,
                 clientVars, history>>

\* Mutant: the next client has all its retries before it.
SwitchAndReset ==
  /\ Turn("S_WAIT_PACKET")
  /\ mcast_switch /\ NextClient \notin {client_info, 0}
  /\ number_of_timeout' = 0
  /\ number_of_timeout < NB_OF_RETRY
  /\ TakeNext
  /\ PrintAddr(NextClient)
  /\ Told(list[client_info].client, "slave")
  /\ state' = "S_SEND_OACK"
  /\ UNCHANGED <<timeout_state, block_number, wraparound_offset, last_block,
                 list, unspec, threadVars, mainVars, has, failed,
                 sent, toServer, history>>

\* With mcast_switch the next client becomes the master at the first timeout.
Switch ==
  /\ Turn("S_WAIT_PACKET")
  /\ mcast_switch /\ NextClient \notin {client_info, 0}
  /\ number_of_timeout' = number_of_timeout + 1
  /\ number_of_timeout' <= NB_OF_RETRY
  /\ TakeNext
  /\ PrintAddr(NextClient)
  /\ Told(list[client_info].client, "slave")
  /\ state' = "S_SEND_OACK"
  /\ UNCHANGED <<timeout_state, block_number, wraparound_offset, last_block,
                 list, unspec, threadVars, mainVars, has, failed,
                 sent, toServer, history>>

\* "abnormal condition"
Abnormal ==
  /\ Turn("S_WAIT_PACKET")
  /\ mcast_switch /\ NextClient = 0
  /\ number_of_timeout' = number_of_timeout + 1
  /\ number_of_timeout' <= NB_OF_RETRY
  /\ TakeNext
  /\ state' = "S_ABORT"
  /\ UNCHANGED <<timeout_state, block_number, wraparound_offset, last_block,
                 result, list, unspec, threadVars, mainVars, clientVars,
                 history>>

\* tftp_get_packet: the sender's address goes to the current client's entry.
Receive(p) ==
  /\ toServer' = toServer \ {p}
  /\ list' = [list EXCEPT ![client_info].client = p.from]
  /\ unspec' = (unspec /\ client_info # 1)

GetAck ==
  /\ Turn("S_WAIT_PACKET")
  /\ \E p \in toServer :
       /\ p.op = "ACK"
       /\ Receive(p)
       /\ wraparound_offset' = IF p.block = 0 /\ block_number # 0
                               THEN wraparound_offset + Wrap
                               ELSE wraparound_offset
       /\ block_number' = wraparound_offset' + p.block
  /\ number_of_timeout' = 0
  /\ state' = IF last_block # -1 /\ block_number' > last_block
              THEN "S_END" ELSE "S_SEND_DATA"
  /\ UNCHANGED <<timeout_state, last_block, client_info, result, client_ready,
                 threadVars, mainVars, has, role, failed, sent, history>>

GetError ==
  /\ Turn("S_WAIT_PACKET")
  /\ \E p \in toServer : p.op = "ERROR" /\ Receive(p)
  /\ state' = "S_END"
  /\ UNCHANGED <<timeout_state, block_number, wraparound_offset, last_block,
                 number_of_timeout, client_info, result, client_ready,
                 threadVars, mainVars, has, role, failed, sent, history>>

\* The select is interrupted or the receive fails (case ERR): the thread gives
\* up with the current client at hand and the list as it is.
ReceiveFails ==
  /\ Turn("S_WAIT_PACKET")
  /\ state' = "S_ABORT"
  /\ UNCHANGED <<timeout_state, block_number, wraparound_offset, last_block,
                 number_of_timeout, client_info, result, listVars, threadVars,
                 mainVars, clientVars, history>>

EndDone ==
  /\ Turn("S_END")
  /\ MarkDone
  /\ state' = "S_END_NEXT"
  /\ UNCHANGED <<timeout_state, block_number, wraparound_offset, last_block,
                 number_of_timeout, client_info, result, unspec, client_ready,
                 threadVars, mainVars, clientVars, history>>

\* The next client starts with an OACK; the counters stay as they are.
EndNext ==
  /\ result = "none" /\ state = "S_END_NEXT"
  /\ TakeNext
  /\ state'  = IF NextClient # 0 THEN "S_SEND_OACK" ELSE state
  /\ IF NextClient # 0 THEN PrintAddr(NextClient) ELSE result' = "OK"
  /\ UNCHANGED <<timeout_state, block_number, wraparound_offset, last_block,
                 number_of_timeout, list, unspec, threadVars, mainVars,
                 clientVars, history>>

Abort ==
  /\ Turn("S_ABORT")
  /\ result' = "ERR"
  /\ UNCHANGED <<state, timeout_state, block_number, wraparound_offset,
                 last_block, number_of_timeout, client_info, listVars,
                 threadVars, mainVars, clientVars, history>>

\* The cancel test at the top of the loop: an ERROR packet to each client in
\* turn.  Without a current client the process crashes.
AtTop == result = "none" /\ state \notin {"S_END_NEXT", "CANCEL_NEXT"}

CancelDone ==
  /\ tftpd_cancel /\ AtTop /\ client_info # 0
  /\ MarkDone
  /\ answered' = answered \cup {list[client_info].client}
  /\ state' = "CANCEL_NEXT"
  /\ UNCHANGED <<timeout_state, block_number, wraparound_offset, last_block,
                 number_of_timeout, client_info, result, unspec, client_ready,
                 threadVars, mainVars, clientVars, chosen, added, touched>>

CancelNext ==
  /\ result = "none" /\ state = "CANCEL_NEXT"
  /\ TakeNext
  /\ state'  = IF NextClient # 0 THEN "CANCEL" ELSE "S_ABORT"
  /\ result' = IF NextClient # 0 THEN result ELSE "ERR"
  /\ UNCHANGED <<timeout_state, block_number, wraparound_offset, last_block,
                 number_of_timeout, list, unspec, threadVars, mainVars,
                 clientVars, history>>

CancelCrash ==
  /\ tftpd_cancel /\ AtTop /\ client_info = 0
  /\ result' = "crash"
  /\ UNCHANGED <<state, timeout_state, block_number, wraparound_offset,
                 last_block, number_of_timeout, client_info, listVars,
                 threadVars, mainVars, clientVars, history>>

\* tftpd_receive_request: the thread leaves the list of threads and frees its
\* data, its clients' included.
Free ==
  /\ result \in {"OK", "ERR"} /\ ~freed
  /\ freed' = TRUE
  /\ UNCHANGED <<sendVars, listVars, pc, asker, mainVars, clientVars, history>>

\* The main thread's signal handler.
MainCancel ==
  /\ MayCancel /\ ~tftpd_cancel
  /\ tftpd_cancel' = TRUE
  /\ UNCHANGED <<mcast_switch, sendVars, listVars, threadVars, clientVars, history>>

(***************************************************************************)
(* The clients (external).                                                 *)
(***************************************************************************)
ClientSends(c, p) ==
  /\ c \notin failed /\ role[c] # "none" /\ sent[c] < MaxAcks
  /\ sent' = [sent EXCEPT ![c] = @ + 1]
  /\ toServer' = toServer \cup {p}
  /\ UNCHANGED <<sendVars, listVars, threadVars, mainVars, has, role, history>>

ClientAcks(c) ==
  /\ role[c] = "master" \/ Complete(c)
  /\ ClientSends(c, [from |-> c, op |-> "ACK", block |-> Prefix(has[c])])
  /\ UNCHANGED failed

ClientGivesUp(c) ==
  /\ ~Complete(c)
  /\ ClientSends(c, [from |-> c, op |-> "ERROR", block |-> 0])
  /\ failed' = failed \cup {c}

Over == result # "none" /\ UNCHANGED vars

-----------------------------------------------------------------------------
ServerStep ==
  \/ Begin \/ SendOack \/ SendData \/ GiveUp \/ Retry \/ Switch \/ Abnormal
  \/ GetAck \/ GetError \/ ReceiveFails \/ EndDone \/ EndNext \/ Abort
  \/ CancelDone \/ CancelNext \/ CancelCrash \/ Free

Next ==
  \/ ServerStep
  \/ \E t \in Threads : FindAndAdd(t) \/ UseThread(t)
  \/ MainCancel
  \/ \E c \in Clients : ClientAcks(c) \/ ClientGivesUp(c)
  \/ Over

Spec == Init /\ [][Next]_vars

\* The thread runs, and select returns after the timeout at the latest.
FairSpec == Spec /\ WF_vars(ServerStep)

-----------------------------------------------------------------------------
(***************************************************************************)
(* Properties                                                              *)
(***************************************************************************)

States  == {"S_BEGIN", "S_SEND_OACK", "S_SEND_DATA", "S_WAIT_PACKET", "S_END",
            "S_END_NEXT", "S_ABORT", "CANCEL", "CANCEL_NEXT"}
Packets == [from : Clients, op : {"ACK", "ERROR"}, block : 0 .. Blocks]

\* The counters stay in their ranges and client_info points into the list
\* while the thread sends.
TypeOK ==
  /\ list \in Seq([client : Clients, done : BOOLEAN]) /\ client_info \in 0 .. Len(list)
  /\ number_of_timeout \in 0 .. NB_OF_RETRY + Len(list)
  /\ block_number \in Nat /\ last_block \in -1 .. block_number + Blocks
  /\ state \in States /\ timeout_state \in {"S_BEGIN", "S_SEND_OACK", "S_SEND_DATA"}
  /\ result \in {"none", "OK", "ERR", "assert", "crash"}
  /\ unspec \in BOOLEAN /\ client_ready \in BOOLEAN
  /\ role \in [Clients -> {"none", "slave", "master"}]
  /\ has \in [Clients -> SUBSET (1 .. Blocks)] /\ toServer \subseteq Packets

\* The thread gives up after ReceiveFails, unless tftpd_cancel is set first.
Dropped == state = "S_ABORT" /\ client_info # 0

\* A client that was added to the list, by whatever thread at whatever moment,
\* has been offered the file or told of the end when the server thread
\* returns, and nobody can be added after that, unless a receive failed; after
\* a normal end all are done.
NobodyForgotten ==
  /\ result \in {"OK", "ERR"} /\ ~Dropped => added \subseteq answered /\ ~client_ready
  /\ result = "OK" => ~Dropped /\ \A i \in DOMAIN list : list[i].done

\* The offset of the block numbers: a block is numbered at most Blocks.
Numbered ==
  /\ wraparound_offset \in Nat
  /\ block_number \in wraparound_offset .. wraparound_offset + Blocks
  /\ last_block \in -1 .. wraparound_offset + Blocks

\* The current client is not done, or the turn is just over, or there is none.
Current ==
  result = "none" =>
    /\ state # "S_ABORT" => client_info # 0
    /\ client_info # 0 =>
         (list[client_info].done <=> state \in {"S_END_NEXT", "CANCEL_NEXT"})

\* The timeouts beyond NB_OF_RETRY: one for each client that is done, and one
\* for the client that is being given up.
Finished == {i \in DOMAIN list : list[i].done}

Patience ==
  \/ number_of_timeout <= NB_OF_RETRY + Cardinality(Finished)
  \/ /\ number_of_timeout <= NB_OF_RETRY + Cardinality(Finished) + 1
     /\ state = "S_END" /\ client_info # 0 /\ ~list[client_info].done

\* A client that has been added but not answered, or dropped, has an entry that
\* is not done.  The current client's entry is not it once the OACK has been sent:
\* tftp_get_packet may overwrite its address.
Pending(c) ==
  \E i \in DOMAIN list :
    /\ list[i].client = c /\ ~list[i].done
    /\ state \in {"S_WAIT_PACKET", "S_SEND_DATA", "S_END"} => i # client_info

Unanswered ==
  /\ added \subseteq answered \cup {c \in Clients : Pending(c)}
  /\ state = "S_ABORT" /\ ~Dropped => added \subseteq answered /\ ~client_ready

\* The transfer ends, however many clients join and fall silent.
Terminates == <>(result # "none")

\* tftpd_file.c:492, "We got an ACK from a client that is not the master
\* client": only packets from the client made master move the transfer.
OnlyMasterMoves ==
  [][\A p \in toServer \ toServer' :
       p.from # chosen => UNCHANGED <<block_number, state>>]_vars

\* tftp_def.c:201, assert(!"sockaddr_print: unsupported address family"):
\* every address that the server thread prints has a family.
FamilyKnown == result # "assert"

\* tftpd.h:53, "Other thread can read it only when client_ready is set": no
\* thread uses the server thread's data after it has been freed.
UsesLiveThread == ~touched

\* tftpd_list.c:286, "If the new client is the same, -1 is returned": a client
\* that is not done is never told to be none, the "abnormal condition".
SameIsNext ==
  state = "S_ABORT" /\ ~Dropped /\ ~tftpd_cancel => \A i \in DOMAIN list : list[i].done

\* tftpd_file.c:637, "to make sure no other thread try to add clients in our
\* back": whoever was added has been answered when the server thread returns,
\* also when its socket has failed, and nobody is added any more.
NobodyDropped ==
  result \in {"OK", "ERR"} => added \subseteq answered /\ ~client_ready

\* tftpd.h:73, done: "that client as receive it's file": an ACK ends the turn
\* of a client only if it has.
DoneMeansReceived ==
  (state = "S_END" /\ number_of_timeout = 0
     /\ list[client_info].client \notin failed)
    => Complete(list[client_info].client)

\* The transfer's counters stay within their bounds, and every client that
\* was added to the group is served or given up before the group ends, unless
\* a receive fails: those not answered are then still in the list.
GroupInv ==
  TypeOK /\ Numbered /\ Current /\ Patience /\ Unanswered /\ NobodyForgotten

=============================================================================

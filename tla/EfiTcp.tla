------------------------------- MODULE EfiTcp -------------------------------
(***************************************************************************)
(* efi/tcp.c of syslinux: a connection of the firmware's TCP4 protocol.    *)
(* Every function hands the firmware a completion token and polls the      *)
(* global cb_status until the token's callback has set it; there is one    *)
(* thread, so that at most one token is outstanding.                       *)
(*                                                                         *)
(* Lengths are counted in units: DATABUF is sizeof databuf.  The firmware  *)
(* and the server are the environment.  MAXFAULTS bounds how often the     *)
(* firmware refuses a call or fails a token; trouble remembers which kinds *)
(* of trouble there were.                                                  *)
(***************************************************************************)
EXTENDS Integers, FiniteSets

CONSTANTS DATABUF, NOMAP_PRINT_DELAY, NOMAP_PRINT_COUNT, MAXFAULTS

ASSUME TcpAssumption ==
  /\ DATABUF \in Nat \ {0} /\ MAXFAULTS \in Nat
  /\ NOMAP_PRINT_DELAY \in Nat \ {0, 1} /\ NOMAP_PRINT_COUNT \in Nat

VARIABLES
  cb_status,  \* the global: -1, or what the callback has set
  token,      \* what the firmware holds a token for, and FragmentLength
  tcp,        \* where efi/tcp.c is, and what it returned last
  sock,       \* the inode's struct pxe_pvt_inode, and its size
  bindings,   \* bindings created and not yet destroyed
  peer,       \* what the server still sends, then FIN
  faults,     \* faults left
  trouble

tcpVars == <<cb_status, token, tcp, sock, bindings, peer, faults, trouble>>

\* size = -1: not known.  stale: what is in databuf did not come from the server.
NoSock == [binding |-> FALSE, goteof |-> FALSE, filepos |-> 0, bytesleft |-> 0,
           stale |-> FALSE, size |-> 0]
NoToken == [for |-> "none", len |-> 0]
Returned(rv) == tcp' = [at |-> "out", rv |-> rv, last |-> 0, cur |-> 0]

TcpInit ==
  /\ cb_status = -1 /\ token = NoToken
  /\ tcp = [at |-> "out", rv |-> 0, last |-> 0, cur |-> 0]
  /\ sock = NoSock /\ bindings = 0 /\ peer = 0
  /\ faults = MAXFAULTS /\ trouble = {}

\* The firmware refuses a call.
Refused(what) ==
  /\ faults > 0 /\ faults' = faults - 1
  /\ trouble' = trouble \cup {what}
Granted == UNCHANGED <<faults, trouble>>

\* A function of efi/tcp.c dereferences socket->net.efi.binding.
Use == sock.binding
NullBinding == tcp' = [tcp EXCEPT !.at = "null"]

-----------------------------------------------------------------------------
\* core_tcp_open: the binding is created, or it is not and -1 returned.
TcpOpen ==
  \/ /\ sock' = [sock EXCEPT !.binding = TRUE]
     /\ bindings' = bindings + 1
     /\ Returned(0) /\ Granted
     /\ UNCHANGED <<cb_status, token, peer>>
  \/ /\ Refused("refused") /\ Returned(-1)
     /\ UNCHANGED <<cb_status, token, sock, bindings, peer>>

\* core_tcp_connect: jiffies are taken before Configure.
TcpConnect ==
  /\ tcp' = [at |-> "configure", rv |-> -1, last |-> 0, cur |-> 0]
  /\ UNCHANGED <<cb_status, token, sock, bindings, peer, faults, trouble>>

Issue(what) ==
  /\ token' = [for |-> what, len |-> DATABUF]
  /\ tcp' = [tcp EXCEPT !.at = what]

\* One turn of the loop around Configure, while there is no mapping of an
\* address yet: it ends NOMAP_PRINT_DELAY * NOMAP_PRINT_COUNT later, unless
\* that moment is also one to print the message.
NoMapping ==
  /\ tcp.at = "configure"
  /\ LET prints == tcp.cur - tcp.last >= NOMAP_PRINT_DELAY
         aborts == tcp.cur > NOMAP_PRINT_DELAY * NOMAP_PRINT_COUNT
     IN IF ~prints /\ aborts
        THEN Returned(-1) /\ trouble' = trouble \cup {"refused"}
        ELSE /\ tcp' = [tcp EXCEPT !.cur = @ + 1, !.last = IF prints THEN tcp.cur ELSE @]
             /\ UNCHANGED trouble
  /\ UNCHANGED <<cb_status, token, sock, bindings, peer, faults>>

\* Configure succeeds, and Connect gets its token; or one of them, or
\* efi_setup_event, fails.
Configured ==
  /\ tcp.at = "configure"
  /\ \/ Issue("connect") /\ Granted
     \/ Refused("refused") /\ Returned(-1) /\ UNCHANGED token
  /\ UNCHANGED <<cb_status, sock, bindings, peer>>

\* core_tcp_write up to its polling loop.
TcpWrite ==
  /\ IF Use
     THEN \/ Issue("transmit") /\ Granted
          \/ Refused("refused") /\ Returned(-1) /\ UNCHANGED token
     ELSE NullBinding /\ Granted /\ UNCHANGED token
  /\ UNCHANGED <<cb_status, sock, bindings, peer>>

\* The firmware is done with the token and calls tcp_cb; for a receive it has
\* stored some of what the server sent, and its length.
TokenDone ==
  /\ token.for # "none"
  /\ UNCHANGED <<tcp, bindings>>
  /\ \/ /\ token.for # "receive"
        /\ cb_status' = 0 /\ token' = [token EXCEPT !.for = "none"]
        /\ UNCHANGED <<sock, peer, faults, trouble>>
     \/ /\ token.for = "receive"
        /\ \E n \in {k \in 1 .. DATABUF : k <= peer} :
             peer' = peer - n /\ token' = [for |-> "none", len |-> n]
        /\ cb_status' = 0 /\ sock' = [sock EXCEPT !.stale = FALSE]
        /\ UNCHANGED <<faults, trouble>>
     \/ /\ Refused("failed")
        /\ cb_status' = 1 /\ token' = [token EXCEPT !.for = "none"]
        /\ sock' = [sock EXCEPT !.stale = (token.for = "receive")]
        /\ UNCHANGED peer

\* The end of core_tcp_connect and core_tcp_write.
Polled ==
  /\ tcp.at \in {"connect", "transmit"} /\ cb_status # -1
  /\ Returned(IF cb_status = 0 THEN 0 ELSE -1)
  /\ cb_status' = -1
  /\ token' = NoToken
  /\ UNCHANGED <<sock, bindings, peer, faults, trouble>>

\* efi_destroy_binding and the assignment of NULL.
Destroyed(s) == [s EXCEPT !.binding = FALSE]

\* core_tcp_close_file; when efi_setup_event fails it returns at once, and the
\* binding stays.
TcpClose ==
  IF ~Use
  THEN NullBinding /\ UNCHANGED <<cb_status, token, sock, bindings, peer, faults, trouble>>
  ELSE \/ /\ sock' = Destroyed(sock)
          /\ bindings' = bindings - 1
          /\ Returned(0) /\ Granted
          /\ UNCHANGED <<cb_status, token, peer>>
       \/ /\ ~sock.goteof
          /\ Refused("leak") /\ Returned(0)
          /\ UNCHANGED <<cb_status, token, sock, bindings, peer>>

\* core_tcp_fill_buffer up to its polling loop.  At FIN, the size is known and
\* ops->close destroys the binding.  Any other status but success is not
\* looked at: the loop then polls for a callback that nobody will call.
TcpFill ==
  IF ~Use
  THEN NullBinding /\ UNCHANGED <<cb_status, token, sock, bindings, peer, faults, trouble>>
  ELSE
  \/ /\ Refused("refused") /\ Returned(0)
     /\ UNCHANGED <<cb_status, token, sock, bindings, peer>>
  \/ /\ peer > 0 /\ Issue("receive") /\ Granted
     /\ UNCHANGED <<cb_status, sock, bindings, peer>>
  \/ /\ peer = 0
     /\ sock' = Destroyed([sock EXCEPT !.goteof = TRUE,
                                       !.size = IF @ = -1 THEN sock.filepos ELSE @])
     /\ bindings' = bindings - 1
     /\ Returned(0) /\ Granted
     /\ UNCHANGED <<cb_status, token, peer>>
  \/ /\ Refused("noReceive")
     /\ tcp' = [tcp EXCEPT !.at = "receive"]
     /\ UNCHANGED <<cb_status, token, sock, bindings, peer>>

\* The end of core_tcp_fill_buffer, whatever cb_status is.
Filled ==
  /\ tcp.at = "receive" /\ cb_status # -1
  /\ cb_status' = -1
  /\ sock' = [sock EXCEPT !.filepos = @ + token.len, !.bytesleft = token.len]
  /\ token' = NoToken
  /\ Returned(0)
  /\ UNCHANGED <<bindings, peer, faults, trouble>>

\* The steps of the code.  TokenDone is none of them: the firmware may keep a
\* token for ever, as that of a receive from a server that stays silent.
TcpStep == NoMapping \/ Configured \/ Polled \/ Filled

\* A loop of Poll is left when the callback has set cb_status, and never else.
Polls == tcp.at \in {"connect", "transmit", "receive"} /\ cb_status = -1

-----------------------------------------------------------------------------
TcpTypeOK ==
  /\ cb_status \in {-1, 0, 1}
  /\ token.for \in {"none", "connect", "transmit", "receive"}
  /\ token.len \in 0 .. DATABUF
  /\ tcp.at \in {"out", "configure", "connect", "transmit", "receive"}
  /\ tcp.cur \in 0 .. NOMAP_PRINT_DELAY * NOMAP_PRINT_COUNT + 2
  /\ sock.bytesleft \in 0 .. DATABUF
  /\ peer \in Nat /\ faults \in 0 .. MAXFAULTS

\* cb_status is one global for every call: whoever starts to wait for a token
\* finds it at -1, and no callback of an earlier call is still to come.
CallbackMatched ==
  /\ tcp.at \in {"out", "configure"} => cb_status = -1 /\ token.for = "none"
  /\ token.for # "none" => token.for = tcp.at /\ cb_status = -1

\* Who polls for the callback has given the firmware a token that will call it.
\* A Receive that fails breaks this (core_tcp_fill_buffer, tcp.c:241), which is
\* why no run checks it.
PollAnswered == Polls => token.for = tcp.at

=============================================================================

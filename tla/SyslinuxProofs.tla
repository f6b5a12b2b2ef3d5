--------------------------- MODULE SyslinuxProofs ---------------------------
(***************************************************************************)
(* Proofs about the boot loader.  The invariant has a part for each of     *)
(* the components: for the files and their connections, an account of      *)
(* every inode, binding and unit of data; for the modules, what every call *)
(* on the stack will find when it returns; for the menu, where its cursor  *)
(* and its timers are.  Last, the names under which the configuration is   *)
(* looked for.                                                             *)
(***************************************************************************)
EXTENDS Syslinux, SequenceTheorems, WellFoundedInduction, TLAPS

-----------------------------------------------------------------------------
(***************************************************************************)
(* The files and their connections.                                        *)
(***************************************************************************)
Tcps ==
  [at : {"out", "configure", "connect", "transmit", "receive"}, rv : {0, -1},
   last : Nat, cur : 0 .. NOMAP_PRINT_DELAY * NOMAP_PRINT_COUNT + 2]
Tokens == [for : {"none", "connect", "transmit", "receive"}, len : 0 .. DATABUF]
Socks ==
  [binding : BOOLEAN, goteof : BOOLEAN, filepos : Nat, bytesleft : 0 .. DATABUF,
   stale : BOOLEAN, size : Int]
Places ==
  {"idle", "attempt", "tcpOpen", "tcpOpened", "connected", "written", "getc", "fail", "failed",
   "notFound", "opened", "chunk", "copy", "more", "returned", "closed"}
Files ==
  [at : Places, retry : 0 .. PXERetry, redirects : 0 .. MAXREDIR + 1,
   count : 0 .. BLOCK * BLOCKS, more : BOOLEAN, rv : {0}]

FilesTyped ==
  /\ cb_status \in {-1, 0, 1} /\ token \in Tokens /\ tcp \in Tcps /\ sock \in Socks
  /\ bindings \in Int /\ peer \in Nat /\ faults \in 0 .. MAXFAULTS
  /\ fs \in Files /\ reply \in Replies \cup {NoReply}
  /\ got \in [units : Nat, clean : BOOLEAN] /\ inodes \in Int /\ lost \in Nat

\* Who waits for the firmware, and for what.
Waits ==
  /\ tcp.at \in {"out", "configure"} => cb_status = -1 /\ token = NoToken
  /\ token.for # "none" => token.for = tcp.at /\ cb_status = -1 /\ token.len = DATABUF
  /\ tcp.at \in {"configure", "connect"} => fs.at = "connected"
  /\ tcp.at = "transmit" => fs.at = "written"
  /\ tcp.at = "receive" => /\ fs.at \in {"getc", "copy", "returned"}
                           /\ sock.bytesleft = 0 /\ ~sock.goteof
                           /\ cb_status = 0 => ~sock.stale
                           /\ cb_status = 1 => sock.stale /\ token.len = DATABUF

\* The loop around Configure ends.
Mapping ==
  LET limit == NOMAP_PRINT_DELAY * NOMAP_PRINT_COUNT + 1 IN
  tcp.at = "configure" => \/ tcp.cur <= limit
                          \/ tcp.cur = limit + 1 /\ tcp.last = limit

Opened == fs.at \in {"opened", "chunk", "copy", "more", "returned"}

\* A connection has a binding from its opening to its end.
Connected ==
  /\ fs.at = "idle" => sock = NoSock
  /\ fs.at \in {"tcpOpen", "tcpOpened", "connected", "written"} =>
       ~sock.goteof /\ ~sock.stale /\ sock.bytesleft = 0
  /\ fs.at = "tcpOpened" /\ tcp.rv = 0 => sock.binding
  /\ fs.at \in {"connected", "written"} => sock.binding
  /\ fs.at = "getc" \/ Opened => sock.binding = ~sock.goteof
  /\ fs.at \in {"attempt", "tcpOpen", "failed", "notFound", "closed"} /\ sock.binding =>
       "leak" \in trouble
  /\ sock.goteof => ~sock.binding /\ sock.bytesleft = 0 /\ peer = 0
  /\ "leak" \notin trouble => bindings = IF sock.binding THEN 1 ELSE 0

\* An inode for the URL in progress, and one for every URL that was redirected.
Counted ==
  /\ inodes = IF fs.at \in {"idle", "attempt", "notFound", "closed"} THEN lost ELSE lost + 1
  /\ fs.at = "attempt" => lost >= fs.redirects
  /\ fs.at \notin {"idle", "attempt", "notFound", "closed"} => lost >= fs.redirects - 1

\* What the server sent and is still in the buffer, or about to be.
Buffered == IF sock.stale THEN 0 ELSE sock.bytesleft
InFlight == IF tcp.at = "receive" /\ cb_status = 0 THEN token.len ELSE 0

\* Nothing the server sent is lost, and nothing counted twice.
Account ==
  /\ fs.at = "getc" => reply \in Replies /\ Buffered + InFlight + peer = 1 + reply.sent
  /\ Opened \/ fs.at = "closed" => reply \in Replies /\ reply.kind = "file"
  /\ Opened =>
       /\ got.clean => got.units + Buffered + InFlight + peer = reply.sent
       /\ got.clean /\ ~sock.stale => sock.filepos + InFlight + peer = reply.sent
       /\ got.clean /\ sock.stale => IF tcp.at = "out" THEN sock.bytesleft > 0 ELSE cb_status = 1
       /\ sock.size = reply.size \/ (reply.size = -1 /\ sock.goteof)

\* The loop of getfssec, and the end of the file.
FileRead ==
  /\ fs.at \in {"idle", "attempt", "tcpOpen", "tcpOpened", "connected", "written", "getc", "fail",
                "failed", "notFound"} => got = Nothing
  /\ fs.at = "copy" => fs.count > 0
  /\ fs.at = "returned" /\ ~fs.more => tcp.at = "out" /\ ~ThereIsMore(sock)
  /\ ReadExact

\* Files are read for the configuration and for the module of the innermost
\* call.
ReadAt == fs.at # "idle" => boot.stage \in {"dhcp", "mac"} \/ TopIs("image")

FilesRight == FilesTyped /\ Waits /\ Mapping /\ Connected /\ Counted /\ Account /\ FileRead

-----------------------------------------------------------------------------
\* What the types say of the fields.
LEMMA FilesFields ==
  ASSUME FilesTyped
  PROVE  /\ tcp.at \in {"out", "configure", "connect", "transmit", "receive"}
         /\ tcp.rv \in {0, -1} /\ tcp.last \in Nat
         /\ tcp.cur \in 0 .. NOMAP_PRINT_DELAY * NOMAP_PRINT_COUNT + 2
         /\ token.for \in {"none", "connect", "transmit", "receive"} /\ token.len \in 0 .. DATABUF
         /\ sock.binding \in BOOLEAN /\ sock.goteof \in BOOLEAN /\ sock.filepos \in Nat
         /\ sock.bytesleft \in 0 .. DATABUF /\ sock.stale \in BOOLEAN /\ sock.size \in Int
         /\ fs.at \in Places /\ fs.retry \in 0 .. PXERetry /\ fs.redirects \in 0 .. MAXREDIR + 1
         /\ fs.count \in 0 .. BLOCK * BLOCKS /\ fs.more \in BOOLEAN
         /\ got.units \in Nat /\ got.clean \in BOOLEAN
  <1>1. tcp \in Tcps /\ token \in Tokens /\ sock \in Socks /\ fs \in Files
        /\ got \in [units : Nat, clean : BOOLEAN]
    BY DEF FilesTyped
  <1> QED
    BY <1>1, Zenon DEF Tcps, Tokens, Socks, Files

\* A record with other values in some of its fields.
LEMMA TcpReturned ==
  ASSUME NEW rv \in {0, -1}, Returned(rv)
  PROVE  tcp' \in Tcps /\ tcp'.at = "out" /\ tcp'.rv = rv
  <1>1. 0 \in 0 .. NOMAP_PRINT_DELAY * NOMAP_PRINT_COUNT + 2
    <2>1. NOMAP_PRINT_DELAY * NOMAP_PRINT_COUNT \in Nat
      BY TcpAssumption
    <2> QED
      BY <2>1
  <1>2. tcp' = [at |-> "out", rv |-> rv, last |-> 0, cur |-> 0]
    BY DEF Returned
  <1> QED
    BY <1>1, <1>2 DEF Tcps

\* A call of the driver goes on to its next step.
LEMMA TcpGoes ==
  ASSUME tcp \in Tcps, NEW at \in {"out", "configure", "connect", "transmit", "receive"},
         tcp' = [tcp EXCEPT !.at = at]
  PROVE  tcp' \in Tcps /\ tcp'.at = at
  <1>1. tcp' \in Tcps
    BY Zenon DEF Tcps
  <1> QED
    BY <1>1 DEF Tcps

\* The firmware holds a token.
LEMMA Issued ==
  ASSUME tcp \in Tcps, NEW what \in {"connect", "transmit", "receive"}, Issue(what)
  PROVE  tcp' \in Tcps /\ tcp'.at = what /\ token' \in Tokens /\ token'.for = what
         /\ token'.len = DATABUF
  <1>1. tcp' = [tcp EXCEPT !.at = what] /\ token' = [for |-> what, len |-> DATABUF]
    BY DEF Issue
  <1>2. DATABUF \in 0 .. DATABUF
    BY TcpAssumption
  <1>3. what \in {"out", "configure", "connect", "transmit", "receive"}
    OBVIOUS
  <1>4. token' \in Tokens /\ token'.for = what /\ token'.len = DATABUF
    BY <1>1, <1>2 DEF Tokens
  <1> QED
    BY <1>1, <1>3, <1>4, TcpGoes

\* A trouble is remembered.
LEMMA RefusedRight ==
  ASSUME NEW what, Refused(what), faults \in 0 .. MAXFAULTS
  PROVE  faults' \in 0 .. MAXFAULTS /\ what \in trouble' /\ ("leak" \in trouble => "leak" \in trouble')
  BY TcpAssumption DEF Refused

\* core_tcp_fill_buffer waits for a packet, or has met the end of the file, or
\* has done nothing.
LEMMA TcpFillRight ==
  ASSUME FilesTyped, Waits, tcp.at = "out", sock.binding, TcpFill
  PROVE  /\ cb_status' = -1 /\ token' \in Tokens /\ tcp' \in Tcps /\ sock' \in Socks
         /\ bindings' \in Int /\ peer' = peer /\ faults' \in 0 .. MAXFAULTS
         /\ "leak" \in trouble => "leak" \in trouble'
         /\ \/ tcp'.at = "out" /\ token' = NoToken /\ sock' = sock /\ bindings' = bindings
            \/ /\ tcp'.at = "receive" /\ token'.for \in {"none", "receive"}
               /\ token'.for = "receive" => token'.len = DATABUF
               /\ sock' = sock /\ bindings' = bindings
            \/ /\ tcp'.at = "out" /\ token' = NoToken /\ peer = 0 /\ bindings' = bindings - 1
               /\ ~sock'.binding /\ sock'.goteof /\ sock'.bytesleft = sock.bytesleft
               /\ sock'.filepos = sock.filepos /\ sock'.stale = sock.stale
               /\ sock'.size = IF sock.size = -1 THEN sock.filepos ELSE sock.size
  <1>0. /\ cb_status = -1 /\ token = NoToken /\ token \in Tokens /\ tcp \in Tcps /\ sock \in Socks
        /\ faults \in 0 .. MAXFAULTS /\ bindings \in Int
    BY DEF FilesTyped, Waits
  <1>1. CASE /\ Refused("refused") /\ Returned(0)
             /\ UNCHANGED <<cb_status, token, sock, bindings, peer>>
    BY <1>0, <1>1, RefusedRight, TcpReturned
  <1>2. CASE /\ peer > 0 /\ Issue("receive") /\ Granted
             /\ UNCHANGED <<cb_status, sock, bindings, peer>>
    BY <1>0, <1>2, Issued DEF Granted
  <1>3. CASE /\ peer = 0
             /\ sock' = Destroyed([sock EXCEPT !.goteof = TRUE,
                                               !.size = IF @ = -1 THEN sock.filepos ELSE @])
             /\ bindings' = bindings - 1
             /\ Returned(0) /\ Granted
             /\ UNCHANGED <<cb_status, token, peer>>
    <2> DEFINE size == IF sock.size = -1 THEN sock.filepos ELSE sock.size
    <2>1. sock' = [sock EXCEPT !.goteof = TRUE, !.size = size, !.binding = FALSE]
      BY <1>3 DEF Destroyed
    <2>2. size \in Int
      BY <1>0 DEF Socks
    <2> HIDE DEF size
    <2>3. sock' \in Socks
      BY <1>0, <2>1, <2>2, Zenon DEF Socks
    <2>4. /\ ~sock'.binding /\ sock'.goteof /\ sock'.bytesleft = sock.bytesleft
          /\ sock'.filepos = sock.filepos /\ sock'.stale = sock.stale /\ sock'.size = size
      BY <1>0, <2>1, <2>2 DEF Socks
    <2>5. tcp' \in Tcps /\ tcp'.at = "out"
      BY <1>3, TcpReturned
    <2> QED
      BY <1>0, <1>3, <2>3, <2>4, <2>5 DEF Granted, size
  <1>4. CASE /\ Refused("noReceive")
             /\ tcp' = [tcp EXCEPT !.at = "receive"]
             /\ UNCHANGED <<cb_status, token, sock, bindings, peer>>
    <2>1. token.for = "none"
      BY <1>0 DEF NoToken
    <2>2. tcp' \in Tcps /\ tcp'.at = "receive"
      BY <1>0, <1>4, TcpGoes
    <2> QED
      BY <1>0, <1>4, <2>1, <2>2, RefusedRight
  <1> QED
    BY <1>1, <1>2, <1>3, <1>4 DEF TcpFill, Use

\* core_tcp_close_file destroys the binding, or leaks it.
LEMMA TcpCloseRight ==
  ASSUME FilesTyped, Waits, tcp.at = "out", sock.binding, TcpClose
  PROVE  /\ cb_status' = -1 /\ token' = NoToken /\ tcp' \in Tcps /\ tcp'.at = "out" /\ sock' \in Socks
         /\ bindings' \in Int /\ peer' = peer /\ faults' \in 0 .. MAXFAULTS
         /\ "leak" \in trouble => "leak" \in trouble'
         /\ \/ ~sock'.binding /\ bindings' = bindings - 1
            \/ "leak" \in trouble' /\ sock' = sock
         /\ sock'.goteof = sock.goteof /\ sock'.bytesleft = sock.bytesleft
         /\ sock'.stale = sock.stale
  <1>0. /\ cb_status = -1 /\ token = NoToken /\ tcp \in Tcps /\ sock \in Socks
        /\ faults \in 0 .. MAXFAULTS /\ bindings \in Int
    BY DEF FilesTyped, Waits
  <1>1. CASE /\ sock' = Destroyed(sock)
             /\ bindings' = bindings - 1
             /\ Returned(0) /\ Granted
             /\ UNCHANGED <<cb_status, token, peer>>
    <2>1. sock' = [sock EXCEPT !.binding = FALSE]
      BY <1>1 DEF Destroyed
    <2>2. sock' \in Socks
      BY <1>0, <2>1, Zenon DEF Socks
    <2>3. /\ ~sock'.binding /\ sock'.goteof = sock.goteof /\ sock'.bytesleft = sock.bytesleft
          /\ sock'.stale = sock.stale
      BY <1>0, <2>1 DEF Socks
    <2>4. tcp' \in Tcps /\ tcp'.at = "out"
      BY <1>1, TcpReturned
    <2> QED
      BY <1>0, <1>1, <2>2, <2>3, <2>4 DEF Granted
  <1>2. CASE /\ ~sock.goteof
             /\ Refused("leak") /\ Returned(0)
             /\ UNCHANGED <<cb_status, token, sock, bindings, peer>>
    BY <1>0, <1>2, RefusedRight, TcpReturned
  <1> QED
    BY <1>1, <1>2 DEF TcpClose, Use

-----------------------------------------------------------------------------
\* A packet is asked for, of a connection that is open and has an empty buffer.
LEMMA Fills ==
  ASSUME FilesRight, tcp.at = "out", sock.bytesleft = 0, ~sock.goteof, TcpFill,
         fs.at = "getc" \/ Opened, fs' \in Files, fs'.redirects = fs.redirects,
         fs.at = "getc" => fs'.at = "getc",
         Opened => fs'.at \in {"copy", "returned"},
         fs'.at = "copy" => fs'.count > 0, fs'.at = "returned" => fs'.more,
         UNCHANGED <<reply, got, inodes, lost>>
  PROVE  FilesRight'
  <1>0. FilesTyped /\ Waits /\ Connected /\ Counted /\ Account /\ FileRead
    BY DEF FilesRight
  <1>1. sock.binding
    BY <1>0 DEF Connected
  <1>2. /\ cb_status' = -1 /\ token' \in Tokens /\ tcp' \in Tcps /\ sock' \in Socks
        /\ bindings' \in Int /\ peer' = peer /\ faults' \in 0 .. MAXFAULTS
        /\ "leak" \in trouble => "leak" \in trouble'
    BY <1>0, <1>1, TcpFillRight
  <1>3. \/ tcp'.at = "out" /\ token' = NoToken /\ sock' = sock /\ bindings' = bindings
        \/ /\ tcp'.at = "receive" /\ token'.for \in {"none", "receive"}
           /\ token'.for = "receive" => token'.len = DATABUF
           /\ sock' = sock /\ bindings' = bindings
        \/ /\ tcp'.at = "out" /\ token' = NoToken /\ peer = 0 /\ bindings' = bindings - 1
           /\ ~sock'.binding /\ sock'.goteof /\ sock'.bytesleft = 0
           /\ sock'.filepos = sock.filepos /\ sock'.stale = sock.stale
           /\ sock'.size = IF sock.size = -1 THEN sock.filepos ELSE sock.size
    BY <1>0, <1>1, TcpFillRight
  <1>4. fs'.at \in {"getc", "copy", "returned"} /\ (fs.at # "getc" => fs'.at # "getc")
    BY DEF Opened
  <1>5. FilesTyped'
    BY <1>0, <1>2 DEF FilesTyped
  <1>6. Waits'
    <2>1. token' = NoToken => token'.for = "none"
      BY DEF NoToken
    <2> QED
      BY <1>2, <1>3, <1>4, <2>1 DEF Waits
  <1>7. Mapping'
    BY <1>3 DEF Mapping
  <1>8. /\ peer \in Nat /\ sock.filepos \in Nat /\ sock.stale \in BOOLEAN /\ bindings \in Int
        /\ sock.binding \in BOOLEAN /\ sock.goteof \in BOOLEAN
    BY <1>0, FilesFields DEF FilesTyped
  <1>9. Connected'
    <2>1. sock' = sock => (sock'.binding = ~sock'.goteof)
      BY <1>0 DEF Connected
    <2>2. sock'.binding \in BOOLEAN /\ sock'.goteof \in BOOLEAN
      BY <1>5, FilesFields DEF Socks, FilesTyped
    <2>3. sock'.binding = ~sock'.goteof
      BY <1>3, <2>1, <2>2
    <2>4. sock'.goteof => peer' = 0 /\ sock'.bytesleft = 0
      BY <1>2, <1>3, <1>8
    <2>5. "leak" \notin trouble' => bindings' = IF sock'.binding THEN 1 ELSE 0
      BY <1>0, <1>1, <1>2, <1>3, <1>8 DEF Connected
    <2> QED
      BY <1>4, <2>2, <2>3, <2>4, <2>5 DEF Connected
  <1>10. Counted'
    BY <1>0, <1>4 DEF Counted, Opened
  <1>11. Account'
    <2>1. sock'.stale = sock.stale /\ sock'.bytesleft = 0 /\ sock'.filepos = sock.filepos
      BY <1>3
    <2>2. Buffered' = 0 /\ InFlight' = 0 /\ Buffered = 0 /\ InFlight = 0
      BY <1>2, <2>1 DEF Buffered, InFlight
    <2>3. CASE fs.at = "getc"
      <3>1. reply \in Replies /\ peer = 1 + reply.sent
        BY <1>0, <1>8, <2>2, <2>3 DEF Account
      <3> QED
        BY <1>2, <1>8, <2>2, <2>3, <3>1 DEF Account, Opened
    <2>4. CASE Opened
      <3>1. /\ reply \in Replies /\ reply.kind = "file"
            /\ got.clean => got.units + 0 + 0 + peer = reply.sent
            /\ got.clean /\ ~sock.stale => sock.filepos + 0 + peer = reply.sent
            /\ got.clean => ~sock.stale
            /\ sock.size = reply.size
        BY <1>0, <2>2, <2>4 DEF Account
      <3>2. sock'.size = reply.size \/ (reply.size = -1 /\ sock'.goteof)
        BY <1>3, <3>1
      <3> QED
        BY <1>2, <1>4, <2>1, <2>2, <2>4, <3>1, <3>2 DEF Account, Opened
    <2> QED
      BY <2>3, <2>4
  <1>12. FileRead'
    <2>1. ReadExact'
      <3>1. Opened => fs.at \in {"opened", "chunk", "copy", "more", "returned", "closed"}
        BY DEF Opened
      <3> QED
        BY <1>0, <1>4, <3>1 DEF FileRead, ReadExact, Opened
    <2>2. fs'.at = "getc" => got = Nothing
      BY <1>0 DEF FileRead, Opened
    <2> QED
      BY <1>4, <2>1, <2>2 DEF FileRead
  <1> QED
    BY <1>5, <1>6, <1>7, <1>9, <1>10, <1>11, <1>12 DEF FilesRight

\* pxe_getc fills the buffer when it is empty and the connection has not
\* ended.
LEMMA GetcFillsStep ==
  ASSUME FilesRight, GetcFills
  PROVE  FilesRight'
  <1>1. /\ tcp.at = "out" /\ sock.bytesleft = 0 /\ ~sock.goteof /\ TcpFill /\ fs.at = "getc" /\ fs' = fs
        /\ UNCHANGED <<reply, got, inodes, lost>>
    BY DEF GetcFills, FsAt, fsVars
  <1> QED
    BY <1>1, Fills DEF FilesRight, FilesTyped, Opened

\* pxe_get_fssector fills the buffer before it copies from it.
LEMMA ChunkFillsStep ==
  ASSUME FilesRight, ChunkFills
  PROVE  FilesRight'
  <1>1. /\ tcp.at = "out" /\ sock.bytesleft = 0 /\ ~sock.goteof /\ TcpFill /\ fs.at = "chunk" /\ fs.count > 0
        /\ fs' = [fs EXCEPT !.at = "copy"] /\ UNCHANGED <<reply, got, inodes, lost>>
    BY DEF ChunkFills, FsAt, Drained, Do
  <1>2. fs \in Files
    BY DEF FilesRight, FilesTyped
  <1>3. fs' \in Files
    <2>1. "copy" \in Places
      BY DEF Places
    <2> QED
      BY <1>1, <1>2, <2>1, Zenon DEF Files
  <1>4. fs'.at = "copy" /\ fs'.count = fs.count /\ fs'.redirects = fs.redirects
    BY <1>1, <1>2 DEF Files
  <1> QED
    BY <1>1, <1>3, <1>4, Fills DEF Opened

\* Nothing is asked of the connection.
LEMMA SocketKept ==
  ASSUME FilesRight, UNCHANGED tcpVars, fs' \in Files, fs'.redirects = fs.redirects,
         tcp.at = "out", Opened, fs'.at \in {"opened", "chunk", "copy", "more", "returned"},
         fs'.at = "copy" => fs'.count > 0,
         fs'.at = "returned" /\ ~fs'.more => ~ThereIsMore(sock),
         UNCHANGED <<reply, got, inodes, lost>>
  PROVE  FilesRight'
  <1>0. FilesTyped /\ Waits /\ Connected /\ Counted /\ Account /\ FileRead
    BY DEF FilesRight
  <1>1. UNCHANGED <<cb_status, token, tcp, sock, bindings, peer, faults, trouble>>
    BY DEF tcpVars
  <1>2. FilesTyped' /\ Waits' /\ Mapping'
    BY <1>0, <1>1 DEF FilesTyped, Waits, Mapping
  <1>3. Connected'
    BY <1>0, <1>1 DEF Connected, Opened
  <1>4. Counted' /\ Account'
    BY <1>0, <1>1 DEF Counted, Account, Opened, Buffered, InFlight
  <1>5. FileRead'
    BY <1>0, <1>1 DEF FileRead, ReadExact, Opened, ThereIsMore
  <1> QED
    BY <1>2, <1>3, <1>4, <1>5 DEF FilesRight

\* After the last block pxe_get_fssector looks whether there is more.
LEMMA MoreFillsStep ==
  ASSUME FilesRight, MoreFills
  PROVE  FilesRight'
  <1>1. /\ tcp.at = "out" /\ fs.at \in {"chunk", "more"} /\ Opened
        /\ fs' = [fs EXCEPT !.at = "returned", !.more = TRUE] /\ UNCHANGED <<reply, got, inodes, lost>>
    BY DEF MoreFills, AtMore, FsAt, Opened
  <1>2. fs \in Files
    BY DEF FilesRight, FilesTyped
  <1>3. fs' \in Files
    <2>1. "returned" \in Places
      BY DEF Places
    <2> QED
      BY <1>1, <1>2, <2>1, Zenon DEF Files
  <1>4. fs'.at = "returned" /\ fs'.more /\ fs'.redirects = fs.redirects
    BY <1>1, <1>2 DEF Files
  <1>5. CASE Drained(sock)
    <2>1. sock.bytesleft = 0 /\ ~sock.goteof /\ TcpFill
      BY <1>5 DEF MoreFills, Drained
    <2> QED
      BY <1>1, <1>3, <1>4, <2>1, Fills
  <1>6. CASE ~Drained(sock)
    <2>1. UNCHANGED tcpVars
      BY <1>6 DEF MoreFills
    <2> QED
      BY <1>1, <1>3, <1>4, <2>1, SocketKept
  <1> QED
    BY <1>5, <1>6

\* The steps with a file that touch neither the driver nor what was received.
LEMMA OpenFileSteps ==
  ASSUME FilesRight, GetFsSec \/ NoMore \/ ReadOn
  PROVE  FilesRight'
  <1>0. fs \in Files
    BY DEF FilesRight, FilesTyped
  <1>1. CASE GetFsSec
    <2>1. PICK garbage \in BOOLEAN :
            fs' = [fs EXCEPT !.at = "chunk", !.count = BLOCK * BLOCKS, !.more = garbage]
      BY <1>1 DEF GetFsSec
    <2>2. fs' \in Files
      <3>1. BLOCK * BLOCKS \in Nat
        BY PxeAssumption
      <3>2. BLOCK * BLOCKS \in 0 .. BLOCK * BLOCKS
        BY <3>1
      <3>3. "chunk" \in Places
        BY DEF Places
      <3> QED
        BY <1>0, <2>1, <3>2, <3>3, Zenon DEF Files
    <2>3. fs'.at = "chunk" /\ fs'.redirects = fs.redirects
      BY <1>0, <2>1 DEF Files
    <2>4. tcp.at = "out" /\ Opened /\ UNCHANGED <<reply, got, inodes, lost, tcpVars>>
      BY <1>1 DEF GetFsSec, FsAt, Opened
    <2> QED
      BY <2>2, <2>3, <2>4, SocketKept
  <1>2. CASE NoMore
    <2> DEFINE more == IF sock.goteof THEN FALSE ELSE fs.more
    <2>1. /\ fs' = [fs EXCEPT !.at = "returned", !.more = more]
          /\ tcp.at = "out" /\ Opened /\ ~ThereIsMore(sock) /\ UNCHANGED <<reply, got, inodes, lost, tcpVars>>
      BY <1>2 DEF NoMore, AtMore, FsAt, Opened
    <2>2. fs' \in Files
      <3>1. more \in BOOLEAN
        BY <1>0 DEF Files
      <3>2. "returned" \in Places
        BY DEF Places
      <3> HIDE DEF more
      <3> QED
        BY <1>0, <2>1, <3>1, <3>2, Zenon DEF Files
    <2>3. fs'.at = "returned" /\ fs'.redirects = fs.redirects
      BY <1>0, <2>1 DEF Files
    <2> QED
      BY <2>1, <2>2, <2>3, SocketKept
  <1>3. CASE ReadOn
    <2>1. /\ fs' = [fs EXCEPT !.at = "opened"] /\ tcp.at = "out" /\ Opened
          /\ UNCHANGED <<reply, got, inodes, lost, tcpVars>>
      BY <1>3 DEF ReadOn, FsAt, Opened, Do
    <2>2. fs' \in Files
      <3>1. "opened" \in Places
        BY DEF Places
      <3> QED
        BY <1>0, <2>1, <3>1, Zenon DEF Files
    <2>3. fs'.at = "opened" /\ fs'.redirects = fs.redirects
      BY <1>0, <2>1 DEF Files
    <2> QED
      BY <2>1, <2>2, <2>3, SocketKept
  <1> QED
    BY <1>1, <1>2, <1>3

-----------------------------------------------------------------------------
\* The connection goes on, and what pxe.c knows stays.
LEMMA ConnectionGoesOn ==
  ASSUME FilesRight, UNCHANGED fsVars, UNCHANGED <<sock, bindings, peer>>,
         tcp.at # "out", Opened => tcp'.at = tcp.at /\ cb_status' = cb_status /\ token' = token,
         fs.at = "getc" => tcp'.at = tcp.at /\ cb_status' = cb_status /\ token' = token,
         "leak" \in trouble => "leak" \in trouble'
  PROVE  Connected' /\ Counted' /\ Account' /\ FileRead'
  <1>0. FilesTyped /\ Waits /\ Connected /\ Counted /\ Account /\ FileRead
    BY DEF FilesRight
  <1>1. UNCHANGED <<fs, reply, got, inodes, lost, sock, bindings, peer>>
    BY DEF fsVars
  <1>2. fs.at \in {"connected", "written", "getc", "copy", "returned"}
    BY <1>0, FilesFields DEF Waits
  <1>3. Connected'
    BY <1>0, <1>1, <1>2 DEF Connected, Opened
  <1>4. Counted' /\ Account'
    BY <1>0, <1>1, <1>2 DEF Counted, Account, Opened, Buffered, InFlight
  <1>5. FileRead'
    BY <1>0, <1>1, <1>2 DEF FileRead, ReadExact, Opened, ThereIsMore
  <1> QED
    BY <1>3, <1>4, <1>5

\* The loop around Configure turns at most once after it should have ended.
LEMMA NoMappingStep ==
  ASSUME FilesRight, NoMapping, UNCHANGED fsVars
  PROVE  FilesRight'
  <1>0. FilesTyped /\ Waits /\ Mapping /\ tcp \in Tcps /\ tcp.at = "configure"
    BY DEF FilesRight, FilesTyped, NoMapping
  <1>1. UNCHANGED <<cb_status, token, sock, bindings, peer, faults>> /\ UNCHANGED <<fs, reply, got, inodes, lost>>
    BY DEF NoMapping, fsVars
  <1>2. fs.at = "connected" /\ cb_status = -1 /\ token = NoToken
    BY <1>0 DEF Waits
  <1>3. "leak" \in trouble => "leak" \in trouble'
    BY DEF NoMapping
  <1> DEFINE P == NOMAP_PRINT_DELAY * NOMAP_PRINT_COUNT
             prints == tcp.cur - tcp.last >= NOMAP_PRINT_DELAY
             aborts == tcp.cur > P
  <1>4. P \in Nat /\ NOMAP_PRINT_DELAY \in Nat /\ NOMAP_PRINT_DELAY > 1
    BY TcpAssumption
  <1>5. /\ tcp.cur \in 0 .. P + 2 /\ tcp.last \in Nat
        /\ tcp.cur <= P + 1 \/ (tcp.cur = P + 1 + 1 /\ tcp.last = P + 1)
    BY <1>0, FilesFields DEF Mapping
  <1> DEFINE last == IF prints THEN tcp.cur ELSE tcp.last
             next == [tcp EXCEPT !.cur = tcp.cur + 1, !.last = last]
  <1>6. \/ ~prints /\ aborts /\ Returned(-1)
        \/ (prints \/ ~aborts) /\ tcp' = next
    BY DEF NoMapping
  <1> HIDE DEF P
  <1>7. CASE Returned(-1)
    <2>1. tcp' \in Tcps /\ tcp'.at = "out"
      BY <1>7, TcpReturned
    <2>2. FilesTyped'
      BY <1>0, <1>1, <2>1 DEF FilesTyped
    <2>3. Waits' /\ Mapping'
      <3>1. token.for = "none"
        BY <1>2 DEF NoToken
      <3> QED
        BY <1>1, <1>2, <2>1, <3>1 DEF Waits, Mapping
    <2> QED
      BY <1>0, <1>1, <1>2, <1>3, <2>2, <2>3, ConnectionGoesOn DEF FilesRight, Opened
  <1>8. CASE (prints \/ ~aborts) /\ tcp' = next
    <2>1. /\ tcp.cur + 1 \in 0 .. P + 2 /\ last \in Nat
          /\ tcp.cur + 1 <= P + 1 \/ (tcp.cur + 1 = P + 1 + 1 /\ last = P + 1)
      BY <1>4, <1>5, <1>8
    <2> HIDE DEF last, prints, aborts
    <2>2. tcp' \in Tcps
      BY <1>0, <1>8, <2>1, Zenon DEF Tcps, P
    <2>3. tcp'.at = "configure" /\ tcp'.cur = tcp.cur + 1 /\ tcp'.last = last
      BY <1>0, <1>8 DEF Tcps
    <2>4. FilesTyped'
      BY <1>0, <1>1, <2>2 DEF FilesTyped
    <2>5. Waits'
      <3>1. token.for = "none"
        BY <1>2 DEF NoToken
      <3> QED
        BY <1>1, <1>2, <2>3, <3>1 DEF Waits
    <2>6. Mapping'
      BY <2>1, <2>3 DEF Mapping, P
    <2> QED
      BY <1>0, <1>1, <1>2, <1>3, <2>4, <2>5, <2>6, ConnectionGoesOn DEF FilesRight, Opened
  <1> QED
    BY <1>6, <1>7, <1>8

\* Configure has an address, and the connection is asked for or refused.
LEMMA ConfiguredStep ==
  ASSUME FilesRight, Configured, UNCHANGED fsVars
  PROVE  FilesRight'
  <1>0. /\ FilesTyped /\ Waits /\ tcp \in Tcps /\ tcp.at = "configure" /\ token \in Tokens
        /\ faults \in 0 .. MAXFAULTS
    BY DEF FilesRight, FilesTyped, Configured
  <1>1. UNCHANGED <<cb_status, sock, bindings, peer>> /\ UNCHANGED <<fs, reply, got, inodes, lost>>
    BY DEF Configured, fsVars
  <1>2. fs.at = "connected" /\ cb_status = -1 /\ token = NoToken /\ token.for = "none"
    BY <1>0 DEF Waits, NoToken
  <1>3. /\ tcp' \in Tcps /\ token' \in Tokens /\ faults' \in 0 .. MAXFAULTS
        /\ "leak" \in trouble => "leak" \in trouble'
        /\ \/ tcp'.at = "out" /\ token' = NoToken
           \/ tcp'.at = "connect" /\ token'.for = "connect" /\ token'.len = DATABUF
    <2>1. CASE Issue("connect") /\ Granted
      BY <1>0, <2>1, Issued DEF Granted
    <2>2. CASE Refused("refused") /\ Returned(-1) /\ UNCHANGED token
      BY <1>0, <1>2, <2>2, RefusedRight, TcpReturned
    <2> QED
      BY <2>1, <2>2 DEF Configured
  <1>4. FilesTyped'
    BY <1>0, <1>1, <1>3 DEF FilesTyped
  <1>5. Waits' /\ Mapping'
    BY <1>1, <1>2, <1>3 DEF Waits, Mapping
  <1> QED
    BY <1>0, <1>1, <1>2, <1>3, <1>4, <1>5, ConnectionGoesOn DEF FilesRight, Opened

\* Connect and Transmit return when their callback was called.
LEMMA PolledStep ==
  ASSUME FilesRight, Polled, UNCHANGED fsVars
  PROVE  FilesRight'
  <1>0. /\ FilesTyped /\ Waits /\ tcp.at \in {"connect", "transmit"}
        /\ cb_status' = -1 /\ token' = NoToken
    BY DEF FilesRight, FilesTyped, Polled
  <1>1. UNCHANGED <<sock, bindings, peer, faults, trouble>> /\ UNCHANGED <<fs, reply, got, inodes, lost>>
    BY DEF Polled, fsVars
  <1>2. fs.at \in {"connected", "written"}
    BY <1>0 DEF Waits
  <1>3. tcp' \in Tcps /\ tcp'.at = "out"
    <2>1. PICK rv \in {0, -1} : Returned(rv)
      BY DEF Polled
    <2> QED
      BY <2>1, TcpReturned
  <1>4. token' \in Tokens /\ token'.for = "none"
    <2>1. 0 \in 0 .. DATABUF
      BY TcpAssumption
    <2> QED
      BY <1>0, <2>1 DEF NoToken, Tokens
  <1>5. FilesTyped'
    BY <1>0, <1>1, <1>3, <1>4 DEF FilesTyped
  <1>6. Waits' /\ Mapping'
    BY <1>0, <1>3, <1>4 DEF Waits, Mapping
  <1> QED
    BY <1>0, <1>1, <1>2, <1>5, <1>6, ConnectionGoesOn DEF FilesRight, Opened

\* The firmware completes a token: what it received is in flight.
LEMMA TokenDoneStep ==
  ASSUME FilesRight, TokenDone, UNCHANGED fsVars
  PROVE  FilesRight'
  <1>0. /\ FilesTyped /\ Waits /\ Mapping /\ Connected /\ Counted /\ Account /\ FileRead
        /\ tcp \in Tcps /\ token \in Tokens /\ sock \in Socks /\ faults \in 0 .. MAXFAULTS
        /\ peer \in Nat /\ token.for # "none" /\ token.len \in 0 .. DATABUF
    BY FilesFields DEF FilesRight, FilesTyped, TokenDone
  <1>1. UNCHANGED <<tcp, bindings>> /\ UNCHANGED <<fs, reply, got, inodes, lost>>
    BY DEF TokenDone, fsVars
  <1>2. tcp.at = token.for /\ cb_status = -1 /\ tcp.at \in {"connect", "transmit", "receive"}
    BY <1>0, FilesFields DEF Waits
  <1>3. CASE /\ token.for # "receive"
             /\ cb_status' = 0 /\ token' = [token EXCEPT !.for = "none"]
             /\ UNCHANGED <<sock, peer, faults, trouble>>
    <2>1. token' \in Tokens /\ token'.for = "none"
      BY <1>0, <1>3, FilesFields DEF Tokens
    <2>2. FilesTyped'
      BY <1>0, <1>1, <1>3, <2>1 DEF FilesTyped
    <2>3. Waits' /\ Mapping' /\ fs.at \in {"connected", "written"}
      BY <1>0, <1>1, <1>2, <1>3, <2>1 DEF Waits, Mapping
    <2> QED
      BY <1>1, <1>2, <1>3, <2>2, <2>3, ConnectionGoesOn DEF FilesRight, Opened
  <1>4. CASE /\ token.for = "receive"
             /\ \E n \in {k \in 1 .. DATABUF : k <= peer} :
                  peer' = peer - n /\ token' = [for |-> "none", len |-> n]
             /\ cb_status' = 0 /\ sock' = [sock EXCEPT !.stale = FALSE]
             /\ UNCHANGED <<faults, trouble>>
    <2>1. PICK n \in 1 .. DATABUF : n <= peer /\ peer' = peer - n /\ token' = [for |-> "none", len |-> n]
      BY <1>4
    <2>2. n \in 0 .. DATABUF /\ peer' \in Nat /\ n \in Nat /\ peer' + n = peer /\ peer # 0
      BY <1>0, <2>1
    <2>3. token' \in Tokens /\ token'.for = "none" /\ token'.len = n
      BY <2>1, <2>2 DEF Tokens
    <2>4. sock' \in Socks
      BY <1>0, <1>4, Zenon DEF Socks
    <2>5. /\ sock'.binding = sock.binding /\ sock'.goteof = sock.goteof /\ sock'.filepos = sock.filepos
          /\ sock'.bytesleft = sock.bytesleft /\ sock'.size = sock.size /\ ~sock'.stale
      BY <1>0, <1>4 DEF Socks
    <2>6. fs.at \in {"getc", "copy", "returned"} /\ sock.bytesleft = 0 /\ ~sock.goteof
      BY <1>0, <1>2, <1>4 DEF Waits
    <2>7. FilesTyped'
      BY <1>0, <1>1, <1>4, <2>2, <2>3, <2>4 DEF FilesTyped
    <2>8. Waits' /\ Mapping'
      BY <1>1, <1>2, <1>4, <2>3, <2>5, <2>6 DEF Waits, Mapping
    <2>9. Connected'
      BY <1>0, <1>1, <1>4, <2>5, <2>6 DEF Connected, Opened
    <2>10. Buffered' = 0 /\ Buffered = 0 /\ InFlight = 0 /\ InFlight' = n
      BY <1>1, <1>2, <1>4, <2>3, <2>5, <2>6 DEF Buffered, InFlight
    <2>11. sock.filepos \in Nat /\ got.units \in Nat
      BY <1>0, FilesFields
    <2>14. /\ 0 + 0 + peer = 0 + n + peer'
           /\ got.units + 0 + 0 + peer = got.units + 0 + n + peer'
           /\ sock.filepos + 0 + peer = sock.filepos + n + peer'
      <3>1. peer' \in Nat /\ n \in Nat /\ peer = peer' + n
        BY <2>2
      <3> QED
        BY <2>11, <3>1
    <2>12. Account'
      <3>1. CASE fs.at = "getc"
        <4>1. reply \in Replies /\ 0 + 0 + peer = 1 + reply.sent
          BY <1>0, <2>10, <3>1 DEF Account
        <4>2. reply \in Replies /\ 0 + n + peer' = 1 + reply.sent
          BY <2>14, <4>1
        <4> QED
          BY <1>1, <2>10, <3>1, <4>2 DEF Account, Opened
      <3>2. CASE Opened
        <4>1. /\ reply \in Replies /\ reply.kind = "file"
              /\ got.clean => got.units + 0 + 0 + peer = reply.sent
              /\ got.clean => ~sock.stale
              /\ got.clean => sock.filepos + 0 + peer = reply.sent
              /\ sock.size = reply.size
          BY <1>0, <1>2, <1>4, <2>6, <2>10, <3>2 DEF Account
        <4>2. /\ got.clean => got.units + 0 + n + peer' = reply.sent
              /\ got.clean => sock.filepos + n + peer' = reply.sent
          BY <2>14, <4>1
        <4> QED
          BY <1>1, <2>5, <2>6, <2>10, <3>2, <4>1, <4>2 DEF Account, Opened
      <3> QED
        BY <2>6, <3>1, <3>2 DEF Opened
    <2>13. Counted' /\ FileRead'
      BY <1>0, <1>1, <1>2, <1>4, <2>5 DEF Counted, FileRead, ReadExact, ThereIsMore
    <2> QED
      BY <2>7, <2>8, <2>9, <2>12, <2>13 DEF FilesRight
  <1>5. CASE /\ Refused("failed")
             /\ cb_status' = 1 /\ token' = [token EXCEPT !.for = "none"]
             /\ sock' = [sock EXCEPT !.stale = (token.for = "receive")]
             /\ UNCHANGED peer
    <2> DEFINE stale == token.for = "receive"
    <2>1. token' \in Tokens /\ token'.for = "none" /\ token'.len = token.len /\ token.len = DATABUF
      BY <1>0, <1>5, FilesFields DEF Tokens, Waits
    <2>2. stale \in BOOLEAN
      OBVIOUS
    <2>3. sock' = [sock EXCEPT !.stale = stale]
      BY <1>5
    <2> HIDE DEF stale
    <2>4. sock' \in Socks
      BY <1>0, <2>2, <2>3, Zenon DEF Socks
    <2>5. /\ sock'.binding = sock.binding /\ sock'.goteof = sock.goteof /\ sock'.filepos = sock.filepos
          /\ sock'.bytesleft = sock.bytesleft /\ sock'.size = sock.size /\ sock'.stale = stale
      BY <1>0, <2>2, <2>3 DEF Socks
    <2>13. (tcp.at = "receive" => sock'.stale) /\ (tcp.at # "receive" => ~sock'.stale)
      BY <1>2, <2>5, Zenon DEF stale
    <2>6. faults' \in 0 .. MAXFAULTS /\ ("leak" \in trouble => "leak" \in trouble')
      BY <1>0, <1>5, RefusedRight
    <2>7. FilesTyped'
      BY <1>0, <1>1, <1>5, <2>1, <2>4, <2>6 DEF FilesTyped
    <2>8. Waits' /\ Mapping'
      BY <1>0, <1>1, <1>2, <1>5, <2>1, <2>5, <2>13 DEF Waits, Mapping
    <2>9. /\ fs.at \in {"connected", "written", "getc", "copy", "returned"}
          /\ tcp.at # "receive" => fs.at \in {"connected", "written"}
          /\ tcp.at = "receive" => fs.at \in {"getc", "copy", "returned"}
      BY <1>0, <1>2 DEF Waits
    <2>10. Connected'
      BY <1>0, <1>1, <1>2, <1>5, <2>5, <2>6, <2>9, <2>13 DEF Connected, Opened
    <2>11. Counted' /\ FileRead'
      BY <1>0, <1>1, <1>2, <1>5, <2>5 DEF Counted, FileRead, ReadExact, ThereIsMore
    <2>12. Account'
      <3>1. CASE tcp.at = "receive"
        <4>1. /\ Buffered' = 0 /\ Buffered = 0 /\ InFlight = 0 /\ InFlight' = 0 /\ sock'.stale
          BY <1>0, <1>1, <1>2, <1>5, <2>5, <2>13, <3>1 DEF Buffered, InFlight, Waits
        <4> QED
          BY <1>0, <1>1, <1>5, <2>5, <3>1, <4>1 DEF Account, Opened
      <3>2. CASE tcp.at # "receive"
        BY <1>1, <2>9, <3>2 DEF Account, Opened
      <3> QED
        BY <3>1, <3>2
    <2> QED
      BY <2>7, <2>8, <2>10, <2>11, <2>12 DEF FilesRight
  <1> QED
    BY <1>3, <1>4, <1>5 DEF TokenDone

\* What was received is in the buffer.
LEMMA FilledStep ==
  ASSUME FilesRight, Filled, UNCHANGED fsVars
  PROVE  FilesRight'
  <1>0. /\ FilesTyped /\ Waits /\ Connected /\ Counted /\ Account /\ FileRead
        /\ sock \in Socks /\ tcp.at = "receive" /\ cb_status # -1 /\ cb_status' = -1
        /\ token' = NoToken /\ token.len \in 0 .. DATABUF /\ peer \in Nat
    BY FilesFields DEF FilesRight, FilesTyped, Filled
  <1>1. UNCHANGED <<bindings, peer, faults, trouble>> /\ UNCHANGED <<fs, reply, got, inodes, lost>>
    BY DEF Filled, fsVars
  <1>2. /\ fs.at \in {"getc", "copy", "returned"} /\ sock.bytesleft = 0 /\ ~sock.goteof
        /\ cb_status = 0 => ~sock.stale
        /\ cb_status = 1 => sock.stale
        /\ cb_status \in {0, 1} /\ sock.filepos \in Nat /\ got.units \in Nat
    BY <1>0, FilesFields DEF Waits, FilesTyped
  <1>3. sock' = [sock EXCEPT !.filepos = sock.filepos + token.len, !.bytesleft = token.len]
    BY DEF Filled
  <1>4. sock' \in Socks
    <2>1. sock.filepos + token.len \in Nat
      BY <1>0, <1>2, TcpAssumption
    <2> QED
      BY <1>0, <1>3, <2>1, Zenon DEF Socks
  <1>5. /\ sock'.binding = sock.binding /\ sock'.goteof = sock.goteof
        /\ sock'.filepos = sock.filepos + token.len /\ sock'.bytesleft = token.len
        /\ sock'.size = sock.size /\ sock'.stale = sock.stale
    BY <1>0, <1>3 DEF Socks
  <1>6. tcp' \in Tcps /\ tcp'.at = "out"
    BY TcpReturned DEF Filled
  <1>7. token' \in Tokens /\ token'.for = "none"
    <2>1. 0 \in 0 .. DATABUF
      BY TcpAssumption
    <2> QED
      BY <1>0, <2>1 DEF NoToken, Tokens
  <1>8. FilesTyped'
    BY <1>0, <1>1, <1>4, <1>6, <1>7 DEF FilesTyped
  <1>9. Waits' /\ Mapping'
    BY <1>0, <1>6, <1>7 DEF Waits, Mapping
  <1>10. Connected'
    BY <1>0, <1>1, <1>2, <1>5 DEF Connected, Opened
  <1>11. Counted' /\ FileRead'
    BY <1>0, <1>1, <1>5 DEF Counted, FileRead, ReadExact, ThereIsMore
  <1>12. Account'
    <2>1. InFlight' = 0 /\ Buffered = 0
      BY <1>2, <1>6 DEF InFlight, Buffered
    <2>2. Buffered' = InFlight
      BY <1>0, <1>2, <1>5 DEF InFlight, Buffered
    <2>3. InFlight \in Nat /\ (~sock.stale => InFlight = token.len)
      BY <1>0, <1>2, TcpAssumption DEF InFlight
    <2> HIDE DEF InFlight, Buffered
    <2>4. CASE fs.at = "getc"
      <3>1. reply \in Replies /\ 0 + InFlight + peer = 1 + reply.sent
        BY <1>0, <2>1, <2>4 DEF Account
      <3>2. InFlight + 0 + peer = 1 + reply.sent
        BY <1>0, <2>3, <3>1
      <3> QED
        BY <1>1, <2>1, <2>2, <2>4, <3>1, <3>2 DEF Account, Opened
    <2>5. CASE Opened
      <3>1. /\ reply \in Replies /\ reply.kind = "file" /\ sock.size = reply.size
            /\ got.clean => got.units + 0 + InFlight + peer = reply.sent
            /\ got.clean /\ ~sock.stale => sock.filepos + InFlight + peer = reply.sent
        BY <1>0, <1>2, <2>1, <2>5 DEF Account
      <3>2. /\ got.clean => got.units + InFlight + 0 + peer = reply.sent
            /\ got.clean /\ ~sock.stale => (sock.filepos + token.len) + 0 + peer = reply.sent
        BY <1>0, <1>2, <2>3, <3>1
      <3>3. sock.stale => token.len > 0
        BY <1>0, <1>2, TcpAssumption DEF Waits
      <3> QED
        BY <1>1, <1>2, <1>5, <1>6, <2>1, <2>2, <2>5, <3>1, <3>2, <3>3 DEF Account, Opened
    <2> QED
      BY <1>2, <2>4, <2>5 DEF Opened
  <1> QED
    BY <1>8, <1>9, <1>10, <1>11, <1>12 DEF FilesRight

-----------------------------------------------------------------------------
\* Before a file is open, and after an attempt has failed.
LEMMA NoFile ==
  ASSUME FilesTyped', tcp'.at = "out", cb_status' = -1, token' = NoToken, Connected', Counted',
         fs'.at \in {"idle", "attempt", "tcpOpen", "tcpOpened", "fail", "failed", "notFound"},
         got' = Nothing
  PROVE  FilesRight'
  <1>1. Waits' /\ Mapping'
    BY DEF Waits, Mapping, NoToken
  <1>2. Account' /\ FileRead'
    BY DEF Account, Opened, FileRead, ReadExact
  <1> QED
    BY <1>1, <1>2 DEF FilesRight

\* The next attempt, if there is one.
LEMMA AttemptFailsRight ==
  ASSUME fs \in Files, AttemptFails
  PROVE  /\ fs' \in Files /\ fs'.at \in {"attempt", "notFound"}
         /\ fs'.at = "attempt" => fs'.redirects = 0
  <1>0. fs.retry \in 0 .. PXERetry /\ {"attempt", "notFound"} \subseteq Places
    BY DEF Files, Places
  <1>1. CASE fs.retry = 0
    <2>1. fs' = [fs EXCEPT !.at = "notFound"]
      BY <1>1 DEF AttemptFails
    <2>2. fs' \in Files
      BY <1>0, <2>1, Zenon DEF Files
    <2>3. fs'.at = "notFound"
      BY <2>1 DEF Files
    <2> QED
      BY <2>2, <2>3
  <1>2. CASE fs.retry # 0
    <2>1. fs' = [fs EXCEPT !.at = "attempt", !.retry = fs.retry - 1, !.redirects = 0]
      BY <1>2 DEF AttemptFails
    <2>2. fs.retry - 1 \in 0 .. PXERetry /\ 0 \in 0 .. MAXREDIR + 1
      BY <1>0, <1>2, PxeAssumption
    <2>3. fs' \in Files
      BY <1>0, <2>1, <2>2, Zenon DEF Files
    <2>4. fs'.at = "attempt" /\ fs'.redirects = 0
      BY <2>1 DEF Files
    <2> QED
      BY <2>3, <2>4
  <1> QED
    BY <1>1, <1>2

\* Another place, and nothing else.
LEMMA Does ==
  ASSUME fs \in Files, NEW at \in Places, Do(at)
  PROVE  fs' \in Files /\ fs'.at = at /\ fs'.redirects = fs.redirects /\ fs'.count = fs.count
         /\ fs'.more = fs.more /\ fs'.retry = fs.retry
  <1>1. fs' = [fs EXCEPT !.at = at]
    BY DEF Do
  <1>2. fs' \in Files
    BY <1>1, Zenon DEF Files
  <1> QED
    BY <1>1, <1>2 DEF Files

\* A socket that is not open.
LEMMA NoSockTyped ==
  /\ NoSock \in Socks /\ ~NoSock.binding /\ ~NoSock.goteof /\ ~NoSock.stale
  /\ NoSock.bytesleft = 0 /\ NoSock.filepos = 0
  <1>1. 0 \in 0 .. DATABUF
    BY TcpAssumption
  <1> QED
    BY <1>1 DEF NoSock, Socks

\* http_open: an inode is taken, or given back after too many redirects.
LEMMA OpenUrlStep ==
  ASSUME FilesRight, OpenUrl
  PROVE  FilesRight'
  <1>0. /\ FilesTyped /\ Waits /\ Connected /\ Counted /\ FileRead
        /\ fs \in Files /\ fs.at = "attempt" /\ tcp.at = "out" /\ sock \in Socks /\ faults \in 0 .. MAXFAULTS
        /\ inodes \in Int /\ lost \in Nat /\ fs.redirects \in 0 .. MAXREDIR + 1
        /\ UNCHANGED <<reply, got, cb_status, token, bindings, peer>>
    BY FilesFields DEF FilesRight, FilesTyped, OpenUrl, FsAt
  <1>1. cb_status = -1 /\ token = NoToken /\ got = Nothing
    BY <1>0 DEF Waits, FileRead
  <1>2. /\ inodes = lost /\ lost >= fs.redirects
        /\ sock.binding => "leak" \in trouble
        /\ sock.goteof => peer = 0 /\ ~sock.binding /\ sock.bytesleft = 0
        /\ "leak" \notin trouble => bindings = IF sock.binding THEN 1 ELSE 0
    BY <1>0 DEF Counted, Connected
  <1>3. CASE TooManyRedirects(fs.redirects)
    <2>1. AttemptFails /\ inodes' = inodes - 1 /\ lost' = lost - 1 /\ UNCHANGED <<tcp, sock, faults, trouble>>
      BY <1>3 DEF OpenUrl
    <2>2. lost' \in Nat /\ inodes' \in Int /\ inodes' = lost'
      BY <1>0, <1>2, <1>3, <2>1, PxeAssumption DEF TooManyRedirects
    <2>3. /\ fs' \in Files /\ fs'.at \in {"attempt", "notFound"}
          /\ fs'.at = "attempt" => fs'.redirects = 0
      BY <1>0, <2>1, AttemptFailsRight
    <2>4. FilesTyped'
      BY <1>0, <2>1, <2>2, <2>3 DEF FilesTyped
    <2>5. Connected'
      BY <1>0, <1>2, <2>1, <2>3 DEF Connected, Opened
    <2>6. Counted'
      <3>1. lost' >= 0
        BY <2>2
      <3>2. fs'.at = "attempt" => lost' >= fs'.redirects
        BY <2>3, <3>1
      <3> QED
        BY <2>2, <2>3, <3>2 DEF Counted
    <2> QED
      BY <1>0, <1>1, <2>1, <2>3, <2>4, <2>5, <2>6, NoFile
  <1>4. CASE ~TooManyRedirects(fs.redirects) /\ Refused("refused") /\ AttemptFails
             /\ UNCHANGED <<tcp, sock, inodes, lost>>
    <2>1. /\ fs' \in Files /\ fs'.at \in {"attempt", "notFound"}
          /\ fs'.at = "attempt" => fs'.redirects = 0
      BY <1>0, <1>4, AttemptFailsRight
    <2>2. faults' \in 0 .. MAXFAULTS /\ ("leak" \in trouble => "leak" \in trouble')
      BY <1>0, <1>4, RefusedRight
    <2>3. FilesTyped'
      BY <1>0, <1>4, <2>1, <2>2 DEF FilesTyped
    <2>4. Connected'
      BY <1>0, <1>2, <1>4, <2>1, <2>2 DEF Connected, Opened
    <2>5. Counted'
      BY <1>0, <1>2, <1>4, <2>1 DEF Counted
    <2> QED
      BY <1>0, <1>1, <1>4, <2>1, <2>3, <2>4, <2>5, NoFile
  <1>5. CASE /\ ~TooManyRedirects(fs.redirects)
             /\ inodes' = inodes + 1
             /\ sock' = NoSock
             /\ fs' = [fs EXCEPT !.at = "tcpOpen", !.redirects = @ + 1]
             /\ UNCHANGED <<lost, tcp, faults, trouble>>
    <2>1. fs.redirects + 1 \in 0 .. MAXREDIR + 1
      BY <1>0, <1>5, PxeAssumption DEF TooManyRedirects
    <2>2. fs' \in Files
      <3>1. "tcpOpen" \in Places
        BY DEF Places
      <3> QED
        BY <1>0, <1>5, <2>1, <3>1, Zenon DEF Files
    <2>3. fs'.at = "tcpOpen" /\ fs'.redirects = fs.redirects + 1
      BY <1>0, <1>5 DEF Files
    <2>4. FilesTyped'
      BY <1>0, <1>5, <2>2, NoSockTyped DEF FilesTyped
    <2>5. Connected'
      BY <1>0, <1>2, <1>5, <2>3, NoSockTyped DEF Connected, Opened
    <2>6. Counted'
      BY <1>0, <1>2, <1>5, <2>3 DEF Counted
    <2> QED
      BY <1>0, <1>1, <1>5, <2>3, <2>4, <2>5, <2>6, NoFile
  <1> QED
    BY <1>3, <1>4, <1>5 DEF OpenUrl

\* The connection is opened, connected and written to, or http_open fails.
LEMMA HttpConnectsStep ==
  ASSUME FilesRight, HttpConnects
  PROVE  FilesRight'
  <1>0. /\ FilesTyped /\ Waits /\ Connected /\ Counted /\ FileRead
        /\ fs \in Files /\ tcp.at = "out" /\ sock \in Socks /\ faults \in 0 .. MAXFAULTS
        /\ tcp \in Tcps /\ token \in Tokens /\ bindings \in Int
        /\ UNCHANGED <<reply, got, inodes, lost>>
    BY DEF FilesRight, FilesTyped, HttpConnects, FsAt
  <1>1. cb_status = -1 /\ token = NoToken /\ token.for = "none"
    BY <1>0 DEF Waits, NoToken
  <1>2. /\ fs.at \in {"tcpOpen", "tcpOpened", "connected"}
        /\ got = Nothing /\ ~sock.goteof /\ ~sock.stale /\ sock.bytesleft = 0
    BY <1>0 DEF FileRead, Connected, HttpConnects, FsAt
  <1>3. CASE FsAt("tcpOpen") /\ TcpOpen /\ Do("tcpOpened")
    <2>1. fs' \in Files /\ fs'.at = "tcpOpened" /\ fs'.redirects = fs.redirects
      <3>1. "tcpOpened" \in Places
        BY DEF Places
      <3> QED
        BY <1>0, <1>3, <3>1, Does
    <2>2. fs.at = "tcpOpen" /\ UNCHANGED <<cb_status, token, peer>>
      BY <1>3 DEF FsAt, TcpOpen
    <2>3. CASE /\ sock' = [sock EXCEPT !.binding = TRUE]
               /\ bindings' = bindings + 1
               /\ Returned(0) /\ Granted
      <3>1. sock' \in Socks
        BY <1>0, <2>3, Zenon DEF Socks
      <3>2. sock'.binding /\ sock'.goteof = sock.goteof /\ sock'.stale = sock.stale
            /\ sock'.bytesleft = sock.bytesleft
        BY <1>0, <2>3 DEF Socks
      <3>3. tcp' \in Tcps /\ tcp'.at = "out"
        BY <2>3, TcpReturned
      <3>4. FilesTyped'
        BY <1>0, <2>1, <2>2, <2>3, <3>1, <3>3 DEF FilesTyped, Granted
      <3>5. Connected'
        BY <1>0, <1>2, <2>1, <2>2, <2>3, <3>2 DEF Connected, Opened, Granted
      <3>6. Counted'
        BY <1>0, <2>1, <2>2 DEF Counted
      <3> QED
        BY <1>0, <1>1, <1>2, <2>1, <2>2, <3>3, <3>4, <3>5, <3>6, NoFile
    <2>4. CASE Refused("refused") /\ Returned(-1) /\ UNCHANGED <<sock, bindings>>
      <3>1. tcp' \in Tcps /\ tcp'.at = "out" /\ tcp'.rv = -1
        BY <2>4, TcpReturned
      <3>2. faults' \in 0 .. MAXFAULTS /\ ("leak" \in trouble => "leak" \in trouble')
        BY <1>0, <2>4, RefusedRight
      <3>3. FilesTyped'
        BY <1>0, <2>1, <2>2, <2>4, <3>1, <3>2 DEF FilesTyped
      <3>4. Connected'
        BY <1>0, <1>2, <2>1, <2>2, <2>4, <3>1, <3>2 DEF Connected, Opened
      <3>5. Counted'
        BY <1>0, <2>1, <2>2 DEF Counted
      <3> QED
        BY <1>0, <1>1, <1>2, <2>1, <2>2, <3>1, <3>3, <3>4, <3>5, NoFile
    <2> QED
      BY <1>3, <2>3, <2>4 DEF TcpOpen
  \* The connection waits for an address, or for the request to be sent.
  <1>4. ASSUME fs' \in Files, fs'.at \in {"connected", "written"}, fs'.redirects = fs.redirects,
               sock.binding, UNCHANGED <<cb_status, sock, bindings, peer>>,
               tcp' \in Tcps, token' \in Tokens, faults' \in 0 .. MAXFAULTS,
               "leak" \in trouble => "leak" \in trouble',
               \/ tcp'.at = "out" /\ token' = NoToken
               \/ tcp'.at = "configure" /\ tcp'.cur = 0 /\ fs'.at = "connected" /\ token' = NoToken
               \/ /\ tcp'.at = "transmit" /\ fs'.at = "written"
                  /\ token'.for = "transmit" /\ token'.len = DATABUF
        PROVE  FilesRight'
    <2>1. FilesTyped'
      BY <1>0, <1>4 DEF FilesTyped
    <2>2. Waits'
      <3>1. token' = NoToken => token'.for = "none"
        BY DEF NoToken
      <3> QED
        BY <1>1, <1>4, <3>1 DEF Waits
    <2>3. Mapping'
      <3>1. NOMAP_PRINT_DELAY * NOMAP_PRINT_COUNT \in Nat
        BY TcpAssumption
      <3> QED
        BY <1>4, <3>1 DEF Mapping
    <2>4. Connected'
      BY <1>0, <1>2, <1>4 DEF Connected, Opened
    <2>5. Counted'
      BY <1>0, <1>2, <1>4 DEF Counted
    <2>6. Account' /\ FileRead'
      BY <1>0, <1>2, <1>4 DEF Account, Opened, FileRead, ReadExact
    <2> QED
      BY <2>1, <2>2, <2>3, <2>4, <2>5, <2>6 DEF FilesRight
  <1>5. CASE FsAt("tcpOpened") /\ tcp.rv = 0 /\ TcpConnect /\ Do("connected")
    <2>1. fs' \in Files /\ fs'.at = "connected" /\ fs'.redirects = fs.redirects
      <3>1. "connected" \in Places
        BY DEF Places
      <3> QED
        BY <1>0, <1>5, <3>1, Does
    <2>2. tcp' \in Tcps /\ tcp'.at = "configure" /\ tcp'.cur = 0
      <3>1. NOMAP_PRINT_DELAY * NOMAP_PRINT_COUNT \in Nat
        BY TcpAssumption
      <3>2. 0 \in 0 .. NOMAP_PRINT_DELAY * NOMAP_PRINT_COUNT + 2
        BY <3>1
      <3> QED
        BY <1>5, <3>2 DEF TcpConnect, Tcps
    <2>3. sock.binding
      BY <1>0, <1>5 DEF Connected, FsAt
    <2> QED
      BY <1>0, <1>1, <1>4, <1>5, <2>1, <2>2, <2>3 DEF TcpConnect
  <1>6. CASE FsAt("connected") /\ tcp.rv = 0 /\ TcpWrite /\ Do("written")
    <2>1. fs' \in Files /\ fs'.at = "written" /\ fs'.redirects = fs.redirects
      <3>1. "written" \in Places
        BY DEF Places
      <3> QED
        BY <1>0, <1>6, <3>1, Does
    <2>2. sock.binding
      BY <1>0, <1>6 DEF Connected, FsAt
    <2>3. UNCHANGED <<cb_status, sock, bindings, peer>>
      BY <1>6 DEF TcpWrite
    <2>4. CASE Issue("transmit") /\ Granted
      BY <1>0, <1>4, <2>1, <2>2, <2>3, <2>4, Issued DEF Granted
    <2>5. CASE Refused("refused") /\ Returned(-1) /\ UNCHANGED token
      BY <1>0, <1>1, <1>4, <2>1, <2>2, <2>3, <2>5, RefusedRight, TcpReturned
    <2> QED
      BY <1>6, <2>2, <2>4, <2>5 DEF TcpWrite, Use
  <1> QED
    BY <1>3, <1>5, <1>6 DEF HttpConnects

\* What a server may answer.
LEMMA RepliesTyped ==
  ASSUME NEW r \in Replies
  PROVE  /\ r.len \in Nat /\ r.sent \in Nat /\ r.sent <= r.len
         /\ r.kind = "file" => r.size \in Int /\ (r.size = -1 \/ r.size = r.len) /\ r.len > 0
  <1>1. r.len \in Nat /\ r.sent \in 0 .. r.len /\ (r.kind = "file" => r.len > 0 /\ r.size \in {-1, r.len})
    BY PxeAssumption
  <1>2. \A n \in Nat : \A k \in 0 .. n : k \in Nat /\ k <= n
    OBVIOUS
  <1>3. r.kind = "file" => r.size = -1 \/ r.size = r.len
    BY <1>1
  <1> QED
    BY <1>1, <1>2, <1>3

\* The server has the request, and its reply is on its way.
LEMMA ServerRepliesStep ==
  ASSUME FilesRight, ServerReplies
  PROVE  FilesRight'
  <1>0. /\ FilesTyped /\ Waits /\ Connected /\ Counted /\ FileRead
        /\ fs \in Files /\ fs.at = "written" /\ tcp.at = "out" /\ faults \in 0 .. MAXFAULTS
        /\ UNCHANGED <<got, inodes, lost, cb_status, token, tcp, sock, bindings>>
    BY DEF FilesRight, FilesTyped, ServerReplies, FsAt
  <1>1. PICK r \in Replies :
          /\ reply' = r /\ peer' = 1 + r.sent
          /\ CASE r.kind = "redirect" -> Refused("redirect")
               [] r.sent < r.len       -> Refused("truncated")
               [] OTHER                -> Granted
    BY DEF ServerReplies
  <1>2. r.sent \in Nat
    BY RepliesTyped
  <1>3. Refused("redirect") \/ Refused("truncated") \/ Granted
    BY <1>1
  <1>4. faults' \in 0 .. MAXFAULTS /\ ("leak" \in trouble => "leak" \in trouble')
    BY <1>0, <1>3, RefusedRight DEF Granted
  <1>5. fs' \in Files /\ fs'.at = "getc" /\ fs'.redirects = fs.redirects
    <2>1. "getc" \in Places
      BY DEF Places
    <2> QED
      BY <1>0, <2>1, Does DEF ServerReplies
  <1>6. peer' \in Nat
    BY <1>1, <1>2
  <1>7. FilesTyped'
    BY <1>0, <1>1, <1>4, <1>5, <1>6 DEF FilesTyped
  <1>8. Waits' /\ Mapping'
    BY <1>0 DEF Waits, Mapping
  <1>9. sock.binding /\ ~sock.goteof /\ ~sock.stale /\ sock.bytesleft = 0 /\ sock.binding \in BOOLEAN
        /\ sock.goteof \in BOOLEAN
    BY <1>0, FilesFields DEF Connected
  <1>10. Connected'
    BY <1>0, <1>4, <1>5, <1>9 DEF Connected, Opened
  <1>11. Counted'
    BY <1>0, <1>5 DEF Counted
  <1>12. Account'
    BY <1>0, <1>1, <1>2, <1>5, <1>9 DEF Account, Opened, Buffered, InFlight
  <1>13. FileRead'
    BY <1>0, <1>5 DEF FileRead, ReadExact
  <1> QED
    BY <1>7, <1>8, <1>10, <1>11, <1>12, <1>13 DEF FilesRight

\* The header has come, and the file is open; or there is none.
LEMMA GetcStep ==
  ASSUME FilesRight, Getc
  PROVE  FilesRight'
  <1>0. /\ FilesTyped /\ Waits /\ Connected /\ Counted /\ Account /\ FileRead
        /\ fs \in Files /\ fs.at = "getc" /\ tcp.at = "out" /\ sock \in Socks
        /\ sock.bytesleft \in 0 .. DATABUF /\ sock.bytesleft > 0 /\ peer \in Nat
        /\ UNCHANGED <<reply, got, inodes, lost, cb_status, token, tcp, bindings, peer, faults, trouble>>
    BY FilesFields DEF FilesRight, FilesTyped, Getc, FsAt
  <1>1. /\ cb_status = -1 /\ token = NoToken /\ got = Nothing /\ reply \in Replies
        /\ ~sock.goteof /\ sock.binding
    BY <1>0, FilesFields DEF Waits, FileRead, Account, Connected
  <1> DEFINE left == sock.bytesleft - 1
  <1>2. left \in 0 .. DATABUF /\ left \in Nat /\ left + 1 = sock.bytesleft
    BY <1>0, TcpAssumption
  <1>3. CASE reply.kind = "file" /\ ~sock.stale
    <2>1. sock' = [sock EXCEPT !.bytesleft = left, !.size = reply.size, !.filepos = left]
      <3>1. sock' = [[sock EXCEPT !.bytesleft = left] EXCEPT !.size = reply.size,
                                  !.filepos = [sock EXCEPT !.bytesleft = left].bytesleft]
        BY <1>3 DEF Getc
      <3>2. [sock EXCEPT !.bytesleft = left].bytesleft = left
        BY <1>0 DEF Socks
      <3> HIDE DEF left
      <3> QED
        BY <3>1, <3>2
    <2>2. reply.size \in Int /\ reply.sent \in Nat
      BY <1>1, <1>3, RepliesTyped
    <2> HIDE DEF left
    <2>3. sock' \in Socks
      BY <1>0, <1>2, <2>1, <2>2, Zenon DEF Socks
    <2>4. /\ sock'.binding = sock.binding /\ sock'.goteof = sock.goteof /\ sock'.stale = sock.stale
          /\ sock'.bytesleft = left /\ sock'.filepos = left /\ sock'.size = reply.size
      BY <1>0, <2>1 DEF Socks
    <2>5. fs' \in Files /\ fs'.at = "opened" /\ fs'.redirects = fs.redirects
      <3>1. "opened" \in Places
        BY DEF Places
      <3>2. Do("opened")
        BY <1>3 DEF Getc
      <3> QED
        BY <1>0, <3>1, <3>2, Does
    <2>6. FilesTyped' /\ Waits' /\ Mapping'
      BY <1>0, <2>3, <2>5 DEF FilesTyped, Waits, Mapping
    <2>7. Connected'
      BY <1>0, <1>1, <2>4, <2>5 DEF Connected, Opened
    <2>8. Counted'
      BY <1>0, <2>5 DEF Counted
    <2>9. sock.bytesleft + 0 + peer = 1 + reply.sent
      BY <1>0, <1>3 DEF Account, Buffered, InFlight
    <2>10. 0 + left + 0 + peer = reply.sent /\ left + 0 + peer = reply.sent
      BY <1>0, <1>2, <2>2, <2>9
    <2>11. Account'
      BY <1>0, <1>1, <1>3, <2>4, <2>5, <2>10 DEF Account, Opened, Buffered, InFlight, Nothing
    <2>12. FileRead'
      BY <1>0, <1>1, <2>2, <2>5 DEF FileRead, ReadExact, Nothing
    <2> QED
      BY <2>6, <2>7, <2>8, <2>11, <2>12 DEF FilesRight
  <1>4. CASE ~(reply.kind = "file" /\ ~sock.stale)
    <2>1. sock' = [sock EXCEPT !.bytesleft = left]
      BY <1>4 DEF Getc
    <2> HIDE DEF left
    <2>2. sock' \in Socks
      BY <1>0, <1>2, <2>1, Zenon DEF Socks
    <2>3. /\ sock'.binding = sock.binding /\ sock'.goteof = sock.goteof
      BY <1>0, <2>1 DEF Socks
    <2>4. fs' \in Files /\ fs'.at = "fail" /\ fs'.redirects = fs.redirects
      <3>1. "fail" \in Places
        BY DEF Places
      <3>2. Do("fail")
        BY <1>4 DEF Getc
      <3> QED
        BY <1>0, <3>1, <3>2, Does
    <2>5. FilesTyped'
      BY <1>0, <2>2, <2>4 DEF FilesTyped
    <2>6. Connected'
      BY <1>0, <1>1, <2>3, <2>4 DEF Connected, Opened
    <2>7. Counted'
      BY <1>0, <2>4 DEF Counted
    <2> QED
      BY <1>0, <1>1, <2>4, <2>5, <2>6, <2>7, NoFile
  <1> QED
    BY <1>3, <1>4

\* The error path of http_open closes the connection that there is.
LEMMA HttpFailsStep ==
  ASSUME FilesRight, HttpFails
  PROVE  FilesRight'
  <1>0. /\ FilesTyped /\ Waits /\ Connected /\ Counted /\ FileRead
        /\ fs \in Files /\ tcp.at = "out" /\ UNCHANGED <<reply, got, inodes, lost>>
        /\ fs.at \in {"fail", "getc", "tcpOpened", "connected", "written"}
        /\ sock.binding \in BOOLEAN /\ sock.goteof \in BOOLEAN /\ bindings \in Int /\ sock \in Socks
    BY FilesFields DEF FilesRight, FilesTyped, HttpFails, FsAt
  <1>1. cb_status = -1 /\ token = NoToken /\ got = Nothing
    BY <1>0 DEF Waits, FileRead
  <1>2. fs' \in Files /\ fs'.at = "failed" /\ fs'.redirects = fs.redirects
    <2>1. "failed" \in Places
      BY DEF Places
    <2> QED
      BY <1>0, <2>1, Does DEF HttpFails
  <1>3. /\ cb_status' = -1 /\ token' = NoToken /\ tcp' \in Tcps /\ tcp'.at = "out" /\ sock' \in Socks
        /\ bindings' \in Int /\ peer' = peer /\ faults' \in 0 .. MAXFAULTS
        /\ sock'.goteof = sock.goteof /\ sock'.bytesleft = sock.bytesleft
        /\ sock'.binding => "leak" \in trouble'
        /\ "leak" \notin trouble' => bindings' = IF sock'.binding THEN 1 ELSE 0
        /\ sock'.goteof => ~sock'.binding
    <2>1. CASE sock.binding
      <3>1. TcpClose /\ ~sock.goteof
        BY <1>0, <2>1 DEF HttpFails, Connected
      <3>2. /\ cb_status' = -1 /\ token' = NoToken /\ tcp' \in Tcps /\ tcp'.at = "out" /\ sock' \in Socks
            /\ bindings' \in Int /\ peer' = peer /\ faults' \in 0 .. MAXFAULTS
            /\ "leak" \in trouble => "leak" \in trouble'
            /\ \/ ~sock'.binding /\ bindings' = bindings - 1
               \/ "leak" \in trouble' /\ sock' = sock
            /\ sock'.goteof = sock.goteof /\ sock'.bytesleft = sock.bytesleft
        BY <1>0, <2>1, <3>1, TcpCloseRight
      <3>3. "leak" \notin trouble' => bindings' = IF sock'.binding THEN 1 ELSE 0
        BY <1>0, <2>1, <3>2 DEF Connected
      <3> QED
        BY <3>1, <3>2, <3>3
    <2>2. CASE ~sock.binding
      <3>1. UNCHANGED <<cb_status, token, tcp, sock, bindings, peer, faults, trouble>>
        BY <2>2 DEF HttpFails, tcpVars
      <3> QED
        BY <1>0, <1>1, <2>2, <3>1 DEF FilesTyped, Connected
    <2> QED
      BY <1>0, <2>1, <2>2
  <1>4. FilesTyped'
    <2>1. token' \in Tokens
      <3>1. 0 \in 0 .. DATABUF
        BY TcpAssumption
      <3> QED
        BY <1>3, <3>1 DEF NoToken, Tokens
    <2> QED
      BY <1>0, <1>2, <1>3, <2>1 DEF FilesTyped
  <1>5. Connected'
    BY <1>0, <1>2, <1>3 DEF Connected, Opened
  <1>6. Counted'
    BY <1>0, <1>2 DEF Counted
  <1> QED
    BY <1>0, <1>1, <1>2, <1>3, <1>4, <1>5, <1>6, NoFile

\* After a failure a redirect is followed, or the inode is given back.
LEMMA AfterFailure ==
  ASSUME FilesRight, Redirected \/ NotFound
  PROVE  FilesRight'
  <1>0. /\ FilesTyped /\ Waits /\ Connected /\ Counted /\ FileRead
        /\ fs \in Files /\ fs.at = "failed" /\ tcp.at = "out" /\ fs.redirects \in 0 .. MAXREDIR + 1
        /\ UNCHANGED <<got, cb_status, token, tcp, sock, bindings, faults, trouble>>
        /\ reply' = NoReply /\ peer' = 0 /\ inodes \in Int /\ lost \in Nat
    BY FilesFields DEF FilesRight, FilesTyped, Redirected, NotFound, FsAt
  <1>1. /\ cb_status = -1 /\ token = NoToken /\ got = Nothing
        /\ inodes = lost + 1 /\ lost >= fs.redirects - 1
    BY <1>0 DEF Waits, FileRead, Counted
  <1>2. /\ fs' \in Files /\ fs'.at \in {"attempt", "notFound"} /\ inodes' = lost' /\ lost' \in Nat
        /\ fs'.at = "attempt" => lost' >= fs'.redirects
    <2>1. CASE Redirected
      <3>1. Do("attempt") /\ lost' = lost + 1 /\ inodes' = inodes /\ "attempt" \in Places
        BY <2>1 DEF Redirected, Places
      <3>2. fs' \in Files /\ fs'.at = "attempt" /\ fs'.redirects = fs.redirects
        BY <1>0, <3>1, Does
      <3>3. lost + 1 >= fs.redirects
        BY <1>0, <1>1, PxeAssumption
      <3> QED
        BY <1>0, <1>1, <3>1, <3>2, <3>3
    <2>2. CASE NotFound
      <3>1. AttemptFails /\ lost' = lost /\ inodes' = inodes - 1
        BY <2>2 DEF NotFound
      <3>2. /\ fs' \in Files /\ fs'.at \in {"attempt", "notFound"}
            /\ fs'.at = "attempt" => fs'.redirects = 0
        BY <1>0, <3>1, AttemptFailsRight
      <3> QED
        BY <1>0, <1>1, <3>1, <3>2
    <2> QED
      BY <2>1, <2>2
  <1>3. FilesTyped'
    BY <1>0, <1>2 DEF FilesTyped
  <1>4. Connected'
    BY <1>0, <1>2 DEF Connected, Opened
  <1>5. Counted'
    BY <1>2 DEF Counted
  <1> QED
    BY <1>0, <1>1, <1>2, <1>3, <1>4, <1>5, NoFile

\* What is copied is no longer in the buffer.
LEMMA CopyStep ==
  ASSUME FilesRight, Copy
  PROVE  FilesRight'
  <1>0. /\ FilesTyped /\ Waits /\ Connected /\ Counted /\ Account /\ FileRead
        /\ fs \in Files /\ fs.at \in {"copy", "chunk"} /\ tcp.at = "out" /\ sock \in Socks
        /\ sock.bytesleft \in 0 .. DATABUF /\ fs.count \in 0 .. BLOCK * BLOCKS /\ peer \in Nat
        /\ got.units \in Nat /\ got.clean \in BOOLEAN /\ sock.stale \in BOOLEAN
        /\ sock.binding \in BOOLEAN /\ sock.goteof \in BOOLEAN /\ Opened
        /\ UNCHANGED <<reply, inodes, lost, cb_status, token, tcp, bindings, peer, faults, trouble>>
    BY FilesFields DEF FilesRight, FilesTyped, Copy, FsAt, Opened
  <1>1. cb_status = -1 /\ token = NoToken /\ fs.count > 0
    BY <1>0 DEF Waits, FileRead, Copy, FsAt
  <1> DEFINE chunk == IF fs.count < sock.bytesleft THEN fs.count ELSE sock.bytesleft
             at == IF sock.bytesleft = 0 THEN "more" ELSE "chunk"
             clean == got.clean /\ (chunk = 0 \/ ~sock.stale)
             left == sock.bytesleft - chunk
  <1>2. /\ sock' = [sock EXCEPT !.bytesleft = left]
        /\ got' = [units |-> got.units + chunk, clean |-> clean]
        /\ fs' = [fs EXCEPT !.count = fs.count - chunk, !.at = at]
    BY DEF Copy
  <1>3. sock.bytesleft \in Nat /\ fs.count \in Nat /\ BLOCK * BLOCKS \in Nat /\ DATABUF \in Nat
    <2>1. BLOCK * BLOCKS \in Nat /\ DATABUF \in Nat
      BY PxeAssumption, TcpAssumption
    <2> QED
      BY <1>0, <2>1
  <1>4. /\ chunk \in Nat /\ left \in 0 .. DATABUF /\ left \in Nat /\ left + chunk = sock.bytesleft
        /\ fs.count - chunk \in 0 .. BLOCK * BLOCKS
        /\ sock.bytesleft > 0 => chunk > 0
        /\ sock.bytesleft = 0 => left = 0
    <2> DEFINE limit == BLOCK * BLOCKS
    <2>1. fs.count \in 0 .. limit /\ limit \in Nat
      BY <1>0, <1>3
    <2> HIDE DEF limit
    <2>2. CASE fs.count < sock.bytesleft
      BY <1>0, <1>1, <1>3, <2>1, <2>2 DEF limit
    <2>3. CASE ~(fs.count < sock.bytesleft)
      BY <1>0, <1>1, <1>3, <2>1, <2>3 DEF limit
    <2> QED
      BY <2>2, <2>3
  <1>5. clean \in BOOLEAN /\ at \in {"more", "chunk"} /\ at \in Places
    BY DEF Places
  \* What is copied of a buffer with garbage is not clean.
  <1>6. clean => got.clean /\ ~sock.stale
    BY <1>0, <1>4 DEF Account
  <1> HIDE DEF chunk, at, clean, left
  <1>7. sock' \in Socks
    BY <1>0, <1>2, <1>4, Zenon DEF Socks
  <1>8. /\ sock'.binding = sock.binding /\ sock'.goteof = sock.goteof /\ sock'.stale = sock.stale
        /\ sock'.bytesleft = left /\ sock'.filepos = sock.filepos /\ sock'.size = sock.size
    BY <1>0, <1>2 DEF Socks
  <1>9. fs' \in Files
    BY <1>0, <1>2, <1>4, <1>5, Zenon DEF Files
  <1>10. fs'.at = at /\ fs'.redirects = fs.redirects
    BY <1>0, <1>2 DEF Files
  <1>11. got' \in [units : Nat, clean : BOOLEAN] /\ got'.units = got.units + chunk /\ got'.clean = clean
    <2>1. got.units + chunk \in Nat
      BY <1>0, <1>4
    <2> QED
      BY <1>2, <1>5, <2>1
  <1>12. FilesTyped' /\ Waits' /\ Mapping'
    BY <1>0, <1>1, <1>7, <1>9, <1>11 DEF FilesTyped, Waits, Mapping
  <1>13. Connected'
    BY <1>0, <1>4, <1>5, <1>8, <1>10 DEF Connected, Opened
  <1>14. Counted'
    BY <1>0, <1>5, <1>10 DEF Counted
  <1>15. /\ reply \in Replies /\ reply.kind = "file"
         /\ sock.size = reply.size \/ (reply.size = -1 /\ sock.goteof)
         /\ clean => got.units + sock.bytesleft + 0 + peer = reply.sent
         /\ clean => sock.filepos + 0 + peer = reply.sent
    BY <1>0, <1>6 DEF Account, Buffered, InFlight
  <1>16. clean => (got.units + chunk) + left + 0 + peer = reply.sent
    <2>1. got.units + sock.bytesleft + 0 + peer = (got.units + chunk) + left + 0 + peer
      BY <1>0, <1>3, <1>4
    <2> QED
      BY <1>15, <2>1
  <1>17. Account'
    BY <1>0, <1>5, <1>6, <1>8, <1>10, <1>11, <1>15, <1>16 DEF Account, Opened, Buffered, InFlight
  <1>18. FileRead'
    <2>1. clean => got.units + chunk <= reply.sent
      <3>1. reply.sent \in Nat
        BY <1>15, RepliesTyped
      <3> QED
        BY <1>0, <1>4, <1>16, <3>1
    <2> QED
      BY <1>0, <1>5, <1>10, <1>11, <2>1 DEF FileRead, ReadExact
  <1> QED
    BY <1>12, <1>13, <1>14, <1>17, <1>18 DEF FilesRight

\* A file is closed when all of it was read.
LEMMA CloseFileStep ==
  ASSUME FilesRight, CloseFile
  PROVE  FilesRight'
  <1>0. /\ FilesTyped /\ Waits /\ Connected /\ Counted /\ Account /\ FileRead
        /\ fs \in Files /\ fs.at = "returned" /\ ~fs.more /\ tcp.at = "out" /\ sock \in Socks
        /\ sock.bytesleft \in 0 .. DATABUF /\ peer \in Nat /\ sock.filepos \in Nat /\ sock.size \in Int
        /\ got.units \in Nat /\ got.clean \in BOOLEAN /\ sock.stale \in BOOLEAN
        /\ sock.binding \in BOOLEAN /\ sock.goteof \in BOOLEAN /\ Opened /\ bindings \in Int
        /\ inodes \in Int /\ lost \in Nat
        /\ fs' = [fs EXCEPT !.at = "closed"] /\ inodes' = inodes - 1 /\ UNCHANGED <<reply, got, lost>>
    BY FilesFields DEF FilesRight, FilesTyped, CloseFile, FsAt, Opened
  <1>1. /\ cb_status = -1 /\ token = NoToken /\ inodes = lost + 1 /\ sock.binding = ~sock.goteof
        /\ ~ThereIsMore(sock)
    BY <1>0 DEF Waits, FileRead, Counted, Connected
  <1>2. sock.bytesleft = 0 /\ sock.size # -1 /\ sock.size <= sock.filepos
    <2>1. ~(sock.bytesleft > 0) /\ sock.size # -1 /\ ~(sock.filepos < sock.size)
      BY <1>1 DEF ThereIsMore
    <2>2. sock.bytesleft \in Nat
      BY <1>0, TcpAssumption
    <2> QED
      BY <1>0, <2>1, <2>2
  <1>3. reply \in Replies /\ reply.kind = "file"
    BY <1>0 DEF Account
  <1>4. /\ reply.len \in Nat /\ reply.sent \in Nat /\ reply.sent <= reply.len
        /\ reply.size \in Int /\ (reply.size = -1 \/ reply.size = reply.len)
    BY <1>3, RepliesTyped
  <1>5. got.clean => got.units = IF reply.size = -1 THEN reply.sent ELSE reply.len
    <2> SUFFICES ASSUME got.clean
                 PROVE  got.units = IF reply.size = -1 THEN reply.sent ELSE reply.len
      OBVIOUS
    <2>1. ~sock.stale
      BY <1>0, <1>2 DEF Account
    <2>2. got.units + 0 + 0 + peer = reply.sent /\ sock.filepos + 0 + peer = reply.sent
      BY <1>0, <1>2, <2>1 DEF Account, Buffered, InFlight
    <2>3. sock.size = reply.size \/ (reply.size = -1 /\ sock.goteof)
      BY <1>0 DEF Account
    <2>4. CASE reply.size = -1
      <3>1. peer = 0
        BY <1>0, <1>2, <2>3, <2>4 DEF Connected
      <3> QED
        BY <1>0, <1>4, <2>2, <2>4, <3>1
    <2>5. CASE reply.size # -1
      <3>1. reply.len <= sock.filepos
        BY <1>2, <1>4, <2>3, <2>5
      <3> QED
        BY <1>0, <1>4, <2>2, <2>5, <3>1
    <2> QED
      BY <2>4, <2>5
  <1>6. got.clean => got.units <= reply.sent
    BY <1>0 DEF FileRead, ReadExact
  <1>7. fs' \in Files /\ fs'.at = "closed"
    <2>1. "closed" \in Places
      BY DEF Places
    <2>2. fs' \in Files
      BY <1>0, <2>1, Zenon DEF Files
    <2> QED
      BY <1>0, <2>2 DEF Files
  <1>8. /\ cb_status' = -1 /\ token' = NoToken /\ tcp' \in Tcps /\ tcp'.at = "out" /\ sock' \in Socks
        /\ bindings' \in Int /\ peer' = peer /\ faults' \in 0 .. MAXFAULTS
        /\ sock'.goteof = sock.goteof /\ sock'.bytesleft = sock.bytesleft
        /\ sock'.binding => "leak" \in trouble'
        /\ "leak" \notin trouble' => bindings' = IF sock'.binding THEN 1 ELSE 0
        /\ sock'.goteof => ~sock'.binding /\ peer = 0
    <2>1. CASE sock.binding
      <3>1. TcpClose /\ ~sock.goteof
        BY <1>0, <1>1, <2>1 DEF CloseFile, MustClose
      <3>2. /\ cb_status' = -1 /\ token' = NoToken /\ tcp' \in Tcps /\ tcp'.at = "out" /\ sock' \in Socks
            /\ bindings' \in Int /\ peer' = peer /\ faults' \in 0 .. MAXFAULTS
            /\ "leak" \in trouble => "leak" \in trouble'
            /\ \/ ~sock'.binding /\ bindings' = bindings - 1
               \/ "leak" \in trouble' /\ sock' = sock
            /\ sock'.goteof = sock.goteof /\ sock'.bytesleft = sock.bytesleft
        BY <1>0, <2>1, <3>1, TcpCloseRight
      <3>3. "leak" \notin trouble' => bindings' = IF sock'.binding THEN 1 ELSE 0
        BY <1>0, <2>1, <3>2 DEF Connected
      <3> QED
        BY <3>1, <3>2, <3>3
    <2>2. CASE ~sock.binding
      <3>1. UNCHANGED <<cb_status, token, tcp, sock, bindings, peer, faults, trouble>>
        BY <1>0, <1>1, <2>2 DEF CloseFile, MustClose, tcpVars
      <3> QED
        BY <1>0, <1>1, <2>2, <3>1 DEF FilesTyped, Connected
    <2> QED
      BY <1>0, <2>1, <2>2
  <1>9. FilesTyped'
    <2>1. token' \in Tokens
      <3>1. 0 \in 0 .. DATABUF
        BY TcpAssumption
      <3> QED
        BY <1>8, <3>1 DEF NoToken, Tokens
    <2> QED
      BY <1>0, <1>7, <1>8, <2>1 DEF FilesTyped
  <1>10. Waits' /\ Mapping'
    BY <1>8 DEF Waits, Mapping, NoToken
  <1>11. Connected'
    BY <1>2, <1>7, <1>8 DEF Connected, Opened
  <1>12. Counted'
    BY <1>0, <1>1, <1>7 DEF Counted
  <1>13. Account'
    BY <1>0, <1>3, <1>7 DEF Account, Opened
  <1>14. FileRead'
    BY <1>0, <1>5, <1>6, <1>7 DEF FileRead, ReadExact
  <1> QED
    BY <1>9, <1>10, <1>11, <1>12, <1>13, <1>14 DEF FilesRight

\* Every step of the file system keeps the invariant.
LEMMA StepFiles ==
  ASSUME FilesRight, FsStep \/ Answers
  PROVE  FilesRight'
  BY NoMappingStep, ConfiguredStep, TokenDoneStep, PolledStep, FilledStep, OpenUrlStep,
     HttpConnectsStep, ServerRepliesStep, GetcFillsStep, GetcStep, HttpFailsStep, AfterFailure,
     OpenFileSteps, ChunkFillsStep, CopyStep, MoreFillsStep, CloseFileStep
     DEF FsStep, TcpStep, Answers

\* open_file begins.
LEMMA SearchBegins ==
  ASSUME FilesRight, fs.at = "idle", SearchDir, UNCHANGED <<reply, inodes, lost>>, UNCHANGED tcpVars
  PROVE  FilesRight' /\ fs'.at = "attempt"
  <1>0. /\ FilesTyped /\ Waits /\ Connected /\ Counted /\ fs \in Files /\ lost \in Nat
        /\ UNCHANGED <<cb_status, token, tcp, sock, bindings, peer, faults, trouble>>
        /\ fs' = [fs EXCEPT !.at = "attempt", !.retry = PXERetry, !.redirects = 0] /\ got' = Nothing
    BY DEF FilesRight, FilesTyped, tcpVars, SearchDir
  <1>1. tcp.at = "out" /\ cb_status = -1 /\ token = NoToken
    <2>1. tcp.at = "out"
      BY <1>0, FilesFields DEF Waits
    <2> QED
      BY <1>0, <2>1 DEF Waits
  <1>2. fs' \in Files
    <2>1. "attempt" \in Places /\ PXERetry \in 0 .. PXERetry /\ 0 \in 0 .. MAXREDIR + 1
      BY PxeAssumption DEF Places
    <2> QED
      BY <1>0, <2>1, Zenon DEF Files
  <1>3. fs'.at = "attempt" /\ fs'.redirects = 0
    BY <1>0 DEF Files
  <1>4. Nothing \in [units : Nat, clean : BOOLEAN]
    BY DEF Nothing
  <1>5. FilesTyped'
    BY <1>0, <1>2, <1>4 DEF FilesTyped
  <1>6. Connected'
    BY <1>0, <1>3, NoSockTyped DEF Connected, Opened
  <1>7. Counted'
    BY <1>0, <1>3 DEF Counted
  <1> QED
    BY <1>0, <1>1, <1>3, <1>5, <1>6, <1>7, NoFile

\* What open_file returned was used.
LEMMA SearchEnds ==
  ASSUME FilesRight, fs.at \in {"closed", "notFound"}, FsIdle
  PROVE  FilesRight' /\ fs'.at = "idle"
  <1>0. /\ FilesTyped /\ Waits /\ Connected /\ Counted /\ fs \in Files /\ lost \in Nat
        /\ UNCHANGED <<inodes, lost, cb_status, token, tcp, bindings, faults>>
        /\ fs' = [fs EXCEPT !.at = "idle", !.count = 0, !.more = FALSE, !.redirects = 0, !.retry = 0]
        /\ reply' = NoReply /\ got' = Nothing /\ sock' = NoSock /\ peer' = 0
        /\ trouble' = trouble \cap {"leak"}
    BY DEF FilesRight, FilesTyped, FsIdle
  <1>1. tcp.at = "out" /\ cb_status = -1 /\ token = NoToken
    <2>1. tcp.at = "out"
      BY <1>0, FilesFields DEF Waits
    <2> QED
      BY <1>0, <2>1 DEF Waits
  <1>2. fs' \in Files
    <2>1. BLOCK * BLOCKS \in Nat
      BY PxeAssumption
    <2>2. "idle" \in Places /\ 0 \in 0 .. PXERetry /\ 0 \in 0 .. MAXREDIR + 1 /\ 0 \in 0 .. BLOCK * BLOCKS
          /\ FALSE \in BOOLEAN
      BY <2>1, PxeAssumption DEF Places
    <2> QED
      BY <1>0, <2>2, Zenon DEF Files
  <1>3. fs'.at = "idle"
    BY <1>0 DEF Files
  <1>4. Nothing \in [units : Nat, clean : BOOLEAN]
    BY DEF Nothing
  <1>5. FilesTyped'
    BY <1>0, <1>2, <1>4, NoSockTyped DEF FilesTyped
  <1>6. Connected'
    <2>1. "leak" \notin trouble' => bindings = 0
      BY <1>0 DEF Connected
    <2> QED
      BY <1>0, <1>3, <2>1, NoSockTyped DEF Connected, Opened
  <1>7. Counted'
    BY <1>0, <1>3 DEF Counted
  <1> QED
    BY <1>0, <1>1, <1>3, <1>5, <1>6, <1>7, NoFile

\* The accounts are closed.
LEMMA AccountsClosed ==
  ASSUME FilesRight, fs.at = "idle", UNCHANGED <<cb_status, token, tcp, sock, peer, fs, reply, got>>,
         faults' = 0, trouble' = {}, bindings' = 0, inodes' = 0, lost' = 0
  PROVE  FilesRight'
  <1>0. FilesTyped /\ Waits /\ Connected /\ FileRead
    BY DEF FilesRight
  <1>1. tcp.at = "out" /\ cb_status = -1 /\ token = NoToken /\ got = Nothing
    <2>1. tcp.at = "out"
      BY <1>0, FilesFields DEF Waits
    <2> QED
      BY <1>0, <2>1 DEF Waits, FileRead
  <1>2. FilesTyped'
    <2>1. 0 \in 0 .. MAXFAULTS
      BY TcpAssumption
    <2> QED
      BY <1>0, <2>1 DEF FilesTyped
  <1>3. Connected'
    BY <1>0, NoSockTyped DEF Connected, Opened
  <1>4. Counted'
    BY DEF Counted
  <1> QED
    BY <1>1, <1>2, <1>3, <1>4, NoFile

\* Initially no file is open.
LEMMA InitFiles ==
  ASSUME Init
  PROVE  FilesRight /\ ReadAt
  <1>0. TcpInit /\ FsInit
    BY DEF Init
  <1>1. /\ cb_status = -1 /\ token = NoToken /\ tcp.at = "out" /\ tcp \in Tcps
        /\ sock = NoSock /\ bindings = 0 /\ peer = 0 /\ faults = MAXFAULTS
    <2>1. NOMAP_PRINT_DELAY * NOMAP_PRINT_COUNT \in Nat
      BY TcpAssumption
    <2>2. 0 \in 0 .. NOMAP_PRINT_DELAY * NOMAP_PRINT_COUNT + 2
      BY <2>1
    <2> QED
      BY <1>0, <2>2 DEF TcpInit, Tcps
  <1>2. fs.at = "idle" /\ fs \in Files /\ reply = NoReply /\ got = Nothing /\ inodes = 0 /\ lost = 0
    <2>1. BLOCK * BLOCKS \in Nat
      BY PxeAssumption
    <2>2. "idle" \in Places /\ 0 \in 0 .. PXERetry /\ 0 \in 0 .. MAXREDIR + 1 /\ 0 \in 0 .. BLOCK * BLOCKS
      BY <2>1, PxeAssumption DEF Places
    <2> QED
      BY <1>0, <2>2 DEF FsInit, Files
  <1>3. NoToken \in Tokens /\ NoToken.for = "none"
    <2>1. 0 \in 0 .. DATABUF
      BY TcpAssumption
    <2> QED
      BY <2>1 DEF NoToken, Tokens
  <1>4. FilesTyped
    <2>1. MAXFAULTS \in 0 .. MAXFAULTS /\ Nothing \in [units : Nat, clean : BOOLEAN]
      BY TcpAssumption DEF Nothing
    <2> QED
      BY <1>1, <1>2, <1>3, <2>1, NoSockTyped DEF FilesTyped
  <1>5. Waits /\ Mapping /\ Connected
    BY <1>1, <1>2, <1>3, NoSockTyped DEF Waits, Mapping, Connected, Opened
  <1>6. Counted /\ Account /\ FileRead /\ ReadAt
    BY <1>2 DEF Counted, Account, Opened, FileRead, ReadExact, ReadAt
  <1> QED
    BY <1>4, <1>5, <1>6 DEF FilesRight

\* The invariant of the files says what FilesExact states.
LEMMA FilesAreExact ==
  ASSUME FilesRight
  PROVE  FilesExact
  <1>0. FilesTyped /\ Waits /\ Connected /\ Counted /\ FileRead
    BY DEF FilesRight
  <1>1. FsTypeOK
    BY <1>0, FilesFields DEF FsTypeOK, TcpTypeOK, FilesTyped, Places
  <1>2. CallbackMatched
    BY <1>0 DEF CallbackMatched, Waits, NoToken
  <1>3. Balanced
    <2>1. "leak" \notin trouble => bindings = IF sock.binding THEN 1 ELSE 0
      BY <1>0 DEF Connected
    <2>2. fs.at \in {"idle", "notFound", "closed"} => inodes = lost
      BY <1>0 DEF Counted
    <2>3. ASSUME fs.at \in {"idle", "notFound", "closed"}, "leak" \notin trouble
          PROVE  bindings = 0
      <3>1. CASE fs.at = "idle"
        <4>1. sock = NoSock
          BY <1>0, <3>1 DEF Connected
        <4>2. ~sock.binding
          BY <4>1 DEF NoSock
        <4> QED
          BY <2>1, <2>3, <4>2
      <3>2. CASE fs.at \in {"notFound", "closed"}
        <4>1. ~sock.binding
          BY <1>0, <2>3, <3>2 DEF Connected
        <4> QED
          BY <2>1, <2>3, <4>1
      <3> QED
        BY <2>3, <3>1, <3>2
    <2> QED
      BY <2>1, <2>2, <2>3 DEF Balanced
  <1> QED
    BY <1>0, <1>1, <1>2, <1>3 DEF FilesExact, FileRead

\* A step that does not touch the file system.
LEMMA FilesUnchanged ==
  ASSUME FilesRight, UNCHANGED fsVars, UNCHANGED tcpVars
  PROVE  FilesRight'
  BY DEF FilesRight, fsVars, tcpVars, FilesTyped, Waits, Mapping, Connected, Counted, Account,
     FileRead, Opened, Buffered, InFlight, ReadExact

-----------------------------------------------------------------------------
(***************************************************************************)
(* The modules.                                                            *)
(***************************************************************************)
Loadable == Modules \cup ToSet(Resident)

Frames ==
  [mod : Modules, at : {"find", "image", "prepare", "next", "waits", "error"},
   i : Nat, head : Loadable \cup {"none"}, before : Seq(Loadable)]

\* Modules are loaded at one stage, and once.
LoadTyped ==
  /\ disk \in Disks \cup {NoDisk} /\ modules \in Seq(Loadable) /\ modules # <<>>
  /\ stack \in Seq(Frames)
  /\ boot.stage # "load" => stack = <<>>
  /\ boot.stage \in {"init", "dhcp", "mac"} => modules = Resident
  /\ LoadTypeOK

\* s is the end of t.
Ends(s, t) == Len(s) <= Len(t) /\ \A i \in 1 .. Len(s) : s[i] = t[Len(t) - Len(s) + i]

\* What was loaded before a call stays as long as the call lasts.
Chain ==
  /\ stack # <<>> => Ends(Top.before, modules)
  /\ \A k \in 2 .. Len(stack) : Ends(stack[k].before, stack[k - 1].before)

\* The innermost call: what it has loaded, and what an error will unload.
TopRight ==
  stack # <<>> =>
    /\ Top.at # "waits"
    /\ Top.at \in {"find", "image", "prepare"} => Top.before = modules /\ Top.head = "none"
    /\ Top.at # "find" => Top.mod \notin ToSet(Top.before)
    /\ Top.at = "next" =>
         /\ Top.before # <<>> /\ Top.head = Top.before[1]
         /\ Top.mod \notin ToSet(modules) /\ Top.i > 0
         /\ \A j \in DOMAIN disk.needed[Top.mod] :
              j >= Top.i => disk.needed[Top.mod][j] \in ToSet(modules)
    /\ Top.at = "error" =>
         IF Top.head = "none" THEN modules = Top.before
         ELSE Top.before # <<>> /\ Top.head = Top.before[1]

\* The calls that wait for it: each for a module that its own needs, which is
\* not loaded yet.
CallersWait ==
  \A k \in 2 .. Len(stack) :
    LET needed == disk.needed[stack[k].mod] IN
    /\ stack[k].before # <<>> /\ stack[k].head = stack[k].before[1]
    /\ stack[k].mod \notin ToSet(modules)
    /\ stack[k].i \in DOMAIN needed /\ needed[stack[k].i] = stack[k - 1].mod
    /\ \A j \in DOMAIN needed : j > stack[k].i => needed[j] \in ToSet(stack[k - 1].before)

\* What was loaded is there once, after all that it needs was loaded.
Sound(d, ms) ==
  /\ \A i, j \in DOMAIN ms : ms[i] = ms[j] => i = j
  /\ \A i \in DOMAIN ms : ms[i] \in Modules =>
       \A m \in ToSet(d.needed[ms[i]]) : \E j \in DOMAIN ms : j > i /\ ms[j] = m

LoadIInv == LoadTyped /\ Chain /\ TopRight /\ CallersWait /\ LoadAtomic

-----------------------------------------------------------------------------
\* A list is the end of itself.
LEMMA EndsItself ==
  ASSUME NEW S, NEW s \in Seq(S)
  PROVE  Ends(s, s)
  BY LenProperties DEF Ends

\* The end of an end is one.
LEMMA EndsTransitive ==
  ASSUME NEW S, NEW s \in Seq(S), NEW t \in Seq(S), NEW u \in Seq(S), Ends(s, t), Ends(t, u)
  PROVE  Ends(s, u)
  <1>1. Len(s) \in Nat /\ Len(t) \in Nat /\ Len(u) \in Nat /\ Len(s) <= Len(t) /\ Len(t) <= Len(u)
    BY LenProperties DEF Ends
  <1>2. ASSUME NEW i \in 1 .. Len(s)
        PROVE  s[i] = u[Len(u) - Len(s) + i]
    <2> DEFINE j == Len(t) - Len(s) + i
    <2>1. j \in 1 .. Len(t) /\ Len(u) - Len(t) + j = Len(u) - Len(s) + i
      BY <1>1
    <2>2. s[i] = t[j]
      BY DEF Ends
    <2>3. t[j] = u[Len(u) - Len(t) + j]
      BY <2>1 DEF Ends
    <2> QED
      BY <2>1, <2>2, <2>3
  <1> QED
    BY <1>1, <1>2 DEF Ends

\* What is in the end is in the list.
LEMMA EndsWithin ==
  ASSUME NEW S, NEW s \in Seq(S), NEW t \in Seq(S), Ends(s, t)
  PROVE  ToSet(s) \subseteq ToSet(t)
  <1>1. Len(s) \in Nat /\ Len(t) \in Nat /\ Len(s) <= Len(t)
        /\ DOMAIN s = 1 .. Len(s) /\ DOMAIN t = 1 .. Len(t)
    BY LenProperties DEF Ends
  <1>2. ASSUME NEW i \in 1 .. Len(s)
        PROVE  s[i] \in ToSet(t)
    <2>1. Len(t) - Len(s) + i \in DOMAIN t
      BY <1>1
    <2>2. s[i] = t[Len(t) - Len(s) + i]
      BY DEF Ends
    <2> QED
      BY <2>1, <2>2 DEF ToSet
  <1> QED
    BY <1>1, <1>2 DEF ToSet

\* A list with one more in front.
LEMMA InFront ==
  ASSUME NEW S, NEW x \in S, NEW t \in Seq(S)
  PROVE  /\ <<x>> \o t \in Seq(S) /\ Len(<<x>> \o t) = Len(t) + 1
         /\ DOMAIN (<<x>> \o t) = 1 .. Len(t) + 1
         /\ (<<x>> \o t)[1] = x /\ \A i \in 1 .. Len(t) : (<<x>> \o t)[i + 1] = t[i]
         /\ ToSet(<<x>> \o t) = {x} \cup ToSet(t)
         /\ <<x>> \o t # <<>>
         /\ \A s \in Seq(S) : Ends(s, t) => Ends(s, <<x>> \o t)
  <1> DEFINE u == <<x>> \o t
  <1>1. <<x>> \in Seq(S) /\ Len(<<x>>) = 1 /\ <<x>>[1] = x
    OBVIOUS
  <1>2. Len(t) \in Nat /\ DOMAIN t = 1 .. Len(t)
    BY LenProperties
  <1>3. u \in Seq(S) /\ Len(u) = 1 + Len(t)
        /\ \A i \in 1 .. 1 + Len(t) : u[i] = IF i <= 1 THEN <<x>>[i] ELSE t[i - 1]
    BY <1>1, ConcatProperties
  <1>4. DOMAIN u = 1 .. Len(t) + 1
    BY <1>2, <1>3, LenProperties
  <1>5. u[1] = x /\ \A i \in 1 .. Len(t) : u[i + 1] = t[i]
    <2>1. ASSUME NEW i \in 1 .. Len(t)
          PROVE  u[i + 1] = t[i]
      <3>1. i + 1 \in 1 .. 1 + Len(t) /\ ~(i + 1 <= 1) /\ i + 1 - 1 = i
        BY <1>2
      <3> QED
        BY <1>3, <3>1
    <2>2. 1 \in 1 .. 1 + Len(t)
      BY <1>2
    <2> QED
      BY <1>1, <1>3, <2>1, <2>2
  <1>6. ToSet(u) = {x} \cup ToSet(t)
    <2>1. ASSUME NEW i \in 1 .. Len(t) + 1
          PROVE  u[i] \in {x} \cup ToSet(t)
      <3>1. CASE i = 1
        BY <1>5, <3>1
      <3>2. CASE i # 1
        <4>1. i - 1 \in 1 .. Len(t) /\ i - 1 + 1 = i
          BY <1>2, <3>2
        <4> QED
          BY <1>2, <1>5, <4>1 DEF ToSet
      <3> QED
        BY <3>1, <3>2
    <2>2. \A i \in 1 .. Len(t) : i + 1 \in 1 .. Len(t) + 1
      BY <1>2
    <2>3. 1 \in 1 .. Len(t) + 1
      BY <1>2
    <2>4. \A i \in 1 .. Len(t) : t[i] \in ToSet(u)
      BY <1>4, <1>5, <2>2 DEF ToSet
    <2>5. x \in ToSet(u)
      BY <1>4, <1>5, <2>3 DEF ToSet
    <2>6. ToSet(u) \subseteq {x} \cup ToSet(t)
      BY <1>4, <2>1 DEF ToSet
    <2>7. ToSet(t) \subseteq ToSet(u)
      BY <1>2, <2>4 DEF ToSet
    <2> QED
      BY <2>5, <2>6, <2>7
  <1>7. u # <<>>
    BY <1>2, <1>3
  <1>8. ASSUME NEW s \in Seq(S), Ends(s, t)
        PROVE  Ends(s, u)
    <2>1. Len(s) \in Nat /\ Len(s) <= Len(t)
      BY <1>8, LenProperties DEF Ends
    <2>2. ASSUME NEW i \in 1 .. Len(s)
          PROVE  s[i] = u[Len(u) - Len(s) + i]
      <3>1. Len(t) - Len(s) + i \in 1 .. Len(t)
            /\ Len(u) - Len(s) + i = Len(t) - Len(s) + i + 1
        BY <1>2, <1>3, <2>1
      <3>2. s[i] = t[Len(t) - Len(s) + i]
        BY <1>8 DEF Ends
      <3> QED
        BY <1>5, <3>1, <3>2
    <2> QED
      BY <1>2, <1>3, <2>1, <2>2 DEF Ends
  <1> QED
    BY <1>3, <1>4, <1>5, <1>6, <1>7, <1>8, <1>2

\* The end of a list is a suffix of it.
LEMMA EndsIsSuffix ==
  ASSUME NEW S, NEW s \in Seq(S), NEW t \in Seq(S), Ends(s, t)
  PROVE  IsSuffix(s, t)
  <1> DEFINE rs == Reverse(s)
             rt == Reverse(t)
  <1>1. Len(s) \in Nat /\ Len(t) \in Nat /\ Len(s) <= Len(t)
    BY LenProperties DEF Ends
  <1>2. rs = [i \in 1 .. Len(s) |-> s[(Len(s) - i) + 1]]
        /\ rt = [i \in 1 .. Len(t) |-> t[(Len(t) - i) + 1]]
    BY DEF Reverse
  <1>3. \A i \in 1 .. Len(s) : (Len(s) - i) + 1 \in 1 .. Len(s)
    BY <1>1
  <1>4. \A i \in 1 .. Len(t) : (Len(t) - i) + 1 \in 1 .. Len(t)
    BY <1>1
  <1>5. rs \in Seq(S) /\ Len(rs) = Len(s)
    <2>1. rs \in [1 .. Len(s) -> S]
      BY <1>2, <1>3, ElementOfSeq
    <2> QED
      BY <1>1, <2>1
  <1>6. rt \in Seq(S) /\ Len(rt) = Len(t)
    <2>1. rt \in [1 .. Len(t) -> S]
      BY <1>2, <1>4, ElementOfSeq
    <2> QED
      BY <1>1, <2>1
  <1>7. ASSUME NEW i \in 1 .. Len(s)
        PROVE  rs[i] = rt[i]
    <2> DEFINE j == (Len(s) - i) + 1
    <2>1. i \in 1 .. Len(t) /\ Len(t) - Len(s) + j = (Len(t) - i) + 1
      BY <1>1
    <2>2. s[j] = t[Len(t) - Len(s) + j]
      BY <1>3 DEF Ends
    <2> QED
      BY <1>2, <2>1, <2>2
  <1>8. SubSeq(rs, 1, Len(s)) = SubSeq(rt, 1, Len(s))
    BY <1>7 DEF SubSeq
  <1> QED
    BY <1>1, <1>5, <1>6, <1>8 DEF IsSuffix, IsPrefix

\* The end of such a list is one.
LEMMA SoundEnd ==
  ASSUME NEW d, NEW S, NEW s \in Seq(S), NEW t \in Seq(S), Ends(s, t), Sound(d, t)
  PROVE  Sound(d, s)
  <1> DEFINE n == Len(t) - Len(s)
  <1>1. Len(s) \in Nat /\ Len(t) \in Nat /\ n \in Nat
        /\ DOMAIN s = 1 .. Len(s) /\ DOMAIN t = 1 .. Len(t)
    BY LenProperties DEF Ends
  <1>2. \A i \in DOMAIN s : n + i \in DOMAIN t /\ s[i] = t[n + i]
    BY <1>1 DEF Ends
  <1>3. \A i, j \in DOMAIN s : s[i] = s[j] => i = j
    <2>1. \A i, j \in DOMAIN s : s[i] = s[j] => n + i = n + j
      BY <1>2 DEF Sound
    <2> HIDE DEF n
    <2> QED
      BY <1>1, <2>1
  <1>4. ASSUME NEW i \in DOMAIN s, s[i] \in Modules, NEW m \in ToSet(d.needed[s[i]])
        PROVE  \E j \in DOMAIN s : j > i /\ s[j] = m
    <2>1. n + i \in DOMAIN t /\ t[n + i] = s[i]
      BY <1>2
    <2>2. PICK j \in DOMAIN t : j > n + i /\ t[j] = m
      BY <1>4, <2>1 DEF Sound
    <2>3. j - n \in DOMAIN s /\ j - n > i /\ n + (j - n) = j
      BY <1>1, <2>2
    <2>4. s[j - n] = t[n + (j - n)]
      BY <1>2, <2>3
    <2> QED
      BY <2>2, <2>3, <2>4
  <1> QED
    BY <1>3, <1>4 DEF Sound

\* So is one with a module more, which it did not hold, but all that the
\* module needs.
LEMMA SoundInFront ==
  ASSUME NEW d, NEW S, NEW x \in S, NEW t \in Seq(S), Sound(d, t), x \notin ToSet(t),
         ToSet(d.needed[x]) \subseteq ToSet(t)
  PROVE  Sound(d, <<x>> \o t)
  <1> DEFINE u == <<x>> \o t
  <1>1. Len(t) \in Nat /\ DOMAIN t = 1 .. Len(t)
    BY LenProperties
  <1>2. DOMAIN u = 1 .. Len(t) + 1 /\ u[1] = x /\ \A i \in 1 .. Len(t) : u[i + 1] = t[i]
    BY InFront
  <1> HIDE DEF u
  <1>3. \A i \in DOMAIN u : i # 1 => i - 1 \in DOMAIN t /\ u[i] = t[i - 1]
    <2>1. ASSUME NEW i \in DOMAIN u, i # 1
          PROVE  i - 1 \in 1 .. Len(t) /\ (i - 1) + 1 = i
      BY <1>1, <1>2, <2>1
    <2> QED
      BY <1>1, <1>2, <2>1
  <1>4. \A j \in DOMAIN t : j + 1 \in DOMAIN u /\ u[j + 1] = t[j]
    BY <1>1, <1>2
  <1>5. \A j \in DOMAIN t : t[j] # x
    BY DEF ToSet
  <1>6. ASSUME NEW i \in DOMAIN u, NEW j \in DOMAIN u, u[i] = u[j]
        PROVE  i = j
    <2>1. CASE i = 1 \/ j = 1
      BY <1>2, <1>3, <1>5, <1>6, <2>1
    <2>2. CASE i # 1 /\ j # 1
      <3>1. i - 1 \in DOMAIN t /\ j - 1 \in DOMAIN t /\ t[i - 1] = t[j - 1]
        BY <1>3, <1>6, <2>2
      <3>2. i - 1 = j - 1
        BY <3>1 DEF Sound
      <3> QED
        BY <1>1, <1>2, <3>2
    <2> QED
      BY <2>1, <2>2
  <1>7. ASSUME NEW i \in DOMAIN u, u[i] \in Modules, NEW m \in ToSet(d.needed[u[i]])
        PROVE  \E j \in DOMAIN u : j > i /\ u[j] = m
    <2>1. CASE i = 1
      <3>1. m \in ToSet(t)
        BY <1>2, <1>7, <2>1
      <3>2. PICK j \in DOMAIN t : t[j] = m
        BY <3>1 DEF ToSet
      <3>3. j + 1 \in DOMAIN u /\ u[j + 1] = m /\ j + 1 > i
        BY <1>1, <1>4, <2>1, <3>2
      <3> QED
        BY <3>3
    <2>2. CASE i # 1
      <3>1. i - 1 \in DOMAIN t /\ t[i - 1] = u[i]
        BY <1>3, <2>2
      <3>2. PICK j \in DOMAIN t : j > i - 1 /\ t[j] = m
        BY <1>7, <3>1 DEF Sound
      <3>3. j + 1 \in DOMAIN u /\ u[j + 1] = m /\ j + 1 > i
        BY <1>1, <1>2, <1>4, <3>2
      <3> QED
        BY <3>3
    <2> QED
      BY <2>1, <2>2
  <1> QED
    BY <1>6, <1>7 DEF Sound, u

\* Unloading since the first module of an end of the list leaves that end.
LEMMA UnloadsTo ==
  ASSUME NEW S, NEW s \in Seq(S), modules \in Seq(S), s # <<>>, Ends(s, modules),
         \A i, j \in DOMAIN modules : modules[i] = modules[j] => i = j
  PROVE  UnloadedSince(s[1]) = s
  <1> DEFINE n == Len(modules) - Len(s)
             at == {i \in DOMAIN modules : modules[i] = s[1]}
             k == CHOOSE i \in at : \A j \in at : i <= j
  <1>1. Len(s) \in Nat \ {0} /\ Len(modules) \in Nat /\ n \in Nat /\ n + 1 \in DOMAIN modules
    BY LenProperties, EmptySeq DEF Ends
  <1>2. 1 \in 1 .. Len(s) /\ s[1] = modules[n + 1]
    BY <1>1 DEF Ends
  <1>3. at = {n + 1}
    BY <1>1, <1>2
  <1>4. k = n + 1
    BY <1>1, <1>3
  <1>5. UnloadedSince(s[1]) = SubSeq(modules, k, Len(modules))
    BY <1>3 DEF UnloadedSince
  <1> HIDE DEF k, at
  <1>6. \A i \in n + 1 .. Len(modules) : modules[i] \in S
    BY <1>1, ElementOfSeq
  <1> DEFINE u == SubSeq(modules, n + 1, Len(modules))
  <1>7. /\ u \in Seq(S)
        /\ Len(u) = IF n + 1 <= Len(modules) THEN Len(modules) - (n + 1) + 1 ELSE 0
        /\ \A i \in 1 .. Len(modules) - (n + 1) + 1 : u[i] = modules[(n + 1) + i - 1]
    BY <1>1, <1>6, SubSeqProperties
  <1>8. Len(u) = Len(s)
    BY <1>1, <1>7
  <1>9. ASSUME NEW i \in 1 .. Len(s)
        PROVE  u[i] = s[i]
    <2>1. i \in 1 .. Len(modules) - (n + 1) + 1 /\ (n + 1) + i - 1 = n + i
      BY <1>1
    <2>2. s[i] = modules[n + i]
      BY DEF Ends
    <2> QED
      BY <1>7, <2>1, <2>2
  <1>10. u = s
    BY <1>7, <1>8, <1>9, SeqEqual
  <1> QED
    BY <1>4, <1>5, <1>10

\* A module that is not on a list is not taken off it.
LEMMA NotRemoved ==
  ASSUME NEW S, NEW s \in Seq(S), NEW x, x \notin ToSet(s)
  PROVE  RemoveFirst(s, x) = s
  BY LenProperties DEF RemoveFirst, ToSet

-----------------------------------------------------------------------------
\* Modules need modules.
LEMMA NeedsTyped ==
  ASSUME LoadTyped
  PROVE  \A m \in Modules : disk.needed[m] \in Seq(Modules)
  <1>1. CASE disk \in Disks
    <2>1. disk.needed \in [Modules -> Seq(Modules)]
      BY <1>1, LoadAssumption
    <2> QED
      BY <2>1
  <1>2. CASE disk = NoDisk
    <2>1. \A m \in Modules : disk.needed[m] = <<>>
      BY <1>2 DEF NoDisk
    <2> QED
      BY <2>1, EmptySeq
  <1> QED
    BY <1>1, <1>2 DEF LoadTyped

\* What is known of the calls and of the disk.
LEMMA CallsTyped ==
  ASSUME LoadTyped
  PROVE  /\ Len(stack) \in Nat /\ DOMAIN stack = 1 .. Len(stack)
         /\ stack # <<>> => Len(stack) > 0 /\ Top \in Frames
         /\ \A k \in DOMAIN stack :
              /\ stack[k] \in Frames
              /\ stack[k].mod \in Modules /\ stack[k].mod \in Loadable
              /\ stack[k].before \in Seq(Loadable) /\ stack[k].i \in Nat
              /\ disk.needed[stack[k].mod] \in Seq(Modules)
              /\ DOMAIN disk.needed[stack[k].mod] = 1 .. Len(disk.needed[stack[k].mod])
              /\ Len(disk.needed[stack[k].mod]) \in Nat
  <1>1. Len(stack) \in Nat /\ DOMAIN stack = 1 .. Len(stack)
    BY LenProperties DEF LoadTyped
  <1>2. stack # <<>> => Len(stack) > 0
    BY EmptySeq, <1>1 DEF LoadTyped
  <1>3. \A k \in DOMAIN stack : stack[k] \in Frames
    BY <1>1, ElementOfSeq DEF LoadTyped
  <1>4. stack # <<>> => Top \in Frames
    BY <1>1, <1>2, <1>3 DEF Top
  <1>5. \A m \in Modules : disk.needed[m] \in Seq(Modules)
    BY NeedsTyped
  <1>6. \A k \in DOMAIN stack : /\ stack[k].mod \in Modules /\ stack[k].before \in Seq(Loadable)
                                /\ stack[k].i \in Nat
    BY <1>3 DEF Frames
  <1>7. ASSUME NEW k \in DOMAIN stack
        PROVE  /\ DOMAIN disk.needed[stack[k].mod] = 1 .. Len(disk.needed[stack[k].mod])
               /\ Len(disk.needed[stack[k].mod]) \in Nat
    <2>1. disk.needed[stack[k].mod] \in Seq(Modules)
      BY <1>5, <1>6
    <2> QED
      BY <2>1, LenProperties
  <1> QED
    BY <1>1, <1>2, <1>3, <1>4, <1>5, <1>6, <1>7 DEF Loadable

\* A call returns: the others are as they were, but for where the caller is.
LEMMA Popped ==
  ASSUME LoadTyped, stack # <<>>, NEW rc \in {0, -1, EEXIST}, LoadReturns(rc)
  PROVE  /\ stack' \in Seq(Frames) /\ Len(stack') = Len(stack) - 1
         /\ \A k \in 1 .. Len(stack) - 1 :
              /\ stack'[k].mod = stack[k + 1].mod /\ stack'[k].i = stack[k + 1].i
              /\ stack'[k].head = stack[k + 1].head /\ stack'[k].before = stack[k + 1].before
              /\ stack'[k].at = IF k = 1 THEN IF rc < 0 THEN "error" ELSE "next"
                                ELSE stack[k + 1].at
  <1>0. Len(stack) \in Nat /\ Len(stack) > 0 /\ stack \in Seq(Frames)
    BY CallsTyped DEF LoadTyped
  <1>1. CASE Len(stack) = 1
    <2>1. stack' = <<>>
      BY <1>1 DEF LoadReturns
    <2> QED
      BY <1>1, <2>1, EmptySeq
  <1>2. CASE Len(stack) # 1
    <2> DEFINE a == IF rc < 0 THEN "error" ELSE "next"
               t == Tail(stack)
               f == [t[1] EXCEPT !.at = a]
    <2>1. t \in Seq(Frames) /\ Len(t) = Len(stack) - 1 /\ \A k \in 1 .. Len(t) : t[k] = stack[k + 1]
      BY <1>0, HeadTailProperties
    <2>2. stack' = [t EXCEPT ![1].at = a]
      BY <1>2 DEF LoadReturns
    <2>3. 1 \in 1 .. Len(t)
      BY <1>0, <1>2, <2>1
    <2>4. t[1] \in Frames
      BY <2>1, <2>3, ElementOfSeq
    <2>5. f \in Frames
      <3>1. a \in {"find", "image", "prepare", "next", "waits", "error"}
        OBVIOUS
      <3> HIDE DEF a, t
      <3> QED
        BY <2>4, <3>1, Zenon DEF Frames
    <2>6. /\ f.mod = t[1].mod /\ f.i = t[1].i /\ f.head = t[1].head /\ f.before = t[1].before
          /\ f.at = a
      <3> HIDE DEF a, t
      <3> QED
        BY <2>4 DEF Frames
    <2>7. stack' = [t EXCEPT ![1] = f]
      BY <2>2
    <2> HIDE DEF f, t
    <2>8. /\ stack' \in Seq(Frames) /\ Len(stack') = Len(t)
          /\ \A k \in 1 .. Len(t) : stack'[k] = IF k = 1 THEN f ELSE t[k]
      BY <2>1, <2>3, <2>5, <2>7, ExceptSeq
    <2>9. ASSUME NEW k \in 1 .. Len(stack) - 1
          PROVE  /\ stack'[k].mod = stack[k + 1].mod /\ stack'[k].i = stack[k + 1].i
                 /\ stack'[k].head = stack[k + 1].head /\ stack'[k].before = stack[k + 1].before
                 /\ stack'[k].at = IF k = 1 THEN a ELSE stack[k + 1].at
      BY <2>1, <2>6, <2>8
    <2> QED
      BY <2>1, <2>8, <2>9
  <1> QED
    BY <1>1, <1>2

\* A call returns what is right: the list has what it was called for, or is as
\* it was before.
LEMMA CallReturns ==
  ASSUME LoadIInv, stack # <<>>, NEW rc \in {0, -1, EEXIST}, LoadReturns(rc),
         disk' = disk, boot' = boot, modules' \in Seq(Loadable), modules' # <<>>,
         Sound(disk, modules'), Ends(Top.before, modules'),
         rc = 0 => modules'[1] = Top.mod, rc # 0 => modules' = Top.before,
         rc # -1 => Top.mod \in ToSet(modules'),
         \A k \in 2 .. Len(stack) : stack[k].mod \notin ToSet(modules')
  PROVE  LoadIInv'
  <1>0. /\ LoadTyped /\ Len(stack) \in Nat /\ Len(stack) > 0 /\ DOMAIN stack = 1 .. Len(stack)
        /\ boot.stage = "load" /\ Top = stack[1] /\ (rc < 0 <=> rc = -1)
    BY CallsTyped DEF LoadIInv, LoadTyped, Top, EEXIST
  <1>1. /\ stack' \in Seq(Frames) /\ Len(stack') = Len(stack) - 1
        /\ \A k \in 1 .. Len(stack) - 1 :
             /\ stack'[k].mod = stack[k + 1].mod /\ stack'[k].i = stack[k + 1].i
             /\ stack'[k].head = stack[k + 1].head /\ stack'[k].before = stack[k + 1].before
             /\ stack'[k].at = IF k = 1 THEN IF rc < 0 THEN "error" ELSE "next"
                               ELSE stack[k + 1].at
    BY <1>0, Popped
  <1>2. DOMAIN stack' = 1 .. Len(stack) - 1 /\ (stack' # <<>> => Len(stack) - 1 > 0)
    <2>1. DOMAIN stack' = 1 .. Len(stack')
      BY <1>1, LenProperties
    <2>2. stack' # <<>> => Len(stack') > 0
      BY <1>1, EmptySeq
    <2> QED
      BY <1>1, <2>1, <2>2
  <1>3. \A k \in 1 .. Len(stack) - 1 : k + 1 \in DOMAIN stack /\ k + 1 \in 2 .. Len(stack)
    BY <1>0
  <1>4. \A k \in 2 .. Len(stack) : /\ k \in DOMAIN stack /\ stack[k].at = "waits"
                                   /\ k - 1 \in DOMAIN stack
    <2>1. \A k \in 2 .. Len(stack) : k \in DOMAIN stack /\ k > 1 /\ k - 1 \in DOMAIN stack
      BY <1>0
    <2> QED
      BY <1>0, <2>1 DEF LoadTyped, LoadTypeOK
  <1>5. \A k \in 1 .. Len(stack) : stack[k].before \in Seq(Loadable)
    BY <1>0, CallsTyped
  <1>6. stack' # <<>> => /\ 1 \in 1 .. Len(stack) - 1 /\ 2 \in 2 .. Len(stack) /\ 2 \in 1 .. Len(stack)
                         /\ 1 \in 1 .. Len(stack) /\ 1 + 1 = 2 /\ 2 - 1 = 1
    BY <1>0, <1>2
  <1>7. stack' # <<>> => Ends(stack[2].before, modules')
    <2>1. stack' # <<>> => Ends(stack[2].before, stack[1].before)
      BY <1>6 DEF LoadIInv, Chain
    <2> QED
      BY <1>0, <1>5, <1>6, <2>1, EndsTransitive
  <1>8. ToSet(Top.before) \subseteq ToSet(modules')
    BY <1>0, <1>5, EndsWithin
  <1>9. Chain'
    <2>1. ASSUME NEW k \in 2 .. Len(stack')
          PROVE  Ends(stack'[k].before, stack'[k - 1].before)
      <3>1. /\ k \in 1 .. Len(stack) - 1 /\ k - 1 \in 1 .. Len(stack) - 1 /\ k - 1 + 1 = k
            /\ k + 1 \in 2 .. Len(stack) /\ k + 1 - 1 = k
        BY <1>0, <1>1
      <3>2. Ends(stack[k + 1].before, stack[k].before)
        BY <3>1 DEF LoadIInv, Chain
      <3>3. stack'[k].before = stack[k + 1].before
        BY <1>1, <3>1
      <3>4. stack'[k - 1].before = stack[k].before
        BY <1>1, <3>1
      <3> QED
        BY <3>2, <3>3, <3>4
    <2>2. stack' # <<>> => Ends(stack'[1].before, modules')
      BY <1>1, <1>6, <1>7
    <2> QED
      BY <2>1, <2>2 DEF Chain, Top
  <1>10. ASSUME stack' # <<>>
         PROVE  /\ stack'[1].at \in {"error", "next"}
                /\ stack'[1].before # <<>> /\ stack'[1].head = stack'[1].before[1]
                /\ stack'[1].head # "none" /\ stack'[1].i > 0
                /\ stack'[1].mod \notin ToSet(modules')
                /\ stack'[1].mod \notin ToSet(stack'[1].before)
                /\ stack'[1].at = "next" =>
                     \A j \in DOMAIN disk.needed[stack'[1].mod] :
                        j >= stack'[1].i => disk.needed[stack'[1].mod][j] \in ToSet(modules')
    <2> DEFINE needed == disk.needed[stack[2].mod]
    <2>1. /\ stack'[1].mod = stack[2].mod /\ stack'[1].i = stack[2].i
          /\ stack'[1].head = stack[2].head /\ stack'[1].before = stack[2].before
          /\ stack'[1].at = IF rc < 0 THEN "error" ELSE "next"
      BY <1>1, <1>6, <1>10
    <2>2. /\ stack[2].before # <<>> /\ stack[2].head = stack[2].before[1]
          /\ stack[2].i \in DOMAIN needed /\ needed[stack[2].i] = stack[1].mod
          /\ \A j \in DOMAIN needed : j > stack[2].i => needed[j] \in ToSet(stack[1].before)
      BY <1>6, <1>10 DEF LoadIInv, CallersWait
    <2>3. stack[2].before[1] \in Loadable
      <3>1. stack[2].before \in Seq(Loadable)
        BY <1>5, <1>6, <1>10
      <3>2. Len(stack[2].before) \in Nat \ {0}
        BY <2>2, <3>1, EmptySeq
      <3> QED
        BY <3>1, <3>2, ElementOfSeq
    <2>4. "none" \notin Loadable
      BY LoadAssumption DEF Loadable
    <2>5. stack[2].mod \notin ToSet(modules')
      BY <1>6, <1>10
    <2>6. stack[2].mod \notin ToSet(stack[2].before)
      BY <1>5, <1>6, <1>7, <1>10, <2>5, EndsWithin
    <2>7. stack[2].i > 0 /\ DOMAIN needed = 1 .. Len(needed) /\ Len(needed) \in Nat
      BY <1>0, <1>6, <1>10, <2>2, CallsTyped
    <2>8. ASSUME rc # -1, NEW j \in DOMAIN needed, j >= stack[2].i
          PROVE  needed[j] \in ToSet(modules')
      <3>1. CASE j = stack[2].i
        BY <1>0, <2>2, <2>8, <3>1
      <3>2. CASE j > stack[2].i
        BY <1>0, <1>8, <2>2, <3>2
      <3> QED
        BY <2>2, <2>7, <2>8, <3>1, <3>2
    <2> QED
      BY <1>0, <2>1, <2>2, <2>3, <2>4, <2>5, <2>6, <2>7, <2>8
  <1>11. TopRight'
    BY <1>10 DEF TopRight, Top
  <1>12. CallersWait'
    <2> SUFFICES ASSUME NEW k \in 2 .. Len(stack')
                 PROVE  /\ stack'[k].before # <<>> /\ stack'[k].head = stack'[k].before[1]
                        /\ stack'[k].mod \notin ToSet(modules')
                        /\ stack'[k].i \in DOMAIN disk.needed[stack'[k].mod]
                        /\ disk.needed[stack'[k].mod][stack'[k].i] = stack'[k - 1].mod
                        /\ \A j \in DOMAIN disk.needed[stack'[k].mod] :
                             j > stack'[k].i =>
                               disk.needed[stack'[k].mod][j] \in ToSet(stack'[k - 1].before)
      BY DEF CallersWait
    <2>1. /\ k \in 1 .. Len(stack) - 1 /\ k - 1 \in 1 .. Len(stack) - 1 /\ k - 1 + 1 = k
          /\ k + 1 \in 2 .. Len(stack) /\ k + 1 - 1 = k
      BY <1>0, <1>1
    <2>2. /\ stack'[k].mod = stack[k + 1].mod /\ stack'[k].i = stack[k + 1].i
          /\ stack'[k].head = stack[k + 1].head /\ stack'[k].before = stack[k + 1].before
          /\ stack'[k - 1].mod = stack[k].mod /\ stack'[k - 1].before = stack[k].before
      BY <1>1, <2>1
    <2> DEFINE needed == disk.needed[stack[k + 1].mod]
    <2>3. /\ stack[k + 1].before # <<>> /\ stack[k + 1].head = stack[k + 1].before[1]
          /\ stack[k + 1].i \in DOMAIN needed /\ needed[stack[k + 1].i] = stack[k].mod
          /\ \A j \in DOMAIN needed : j > stack[k + 1].i => needed[j] \in ToSet(stack[k].before)
      BY <2>1 DEF LoadIInv, CallersWait
    <2> QED
      BY <2>1, <2>2, <2>3
  <1>13. LoadTyped'
    <2>1. ToSet(modules') \subseteq Loadable
      BY LenProperties, ElementOfSeq DEF ToSet
    <2>2. ASSUME NEW k \in DOMAIN stack'
          PROVE  /\ stack'[k].at \in {"find", "image", "prepare", "next", "waits", "error"}
                 /\ k > 1 => stack'[k].at = "waits"
                 /\ stack'[k].i \in 0 .. Len(disk.needed[stack'[k].mod]) + 1
      <3>1. k \in 1 .. Len(stack) - 1 /\ k + 1 \in DOMAIN stack /\ k + 1 \in 2 .. Len(stack)
        BY <1>2, <1>3
      <3>2. stack[k + 1].i \in 0 .. Len(disk.needed[stack[k + 1].mod]) + 1
        BY <1>0, <3>1 DEF LoadTyped, LoadTypeOK
      <3>3. stack[k + 1].at = "waits"
        BY <1>4, <3>1
      <3>4. /\ stack'[k].mod = stack[k + 1].mod /\ stack'[k].i = stack[k + 1].i
            /\ stack'[k].at = IF k = 1 THEN IF rc < 0 THEN "error" ELSE "next" ELSE "waits"
        BY <1>1, <3>1, <3>3
      <3>5. k > 1 => k # 1
        BY <3>1
      <3> QED
        BY <3>2, <3>4, <3>5
    <2>3. LoadTypeOK'
      BY <2>1, <2>2 DEF LoadTypeOK, Loadable
    <2> QED
      BY <1>0, <1>1, <2>3 DEF LoadTyped
  <1>14. LoadAtomic'
    <2>1. loaded'.mod = Top.mod /\ loaded'.rc = rc /\ loaded'.before = Top.before
      BY DEF LoadReturns
    <2>2. IsSuffix(Top.before, modules')
      BY <1>0, <1>5, EndsIsSuffix
    <2> QED
      BY <2>1, <2>2 DEF LoadAtomic, Sound
  <1> QED
    BY <1>9, <1>11, <1>12, <1>13, <1>14 DEF LoadIInv

\* The innermost call goes on.
LEMMA CallAdvances ==
  ASSUME LoadIInv, stack # <<>>, disk' = disk, boot' = boot,
         NEW f \in Frames, f.mod = Top.mod, f.before = Top.before, f.at # "waits",
         f.i \in 0 .. Len(disk.needed[Top.mod]) + 1, stack' = [stack EXCEPT ![1] = f],
         modules' \in Seq(Loadable), modules' # <<>>, Sound(disk, modules'),
         Ends(Top.before, modules'), Top.mod \notin ToSet(Top.before) \/ f.at = "find",
         \A k \in 2 .. Len(stack) : stack[k].mod \notin ToSet(modules'),
         f.at \in {"find", "image", "prepare"} => modules' = Top.before /\ f.head = "none",
         f.at = "next" => /\ Top.before # <<>> /\ f.head = Top.before[1]
                          /\ Top.mod \notin ToSet(modules') /\ f.i > 0
                          /\ \A j \in DOMAIN disk.needed[Top.mod] :
                               j >= f.i => disk.needed[Top.mod][j] \in ToSet(modules'),
         f.at = "error" => IF f.head = "none" THEN modules' = Top.before
                           ELSE Top.before # <<>> /\ f.head = Top.before[1]
  PROVE  LoadIInv'
  <1>0. /\ LoadTyped /\ Len(stack) \in Nat /\ Len(stack) > 0 /\ DOMAIN stack = 1 .. Len(stack)
        /\ boot.stage = "load" /\ Top = stack[1] /\ stack \in Seq(Frames)
    BY CallsTyped DEF LoadIInv, LoadTyped, Top
  <1>1. /\ stack' \in Seq(Frames) /\ Len(stack') = Len(stack) /\ stack'[1] = f
        /\ \A k \in 2 .. Len(stack) : stack'[k] = stack[k]
    <2>1. 1 \in 1 .. Len(stack) /\ \A k \in 2 .. Len(stack) : k \in 1 .. Len(stack) /\ k # 1
      BY <1>0
    <2>2. /\ stack' \in Seq(Frames) /\ Len(stack') = Len(stack)
          /\ \A k \in 1 .. Len(stack) : stack'[k] = IF k = 1 THEN f ELSE stack[k]
      BY <1>0, <2>1, ExceptSeq
    <2> QED
      BY <2>1, <2>2
  <1>2. DOMAIN stack' = 1 .. Len(stack) /\ stack' # <<>>
    BY <1>0, <1>1, LenProperties, EmptySeq
  <1>3. \A k \in 1 .. Len(stack) : stack'[k].mod = stack[k].mod /\ stack'[k].before = stack[k].before
    <2>1. \A k \in 1 .. Len(stack) : k = 1 \/ k \in 2 .. Len(stack)
      BY <1>0
    <2> QED
      BY <1>0, <1>1, <2>1
  <1>4. \A k \in 2 .. Len(stack) : k - 1 \in 1 .. Len(stack) /\ k \in 1 .. Len(stack)
    BY <1>0
  <1>5. Chain'
    <2>1. \A k \in 2 .. Len(stack) : Ends(stack[k].before, stack[k - 1].before)
      BY DEF LoadIInv, Chain
    <2>2. \A k \in 2 .. Len(stack) : Ends(stack'[k].before, stack'[k - 1].before)
      BY <1>3, <1>4, <2>1
    <2>3. Ends(stack'[1].before, modules')
      BY <1>1
    <2> QED
      BY <1>1, <2>2, <2>3 DEF Chain, Top
  <1>6. TopRight'
    BY <1>1 DEF TopRight, Top
  <1>7. CallersWait'
    <2>1. \A k \in 2 .. Len(stack) : stack'[k] = stack[k] /\ stack'[k - 1].mod = stack[k - 1].mod
                                     /\ stack'[k - 1].before = stack[k - 1].before
      BY <1>1, <1>3, <1>4
    <2> DEFINE Caller(g, caller) ==
                 LET needed == disk.needed[g.mod] IN
                 /\ g.before # <<>> /\ g.head = g.before[1]
                 /\ g.i \in DOMAIN needed /\ needed[g.i] = caller.mod
                 /\ \A j \in DOMAIN needed : j > g.i => needed[j] \in ToSet(caller.before)
    <2>2. \A k \in 2 .. Len(stack) : Caller(stack[k], stack[k - 1])
      BY DEF LoadIInv, CallersWait
    <2>3. \A k \in 2 .. Len(stack) : Caller(stack'[k], stack'[k - 1])
      BY <2>1, <2>2
    <2> QED
      BY <1>1, <2>1, <2>3 DEF CallersWait
  <1>8. LoadTyped'
    <2>1. ToSet(modules') \subseteq Loadable
      BY LenProperties, ElementOfSeq DEF ToSet
    <2>2. ASSUME NEW k \in DOMAIN stack'
          PROVE  /\ stack'[k].at \in {"find", "image", "prepare", "next", "waits", "error"}
                 /\ k > 1 => stack'[k].at = "waits"
                 /\ stack'[k].i \in 0 .. Len(disk.needed[stack'[k].mod]) + 1
      <3>1. CASE k = 1
        BY <1>1, <3>1 DEF Frames
      <3>2. CASE k # 1
        <4>1. k \in 2 .. Len(stack) /\ k \in DOMAIN stack
          BY <1>0, <1>2, <3>2
        <4> QED
          BY <1>0, <1>1, <4>1 DEF LoadTyped, LoadTypeOK
      <3> QED
        BY <3>1, <3>2
    <2>3. LoadTypeOK'
      BY <2>1, <2>2 DEF LoadTypeOK, Loadable
    <2> QED
      BY <1>0, <1>1, <2>3 DEF LoadTyped
  <1>9. LoadAtomic'
    BY <1>2 DEF LoadAtomic, Sound
  <1> QED
    BY <1>5, <1>6, <1>7, <1>8, <1>9 DEF LoadIInv

-----------------------------------------------------------------------------
\* What the invariant says of the innermost call and of the list.
LEMMA TopFacts ==
  ASSUME LoadIInv, stack # <<>>
  PROVE  /\ LoadTyped /\ Len(stack) \in Nat /\ Len(stack) > 0 /\ DOMAIN stack = 1 .. Len(stack)
         /\ Top = stack[1] /\ Top \in Frames /\ 1 \in DOMAIN stack
         /\ Top.mod \in Modules /\ Top.mod \in Loadable /\ Top.before \in Seq(Loadable)
         /\ Top.i \in 0 .. Len(disk.needed[Top.mod]) + 1
         /\ disk.needed[Top.mod] \in Seq(Modules) /\ Len(disk.needed[Top.mod]) \in Nat
         /\ DOMAIN disk.needed[Top.mod] = 1 .. Len(disk.needed[Top.mod])
         /\ modules \in Seq(Loadable) /\ modules # <<>> /\ Sound(disk, modules)
         /\ Ends(Top.before, modules) /\ ToSet(Top.before) \subseteq ToSet(modules)
         /\ Sound(disk, Top.before)
         /\ \A k \in 2 .. Len(stack) : stack[k].mod \notin ToSet(modules)
  <1>1. /\ LoadTyped /\ Len(stack) \in Nat /\ Len(stack) > 0 /\ DOMAIN stack = 1 .. Len(stack)
        /\ Top = stack[1] /\ Top \in Frames /\ 1 \in DOMAIN stack
    BY CallsTyped DEF LoadIInv, Top
  <1>2. /\ Top.mod \in Modules /\ Top.mod \in Loadable /\ Top.before \in Seq(Loadable)
        /\ disk.needed[Top.mod] \in Seq(Modules) /\ Len(disk.needed[Top.mod]) \in Nat
        /\ DOMAIN disk.needed[Top.mod] = 1 .. Len(disk.needed[Top.mod])
    BY <1>1, CallsTyped
  <1>3. Top.i \in 0 .. Len(disk.needed[Top.mod]) + 1
    BY <1>1 DEF LoadTyped, LoadTypeOK
  <1>4. modules \in Seq(Loadable) /\ modules # <<>> /\ Sound(disk, modules)
    BY DEF LoadIInv, LoadTyped, LoadAtomic, Sound
  <1>5. Ends(Top.before, modules)
    BY DEF LoadIInv, Chain
  <1>6. ToSet(Top.before) \subseteq ToSet(modules) /\ Sound(disk, Top.before)
    BY <1>2, <1>4, <1>5, EndsWithin, SoundEnd
  <1>7. \A k \in 2 .. Len(stack) : stack[k].mod \notin ToSet(modules)
    BY DEF LoadIInv, CallersWait
  <1> QED
    BY <1>1, <1>2, <1>3, <1>4, <1>5, <1>6, <1>7

\* A call goes on from another place.
LEMMA FrameMoved ==
  ASSUME NEW f \in Frames, NEW at \in {"find", "image", "prepare", "next", "waits", "error"}
  PROVE  LET g == [f EXCEPT !.at = at] IN
         /\ g \in Frames /\ g.at = at /\ g.mod = f.mod /\ g.i = f.i /\ g.head = f.head
         /\ g.before = f.before
  <1>1. [f EXCEPT !.at = at] \in Frames
    BY Zenon DEF Frames
  <1> QED
    BY <1>1 DEF Frames

\* module_find: a module that is there already is not looked for.
LEMMA FindModuleStep ==
  ASSUME LoadIInv, FindModule, UNCHANGED boot
  PROVE  LoadIInv'
  <1>0. stack # <<>> /\ Top.at = "find" /\ disk' = disk /\ modules' = modules
    BY DEF FindModule, TopIs
  <1>1. Top.before = modules /\ Top.head = "none"
    BY <1>0 DEF LoadIInv, TopRight
  <1>2. CASE Top.mod \in ToSet(modules)
    <2>1. LoadReturns(EEXIST)
      BY <1>2 DEF FindModule
    <2> QED
      BY <1>0, <1>1, <1>2, <2>1, TopFacts, CallReturns DEF EEXIST
  <1>3. CASE Top.mod \notin ToSet(modules)
    <2> DEFINE f == [Top EXCEPT !.at = "image"]
    <2>1. stack' = [stack EXCEPT ![1] = f]
      BY <1>3 DEF FindModule, Goes, Top
    <2>2. /\ f \in Frames /\ f.at = "image" /\ f.mod = Top.mod /\ f.i = Top.i
          /\ f.before = Top.before /\ f.head = "none"
      BY <1>0, <1>1, TopFacts, FrameMoved
    <2> HIDE DEF f
    <2> QED
      BY <1>0, <1>1, <1>3, <2>1, <2>2, TopFacts, CallAdvances
  <1> QED
    BY <1>2, <1>3

\* The file of the module was read, or not.
LEMMA ImageLoadedStep ==
  ASSUME LoadIInv, ImageLoaded, UNCHANGED boot
  PROVE  LoadIInv'
  <1>0. stack # <<>> /\ Top.at = "image" /\ disk' = disk /\ modules' = modules
    BY DEF ImageLoaded, TopIs
  <1>1. Top.before = modules /\ Top.mod \notin ToSet(modules)
    BY <1>0 DEF LoadIInv, TopRight
  <1>2. CASE LoadReturns(-1)
    BY <1>0, <1>1, <1>2, TopFacts, CallReturns
  <1>3. ASSUME NEW at \in {"prepare", "error"}, Goes(at)
        PROVE  LoadIInv'
    <2> DEFINE f == [Top EXCEPT !.at = at]
    <2>1. stack' = [stack EXCEPT ![1] = f]
      BY <1>3 DEF Goes, Top
    <2>2. /\ f \in Frames /\ f.at = at /\ f.mod = Top.mod /\ f.i = Top.i /\ f.before = Top.before
          /\ f.head = Top.head
      <3>1. at \in {"find", "image", "prepare", "next", "waits", "error"}
        BY <1>3
      <3>2. Top \in Frames
        BY <1>0, TopFacts
      <3> HIDE DEF Frames
      <3> QED
        BY <3>1, <3>2, FrameMoved, ZenonT(40)
    <2>3. Top.head = "none"
      BY <1>0 DEF LoadIInv, TopRight
    <2> HIDE DEF f
    <2> QED
      BY <1>0, <1>1, <2>1, <2>2, <2>3, TopFacts, CallAdvances
  <1> QED
    BY <1>2, <1>3 DEF ImageLoaded

\* The headers of the module are right, and its dependencies come next, or
\* not.
LEMMA PrepareStep ==
  ASSUME LoadIInv, Prepare, UNCHANGED boot
  PROVE  LoadIInv'
  <1>0. stack # <<>> /\ Top.at = "prepare" /\ disk' = disk /\ modules' = modules
    BY DEF Prepare, TopIs
  <1>1. Top.before = modules /\ Top.mod \notin ToSet(modules) /\ Top.head = "none"
    BY <1>0 DEF LoadIInv, TopRight
  <1> DEFINE n == Len(disk.needed[Top.mod])
  <1>2. CASE stack' = [stack EXCEPT ![1].at = "error"]
    <2> DEFINE f == [Top EXCEPT !.at = "error"]
    <2>1. stack' = [stack EXCEPT ![1] = f]
      BY <1>2 DEF Top
    <2>2. /\ f \in Frames /\ f.at = "error" /\ f.mod = Top.mod /\ f.i = Top.i
          /\ f.before = Top.before /\ f.head = "none"
      BY <1>0, <1>1, TopFacts, FrameMoved
    <2> HIDE DEF f
    <2> QED
      BY <1>0, <1>1, <2>1, <2>2, TopFacts, CallAdvances
  <1>3. CASE stack' = [stack EXCEPT ![1].at = "next", ![1].head = modules[1], ![1].i = n + 1]
    <2> DEFINE f == [Top EXCEPT !.at = "next", !.head = modules[1], !.i = n + 1]
    <2>1. stack' = [stack EXCEPT ![1] = f]
      BY <1>3 DEF Top
    <2>2. Top \in Frames /\ n \in Nat /\ DOMAIN disk.needed[Top.mod] = 1 .. n
      BY <1>0, TopFacts
    <2>3. modules[1] \in Loadable
      <3>1. Len(modules) \in Nat \ {0} /\ modules \in Seq(Loadable)
        BY <1>0, TopFacts, EmptySeq
      <3> QED
        BY <3>1, ElementOfSeq
    <2>4. f \in Frames
      <3>1. n + 1 \in Nat /\ modules[1] \in Loadable \cup {"none"}
        BY <2>2, <2>3
      <3> HIDE DEF n
      <3> QED
        BY <2>2, <3>1, Zenon DEF Frames
    <2>5. /\ f.at = "next" /\ f.mod = Top.mod /\ f.i = n + 1
          /\ f.before = Top.before /\ f.head = modules[1]
      <3> HIDE DEF n
      <3> QED
        BY <2>2 DEF Frames
    <2>6. n + 1 \in 0 .. n + 1 /\ n + 1 > 0 /\ \A j \in DOMAIN disk.needed[Top.mod] : ~(j >= n + 1)
      BY <2>2
    <2> HIDE DEF f
    <2> QED
      BY <1>0, <1>1, <2>1, <2>4, <2>5, <2>6, TopFacts, CallAdvances
  <1> QED
    BY <1>2, <1>3 DEF Prepare

\* The module is put on the list, and its constructors run.
LEMMA FinishStep ==
  ASSUME LoadIInv, Finish, UNCHANGED boot
  PROVE  LoadIInv'
  <1>0. stack # <<>> /\ Top.at = "next" /\ Top.i = 1 /\ disk' = disk
    BY DEF Finish, TopIs
  <1>1. /\ Top.before # <<>> /\ Top.head = Top.before[1]
        /\ Top.mod \notin ToSet(modules) /\ Top.mod \notin ToSet(Top.before)
        /\ \A j \in DOMAIN disk.needed[Top.mod] : disk.needed[Top.mod][j] \in ToSet(modules)
    <2>1. \A j \in DOMAIN disk.needed[Top.mod] : j >= 1
      BY <1>0, TopFacts
    <2> QED
      BY <1>0, <2>1 DEF LoadIInv, TopRight
  <1>2. /\ Top.head # "none" /\ Top.mod \in Loadable
        /\ modules \in Seq(Loadable) /\ Top.before \in Seq(Loadable)
    <2>1. Top.before \in Seq(Loadable) /\ Len(Top.before) \in Nat \ {0}
      BY <1>0, <1>1, TopFacts, EmptySeq
    <2>2. Top.before[1] \in Loadable
      BY <2>1, ElementOfSeq
    <2>3. "none" \notin Loadable
      BY LoadAssumption DEF Loadable
    <2> QED
      BY <1>0, <1>1, <2>2, <2>3, TopFacts
  <1> DEFINE ms == <<Top.mod>> \o modules
  <1>3. /\ ms \in Seq(Loadable) /\ ms # <<>> /\ ms[1] = Top.mod
        /\ ToSet(ms) = {Top.mod} \cup ToSet(modules) /\ Ends(Top.before, ms)
    BY <1>0, <1>2, InFront, TopFacts
  <1>4. Sound(disk, ms)
    <2>1. ToSet(disk.needed[Top.mod]) \subseteq ToSet(modules)
      BY <1>1 DEF ToSet
    <2> QED
      BY <1>0, <1>1, <1>2, <2>1, SoundInFront, TopFacts
  <1> HIDE DEF ms
  \* A caller that waits for this module to be loaded does not wait for itself:
  \* what it needs next is not loaded, and all that this module needs is.
  <1>5. ASSUME NEW k \in 2 .. Len(stack)
        PROVE  stack[k].mod \notin ToSet(ms)
    <2>1. stack[k].mod \notin ToSet(modules)
      BY DEF LoadIInv, CallersWait
    <2>2. stack[k].mod # Top.mod
      <3> SUFFICES ASSUME stack[k].mod = Top.mod
                   PROVE  FALSE
        OBVIOUS
      <3>1. stack[k - 1].mod \in ToSet(modules)
        BY <1>1 DEF LoadIInv, CallersWait
      <3>2. CASE k = 2
        BY <1>0, <1>1, <3>1, <3>2, TopFacts
      <3>3. CASE k # 2
        <4>1. k - 1 \in 2 .. Len(stack)
          BY <1>0, <3>3, TopFacts
        <4> QED
          BY <3>1, <4>1 DEF LoadIInv, CallersWait
      <3> QED
        BY <3>2, <3>3
    <2> QED
      BY <1>3, <2>1, <2>2
  <1>6. ASSUME modules' = modules \/ modules' = ms, Goes("error")
        PROVE  LoadIInv'
    <2> DEFINE f == [Top EXCEPT !.at = "error"]
    <2>1. stack' = [stack EXCEPT ![1] = f]
      BY <1>6 DEF Goes, Top
    <2>2. /\ f \in Frames /\ f.at = "error" /\ f.mod = Top.mod /\ f.i = Top.i
          /\ f.before = Top.before /\ f.head = Top.head
      BY <1>0, TopFacts, FrameMoved
    <2> HIDE DEF f
    <2>3. /\ modules' \in Seq(Loadable) /\ modules' # <<>> /\ Sound(disk, modules')
          /\ Ends(Top.before, modules') /\ \A k \in 2 .. Len(stack) : stack[k].mod \notin ToSet(modules')
      BY <1>0, <1>3, <1>4, <1>5, <1>6, TopFacts
    <2> QED
      BY <1>0, <1>1, <1>2, <2>1, <2>2, <2>3, TopFacts, CallAdvances
  <1>7. ASSUME modules' = ms, LoadReturns(0)
        PROVE  LoadIInv'
    BY <1>0, <1>3, <1>4, <1>5, <1>7, CallReturns
  <1> QED
    BY <1>6, <1>7 DEF Finish, ms

\* What the failing call has loaded is unloaded, and nothing else.
LEMMA LoadErrorStep ==
  ASSUME LoadIInv, LoadError, UNCHANGED boot
  PROVE  LoadIInv'
  <1>0. stack # <<>> /\ Top.at = "error" /\ disk' = disk /\ LoadReturns(-1)
    BY DEF LoadError, TopIs
  <1>1. /\ Top.mod \notin ToSet(Top.before)
        /\ IF Top.head = "none" THEN modules = Top.before
           ELSE Top.before # <<>> /\ Top.head = Top.before[1]
    BY <1>0 DEF LoadIInv, TopRight
  <1>2. Top.before # <<>>
    BY <1>0, <1>1, TopFacts
  <1> DEFINE left == IF Top.head = "none" THEN modules ELSE UnloadedSince(Top.head)
  <1>3. left = Top.before
    <2>1. CASE Top.head = "none"
      BY <1>1, <2>1
    <2>2. CASE Top.head # "none"
      <3>1. \A i, j \in DOMAIN modules : modules[i] = modules[j] => i = j
        BY <1>0, TopFacts DEF Sound
      <3> QED
        BY <1>0, <1>1, <2>2, <3>1, TopFacts, UnloadsTo
    <2> QED
      BY <2>1, <2>2
  <1>4. modules' = Top.before
    <2>1. modules' = RemoveFirst(left, Top.mod)
      BY DEF LoadError
    <2> QED
      BY <1>0, <1>1, <1>3, <2>1, TopFacts, NotRemoved
  <1>5. \A k \in 2 .. Len(stack) : stack[k].mod \notin ToSet(Top.before)
    BY <1>0, TopFacts
  <1>6. Ends(Top.before, Top.before)
    BY <1>0, TopFacts, EndsItself
  <1> QED
    BY <1>0, <1>2, <1>4, <1>5, <1>6, TopFacts, CallReturns

\* The next dependency is loaded by a call of its own.
LEMMA DependencyStep ==
  ASSUME LoadIInv, Dependency, UNCHANGED boot
  PROVE  LoadIInv'
  <1>0. stack # <<>> /\ Top.at = "next" /\ Top.i > 1 /\ disk' = disk /\ modules' = modules
    BY DEF Dependency, TopIs
  <1>1. /\ Top.before # <<>> /\ Top.head = Top.before[1] /\ Top.mod \notin ToSet(modules)
        /\ \A j \in DOMAIN disk.needed[Top.mod] :
             j >= Top.i => disk.needed[Top.mod][j] \in ToSet(modules)
    BY <1>0 DEF LoadIInv, TopRight
  <1> DEFINE needed == disk.needed[Top.mod]
             k == Top.i - 1
             c == Call(needed[k])
             f == [Top EXCEPT !.at = "waits", !.i = k]
             s == [stack EXCEPT ![1] = f]
  <1>2. /\ k \in DOMAIN needed /\ k \in Nat /\ needed[k] \in Modules
        /\ \A j \in DOMAIN needed : j > k => j >= Top.i
    <2>1. /\ Top.i \in 0 .. Len(needed) + 1 /\ Len(needed) \in Nat /\ DOMAIN needed = 1 .. Len(needed)
          /\ needed \in Seq(Modules)
      BY <1>0, TopFacts
    <2>2. k \in 1 .. Len(needed) /\ k \in Nat
      BY <1>0, <2>1
    <2>3. \A j \in 1 .. Len(needed) : j > k => j >= Top.i
      BY <1>0, <2>1
    <2> QED
      BY <2>1, <2>2, <2>3, ElementOfSeq
  <1>3. stack' = <<c>> \o s
    <2>1. stack' = <<c>> \o [stack EXCEPT ![1].at = "waits", ![1].i = k]
      BY DEF Dependency
    <2>2. [stack EXCEPT ![1].at = "waits", ![1].i = k] = s
      BY DEF Top
    <2> QED
      BY <2>1, <2>2
  <1>4. /\ c \in Frames /\ c.mod = needed[k] /\ c.at = "find" /\ c.before = modules
        /\ c.head = "none" /\ c.i = 0
    <2>1. needed[k] \in Modules /\ modules \in Seq(Loadable) /\ 0 \in Nat
      BY <1>0, <1>2, TopFacts
    <2> HIDE DEF needed, k
    <2> QED
      BY <2>1 DEF Call, Frames
  <1>5. f \in Frames
    <2>1. Top \in Frames
      BY <1>0, TopFacts
    <2>2. k \in Nat
      BY <1>2
    <2> HIDE DEF k
    <2> QED
      BY <2>1, <2>2, Zenon DEF Frames
  <1>6. f.at = "waits" /\ f.mod = Top.mod /\ f.i = k /\ f.before = Top.before /\ f.head = Top.head
    <2>1. Top \in Frames
      BY <1>0, TopFacts
    <2> HIDE DEF k
    <2> QED
      BY <2>1 DEF Frames
  <1> HIDE DEF c, f, k
  <1>7. /\ s \in Seq(Frames) /\ Len(s) = Len(stack) /\ s[1] = f
        /\ \A j \in 2 .. Len(stack) : s[j] = stack[j]
    <2>1. /\ 1 \in 1 .. Len(stack) /\ stack \in Seq(Frames)
          /\ \A j \in 2 .. Len(stack) : j \in 1 .. Len(stack) /\ j # 1
      BY <1>0, TopFacts DEF LoadTyped
    <2>2. /\ s \in Seq(Frames) /\ Len(s) = Len(stack)
          /\ \A j \in 1 .. Len(stack) : s[j] = IF j = 1 THEN f ELSE stack[j]
      BY <1>5, <2>1, ExceptSeq
    <2> QED
      BY <2>1, <2>2
  <1> HIDE DEF s
  <1>8. /\ stack' \in Seq(Frames) /\ Len(stack') = Len(stack) + 1 /\ stack' # <<>>
        /\ DOMAIN stack' = 1 .. Len(stack) + 1
        /\ stack'[1] = c /\ \A j \in 1 .. Len(stack) : stack'[j + 1] = s[j]
    BY <1>3, <1>4, <1>7, InFront
  <1>9. Len(stack) \in Nat /\ Len(stack) > 0 /\ Top = stack[1] /\ 1 \in 1 .. Len(stack)
    BY <1>0, TopFacts
  <1>10. stack'[2] = f
    BY <1>7, <1>8, <1>9
  <1>11. \A j \in 3 .. Len(stack) + 1 : /\ stack'[j] = stack[j - 1] /\ j - 1 \in 2 .. Len(stack)
                                        /\ stack'[j - 1].mod = stack[j - 2].mod
                                        /\ stack'[j - 1].before = stack[j - 2].before
                                        /\ stack[j - 1].at = "waits" /\ j - 1 \in DOMAIN stack
    <2> SUFFICES ASSUME NEW j \in 3 .. Len(stack) + 1
                 PROVE  /\ stack'[j] = stack[j - 1] /\ j - 1 \in 2 .. Len(stack)
                        /\ stack'[j - 1].mod = stack[j - 2].mod
                        /\ stack'[j - 1].before = stack[j - 2].before
                        /\ stack[j - 1].at = "waits" /\ j - 1 \in DOMAIN stack
      OBVIOUS
    <2>1. /\ j - 1 \in 1 .. Len(stack) /\ j - 1 \in 2 .. Len(stack) /\ j - 1 + 1 = j
          /\ j - 2 \in 1 .. Len(stack) /\ j - 2 + 1 = j - 1 /\ j - 1 > 1
      BY <1>9
    <2>2. stack'[j] = stack[j - 1]
      BY <1>7, <1>8, <2>1
    <2>3. stack'[j - 1] = s[j - 2]
      BY <1>8, <2>1
    <2>4. s[j - 2].mod = stack[j - 2].mod /\ s[j - 2].before = stack[j - 2].before
      <3>1. CASE j - 2 = 1
        BY <1>6, <1>7, <1>9, <3>1
      <3>2. CASE j - 2 # 1
        <4>1. j - 2 \in 2 .. Len(stack)
          BY <2>1, <3>2
        <4> QED
          BY <1>7, <4>1
      <3> QED
        BY <3>1, <3>2
    <2>5. stack[j - 1].at = "waits" /\ j - 1 \in DOMAIN stack
      BY <1>0, <2>1, TopFacts DEF LoadTyped, LoadTypeOK
    <2> QED
      BY <2>1, <2>2, <2>3, <2>4, <2>5
  <1>12. \A j \in 2 .. Len(stack) + 1 : j = 2 \/ j \in 3 .. Len(stack) + 1
    BY <1>9
  <1>13. Chain'
    <2>1. Ends(c.before, modules) /\ Ends(f.before, c.before)
      BY <1>0, <1>4, <1>6, TopFacts, EndsItself
    <2>2. \A j \in 3 .. Len(stack) + 1 : Ends(stack'[j].before, stack'[j - 1].before)
      <3>1. ASSUME NEW j \in 3 .. Len(stack) + 1
            PROVE  Ends(stack'[j].before, stack'[j - 1].before)
        <4>1. Ends(stack[j - 1].before, stack[(j - 1) - 1].before)
          BY <1>11 DEF LoadIInv, Chain
        <4>2. (j - 1) - 1 = j - 2
          BY <1>9
        <4> QED
          BY <1>11, <4>1, <4>2
      <3> QED
        BY <3>1
    <2>3. \A j \in 2 .. Len(stack) + 1 : Ends(stack'[j].before, stack'[j - 1].before)
      BY <1>8, <1>10, <1>12, <2>1, <2>2
    <2> QED
      BY <1>0, <1>8, <2>1, <2>3 DEF Chain, Top
  <1>14. TopRight'
    BY <1>0, <1>4, <1>8 DEF TopRight, Top
  <1>15. CallersWait'
    <2> DEFINE Caller(g, caller) ==
                 /\ g.before # <<>> /\ g.head = g.before[1]
                 /\ g.mod \notin ToSet(modules)
                 /\ g.i \in DOMAIN disk.needed[g.mod] /\ disk.needed[g.mod][g.i] = caller.mod
                 /\ \A j \in DOMAIN disk.needed[g.mod] :
                      j > g.i => disk.needed[g.mod][j] \in ToSet(caller.before)
    <2>1. Caller(f, c)
      BY <1>1, <1>2, <1>4, <1>6
    <2>2. \A j \in 2 .. Len(stack) : Caller(stack[j], stack[j - 1])
      BY DEF LoadIInv, CallersWait
    <2>3. ASSUME NEW j \in 3 .. Len(stack) + 1
          PROVE  Caller(stack'[j], stack'[j - 1])
      <3>1. Caller(stack[j - 1], stack[(j - 1) - 1])
        BY <1>11, <2>2
      <3>2. (j - 1) - 1 = j - 2
        BY <1>9
      <3> QED
        BY <1>11, <3>1, <3>2
    <2>4. \A j \in 2 .. Len(stack) + 1 : Caller(stack'[j], stack'[j - 1])
      BY <1>8, <1>10, <1>12, <2>1, <2>3
    <2> QED
      BY <1>0, <1>8, <2>4 DEF CallersWait
  <1>16. LoadTyped'
    <2>1. LoadTyped /\ boot' = boot
      BY DEF LoadIInv
    <2>2. ASSUME NEW j \in DOMAIN stack'
          PROVE  /\ stack'[j].at \in {"find", "image", "prepare", "next", "waits", "error"}
                 /\ j > 1 => stack'[j].at = "waits"
                 /\ stack'[j].i \in 0 .. Len(disk.needed[stack'[j].mod]) + 1
      <3>1. CASE j = 1
        <4>1. Len(disk.needed[needed[k]]) \in Nat
          <5>1. \A m \in Modules : disk.needed[m] \in Seq(Modules)
            BY <2>1, NeedsTyped
          <5>2. disk.needed[needed[k]] \in Seq(Modules)
            BY <1>2, <5>1
          <5> QED
            BY <5>2, LenProperties
        <4> QED
          BY <1>4, <1>8, <3>1, <4>1
      <3>2. CASE j = 2
        <4>1. k \in 0 .. Len(needed) + 1
          BY <1>0, <1>2, TopFacts
        <4> QED
          BY <1>6, <1>10, <3>2, <4>1
      <3>3. CASE j # 1 /\ j # 2
        <4>1. j \in 3 .. Len(stack) + 1
          BY <1>8, <1>9, <3>3
        <4>2. stack[j - 1].i \in 0 .. Len(disk.needed[stack[j - 1].mod]) + 1
          BY <1>11, <2>1, <4>1 DEF LoadTyped, LoadTypeOK
        <4> QED
          BY <1>11, <4>1, <4>2
      <3> QED
        BY <3>1, <3>2, <3>3
    <2>3. LoadTypeOK'
      BY <1>0, <2>1, <2>2 DEF LoadTypeOK, LoadTyped
    <2> QED
      BY <1>0, <1>8, <1>9, <2>1, <2>3 DEF LoadTyped
  <1>17. LoadAtomic'
    BY <1>0, <1>8 DEF LoadAtomic, LoadIInv
  <1> QED
    BY <1>13, <1>14, <1>15, <1>16, <1>17 DEF LoadIInv

\* Every step of the loader keeps the invariant.
LEMMA StepLoad ==
  ASSUME LoadIInv, LoadStep, UNCHANGED boot
  PROVE  LoadIInv'
  BY FindModuleStep, ImageLoadedStep, PrepareStep, DependencyStep, FinishStep, LoadErrorStep
     DEF LoadStep

\* The menu is loaded from the disk that there is.
LEMMA StartLoad ==
  ASSUME LoadIInv, ConfigRead
  PROVE  LoadIInv'
  <1>0. /\ LoadTyped /\ modules = Resident /\ stack = <<>> /\ modules' = modules
        /\ disk' \in Disks /\ stack' = <<Call("menu")>> /\ boot'.stage = "load"
    BY DEF LoadIInv, LoadTyped, ConfigRead
  <1> DEFINE c == Call("menu")
  <1>1. /\ c \in Frames /\ c.mod = "menu" /\ c.at = "find" /\ c.before = modules
        /\ c.head = "none" /\ c.i = 0
    <2>1. "menu" \in Modules /\ modules \in Seq(Loadable) /\ 0 \in Nat
      BY <1>0, LoadAssumption DEF LoadTyped
    <2> QED
      BY <2>1 DEF Call, Frames
  <1> HIDE DEF c
  <1>2. stack' \in Seq(Frames) /\ Len(stack') = 1 /\ stack'[1] = c /\ stack' # <<>>
    <2>1. stack' = <<c>>
      BY <1>0 DEF c
    <2> QED
      BY <1>1, <2>1
  <1>3. Len(disk'.needed["menu"]) \in Nat
    <2>1. disk'.needed["menu"] \in Seq(Modules)
      BY <1>0, LoadAssumption
    <2> QED
      BY <2>1, LenProperties
  <1>4. LoadTyped'
    <2>1. DOMAIN stack' = {1}
      BY <1>2, LenProperties
    <2>2. LoadTypeOK'
      BY <1>0, <1>1, <1>2, <1>3, <2>1 DEF LoadTypeOK, LoadTyped
    <2> QED
      BY <1>0, <1>2, <2>2 DEF LoadTyped
  <1>5. Chain'
    <2>1. Ends(modules, modules)
      BY <1>0, EndsItself DEF LoadTyped
    <2>2. 2 .. Len(stack') = {}
      BY <1>2
    <2> QED
      BY <1>0, <1>1, <1>2, <2>1, <2>2 DEF Chain, Top
  <1>6. TopRight'
    BY <1>0, <1>1, <1>2 DEF TopRight, Top
  <1>7. CallersWait'
    <2>1. 2 .. Len(stack') = {}
      BY <1>2
    <2> QED
      BY <2>1 DEF CallersWait
  <1>8. LoadAtomic'
    <2>1. \A i \in DOMAIN modules : modules[i] \notin Modules
      BY <1>0, LoadAssumption DEF ToSet
    <2> QED
      BY <1>0, <1>2, <2>1 DEF LoadAtomic, LoadIInv
  <1> QED
    BY <1>4, <1>5, <1>6, <1>7, <1>8 DEF LoadIInv

\* Elsewhere no module is loaded.
LEMMA NoLoad ==
  ASSUME LoadIInv, UNCHANGED loadVars,
         boot'.stage # "load" => stack = <<>>,
         boot'.stage \in {"init", "dhcp", "mac"} => modules = Resident
  PROVE  LoadIInv'
  BY DEF LoadIInv, LoadTyped, Chain, TopRight, CallersWait, LoadAtomic, LoadTypeOK, Top, loadVars

\* Initially the modules that need no file are the only ones.
LEMMA InitLoad ==
  ASSUME Init
  PROVE  LoadIInv
  <1>0. disk = NoDisk /\ modules = Resident /\ stack = <<>> /\ loaded = NotLoaded /\ boot.stage = "init"
    BY DEF Init, LoadInit
  <1>1. Resident \in Seq(Loadable) /\ Resident # <<>>
    <2>1. Len(Resident) \in Nat /\ Resident \in [1 .. Len(Resident) -> STRING]
          /\ DOMAIN Resident = 1 .. Len(Resident)
      BY LoadAssumption, LenProperties
    <2>2. Resident \in [1 .. Len(Resident) -> Loadable]
      BY <2>1 DEF Loadable, ToSet
    <2> QED
      BY <2>1, <2>2, LoadAssumption
  <1>2. Len(stack) = 0 /\ DOMAIN stack = {} /\ stack \in Seq(Frames)
    BY <1>0, EmptySeq
  <1>3. LoadTyped
    <2>1. ToSet(Resident) \subseteq Loadable
      BY DEF Loadable
    <2> QED
      BY <1>0, <1>1, <1>2, <2>1 DEF LoadTyped, LoadTypeOK, Loadable
  <1>4. LoadAtomic
    <2>1. \A i \in DOMAIN modules : modules[i] \notin Modules
      BY <1>0, LoadAssumption DEF ToSet
    <2> QED
      BY <1>0, <2>1, LoadAssumption DEF LoadAtomic, NotLoaded
  <1> QED
    BY <1>0, <1>2, <1>3, <1>4 DEF LoadIInv, Chain, TopRight, CallersWait

\* The invariant of the modules says what LoadInv states.
LEMMA LoadRight ==
  ASSUME LoadIInv
  PROVE  LoadInv
  BY DEF LoadIInv, LoadTyped, LoadInv

-----------------------------------------------------------------------------
(***************************************************************************)
(* The menu.                                                               *)
(***************************************************************************)

Runs ==
  [at : {"off", "start", "hidden", "loop", "key", "enter", "passwd", "help",
         "returned", "over"},
   entry : Int, top : Int, key_timeout : Nat, timeout_left : Nat,
   hotkey : BOOLEAN, by : {"none", "cursor", "hotkey"}, chose : BOOLEAN]

RunTypeOK == run \in Runs

\* The menu is one of the configuration's, and so are those it has been in.
InMenu ==
  run.at # "off" =>
    /\ conf \in MenuConfigs /\ cm \in DOMAIN conf.menus /\ DOMAIN cur = DOMAIN conf.menus
    /\ \A m \in DOMAIN cur : cur[m].entry \in Int /\ cur[m].top \in Int

\* An entry that was drawn is one of the menu's; the cursor is on one that is
\* enabled, or at an end of the menu until it is drawn.
OnEntry ==
  /\ run.at \in {"start", "hidden"} => run.by = "none"
  /\ run.at \in {"key", "enter", "passwd", "help"} => run.entry \in 0 .. Nentries(cm) - 1
  /\ run.by = "cursor" /\ Enabled(cm, 0 .. Nentries(cm)) # {} =>
       /\ run.at \in {"key", "enter", "passwd", "help"} => ~IsDisabled(cm, run.entry)
       /\ run.at = "loop" /\ run.entry \in 1 .. Nentries(cm) - 2 => ~IsDisabled(cm, run.entry)

InWindow ==
  run.at = "key" =>
    /\ run.top \in 0 .. MaxOf(0, Nentries(cm) - MENU_ROWS)
    /\ run.top <= run.entry /\ run.entry < run.top + MENU_ROWS

\* The timeout runs only as long as the user has chosen nothing.
TimerRuns ==
  /\ run.at \in {"start", "hidden"} => ~run.chose
  /\ run.at \in {"loop", "key", "help"} /\ run.key_timeout # 0 => ~run.chose /\ run.timeout_left # 0
  /\ run.at = "enter" => run.key_timeout = 0 \/ run.timeout_left # 0
  /\ run.at = "passwd" => run.key_timeout = 0

TotalKept ==
  /\ totaltimeout \in Nat /\ keys \in 0 .. MAXKEYS
  /\ run.at # "off" /\ conf.total # 0 => totaltimeout # 0
  /\ totaltimeout # 0 => conf.total # 0

NothingRan == run.at = "off" => ran = NoneRan /\ adv = NULL /\ picked = NoPick

PickTyped ==
  picked = [menu |-> picked.menu, entry |-> picked.entry, word |-> picked.word,
            saved |-> picked.saved]

\* What is acted on is what the user picked: of the entry on the screen or of
\* a hotkey, whose entry is not moved when it is drawn.
PickedRight ==
  /\ run.at = "key" => cur[cm].entry = run.entry
  /\ run.at \in {"enter", "passwd"} => picked.menu = cm /\ picked.entry = run.entry
  /\ run.hotkey =>
       /\ run.at = "loop" /\ run.entry \in 0 .. Nentries(cm) - 1 /\ ~IsDisabled(cm, run.entry)
       /\ Entry(cm, run.entry).immediate => picked.menu = cm /\ picked.entry = run.entry

\* shiftkey mode is over once the menu is shown.
ShiftFirst ==
  shiftkey => run.at \in {"start", "returned", "over"} /\ conf.shift /\ picked = NoPick

AdvSaved ==
  adv # NULL => LET e == Entry(picked.saved[1], picked.saved[2])
                IN e.label = adv /\ e.save /\ ~e.passwd

MenuIInv ==
  /\ RunTypeOK /\ InMenu /\ OnEntry /\ InWindow /\ TimerRuns /\ TotalKept /\ NothingRan
  /\ PickTyped /\ PickedRight /\ ShiftFirst /\ RunsChosen

-----------------------------------------------------------------------------
\* Every nonempty set of numbers has a least element.
LEMMA LeastIn ==
  ASSUME NEW S \in SUBSET Nat, S # {}
  PROVE  Least(S) \in S /\ \A k \in S : Least(S) <= k
  <1>1. PICK m \in S : \A k \in S : ~(<<k, m>> \in OpToRel(<, Nat))
    BY NatLessThanWellFounded, WFMin
  <1>2. \A k \in S : ~(k < m)
    BY <1>1 DEF OpToRel
  <1>3. \A k \in S : m <= k
    BY <1>2
  <1> QED
    BY <1>3 DEF Least

\* So has every nonempty set of numbers up to n a greatest one.
LEMMA MostIn ==
  ASSUME NEW n \in Nat, NEW S \in SUBSET (0 .. n), S # {}
  PROVE  Most(S) \in S /\ \A k \in S : k <= Most(S)
  <1> DEFINE T == {n - k : k \in S}
  <1>0. \A k \in S : k \in 0 .. n
    OBVIOUS
  <1>1. T \in SUBSET Nat /\ T # {}
    <2>1. \A k \in S : n - k \in Nat
      BY <1>0
    <2> QED
      BY <2>1
  <1>2. Least(T) \in T /\ \A k \in T : Least(T) <= k
    BY <1>1, LeastIn
  <1>3. PICK m \in S : Least(T) = n - m
    BY <1>2
  <1>4. \A k \in S : n - k \in T
    OBVIOUS
  <1>5. \A k \in S : n - m <= n - k
    BY <1>2, <1>3, <1>4
  <1>6. \A k \in S : k <= m
    BY <1>0, <1>5
  <1> QED
    BY <1>6 DEF Most

\* Whatever entry the cursor is moved to, one of the menu is drawn; it is
\* enabled if that entry, unless it is at an end of the menu, is.
LEMMA NormalisedIn ==
  ASSUME NEW m, Nentries(m) \in Nat \ {0}, NEW e \in Int
  PROVE  /\ Normalised(m, e) \in 0 .. Nentries(m) - 1
         /\ Enabled(m, 0 .. Nentries(m)) # {} /\ (e \in 1 .. Nentries(m) - 2 => ~IsDisabled(m, e))
              => ~IsDisabled(m, Normalised(m, e))
  <1> DEFINE n == Nentries(m)
             on == Enabled(m, 0 .. n - 1)
             low == Least(on \cup {n})
             high == Most(on \cup {0})
             up == IF e > 0 THEN e ELSE low
  <1>1. on = Enabled(m, 0 .. n) /\ on \in SUBSET (0 .. n - 1)
        /\ \A i \in 0 .. n - 1 : i \in on <=> ~IsDisabled(m, i)
    BY DEF Enabled
  <1>2. low \in on \cup {n} /\ \A k \in on \cup {n} : low <= k
    <2>1. on \cup {n} \in SUBSET Nat /\ on \cup {n} # {}
      BY <1>1
    <2> QED
      BY <2>1, LeastIn
  <1>3. high \in on \cup {0} /\ \A k \in on \cup {0} : k <= high
    <2>1. n - 1 \in Nat /\ on \cup {0} \in SUBSET (0 .. n - 1) /\ on \cup {0} # {}
      BY <1>1
    <2> QED
      BY <2>1, MostIn
  <1>4. Normalised(m, e) = IF up < n - 1 THEN up ELSE high
    BY DEF Normalised
  <1> HIDE DEF low, high, on
  <1>5. n \in Nat \ {0} /\ (\A k \in on : k \in 0 .. n - 1)
    BY <1>1
  <1> HIDE DEF n
  <1>6. low \in 0 .. n /\ (low # n => low \in on) /\ high \in 0 .. n - 1
    BY <1>2, <1>3, <1>5
  <1>7. on # {} => high \in on
    BY <1>3, <1>5
  <1>8. CASE e > 0
    <2>1. Normalised(m, e) = IF e < n - 1 THEN e ELSE high
      BY <1>4, <1>8
    <2>2. e \in 1 .. n - 2 <=> e < n - 1
      BY <1>5, <1>8
    <2> QED
      BY <1>1, <1>6, <1>7, <1>8, <2>1, <2>2 DEF n
  <1>9. CASE ~(e > 0)
    <2>1. Normalised(m, e) = IF low < n - 1 THEN low ELSE high
      BY <1>4, <1>9
    <2>2. low < n - 1 => low \in on /\ low \in 0 .. n - 1
      BY <1>5, <1>6
    <2> QED
      BY <1>1, <1>6, <1>7, <2>1, <2>2 DEF n
  <1> QED
    BY <1>8, <1>9

\* An entry of the menu that is enabled is drawn as it is.
LEMMA NormalisedStays ==
  ASSUME NEW m, Nentries(m) \in Nat \ {0}, NEW e \in 0 .. Nentries(m) - 1, ~IsDisabled(m, e)
  PROVE  Normalised(m, e) = e
  <1> DEFINE n == Nentries(m)
             on == Enabled(m, 0 .. n - 1)
             low == Least(on \cup {n})
             high == Most(on \cup {0})
             up == IF e > 0 THEN e ELSE low
  <1>1. e \in on /\ on \in SUBSET (0 .. n - 1) /\ n - 1 \in Nat
    BY DEF Enabled
  <1>2. low \in on \cup {n} /\ \A k \in on \cup {n} : low <= k
    <2>1. on \cup {n} \in SUBSET Nat /\ on \cup {n} # {}
      BY <1>1
    <2> QED
      BY <2>1, LeastIn
  <1>3. high \in on \cup {0} /\ \A k \in on \cup {0} : k <= high
    <2>1. on \cup {0} \in SUBSET (0 .. n - 1) /\ on \cup {0} # {}
      BY <1>1
    <2> QED
      BY <1>1, <2>1, MostIn
  <1>4. Normalised(m, e) = IF up < n - 1 THEN up ELSE high
    BY DEF Normalised
  <1> HIDE DEF low, high, on
  <1>5. /\ low \in 0 .. n /\ low <= e /\ high \in 0 .. n - 1 /\ e <= high
    BY <1>1, <1>2, <1>3
  <1>6. up = e
    BY <1>5
  <1> HIDE DEF n, up
  <1>7. e \in 0 .. n - 1 /\ n - 1 \in Nat /\ n \in Nat
    BY <1>1 DEF n
  <1> QED
    BY <1>4, <1>5, <1>6, <1>7

\* The entry stays in the window, wherever the window was.
LEMMA ScrolledTo ==
  ASSUME NEW m, Nentries(m) \in Nat \ {0}, NEW e \in 0 .. Nentries(m) - 1, NEW top \in Int
  PROVE  /\ Scrolled(m, e, top) \in 0 .. MaxOf(0, Nentries(m) - MENU_ROWS)
         /\ Scrolled(m, e, top) <= e /\ e < Scrolled(m, e, top) + MENU_ROWS
  BY MenuAssumption DEF Scrolled, MaxOf, MinOf

\* The cursor keys look for an entry that is enabled, or stop at an end.
LEMMA NextEnabledIn ==
  ASSUME NEW e \in Int, NEW step \in {-1, 1}, NEW stop \in Int, Nentries(cm) \in Nat \ {0}
  PROVE  \/ /\ NextEnabled(e, step, stop) \in 0 .. Nentries(cm) - 1
            /\ ~IsDisabled(cm, NextEnabled(e, step, stop))
         \/ NextEnabled(e, step, stop) = stop
         \/ /\ NextEnabled(e, step, stop) = e
            /\ \A i \in 0 .. Nentries(cm) - 1 : ~(i * step > e * step)
  <1> DEFINE n == Nentries(cm)
             ahead == {i \in 0 .. n - 1 : i * step > e * step}
             hits == Enabled(cm, ahead)
  <1>1. hits \in SUBSET (0 .. n - 1) /\ \A i \in hits : ~IsDisabled(cm, i)
    BY DEF Enabled
  <1>2. n - 1 \in Nat /\ hits \in SUBSET Nat
    BY <1>1
  <1>3. hits # {} => Least(hits) \in hits /\ Most(hits) \in hits
    BY <1>1, <1>2, LeastIn, MostIn
  <1>4. NextEnabled(e, step, stop) =
          IF ahead = {} THEN e
          ELSE IF hits = {} THEN stop
          ELSE IF step > 0 THEN Least(hits) ELSE Most(hits)
    BY DEF NextEnabled
  <1> HIDE DEF hits
  <1> QED
    BY <1>1, <1>3, <1>4

\* A key comes in time: of the total timeout, if there is one, something is
\* left.
LEMMA GetKeyTyped ==
  ASSUME TotalKept, NEW t \in Nat, NEW g \in GetKey(t)
  PROVE  /\ g.total \in Nat /\ g.keys \in 0 .. MAXKEYS /\ (totaltimeout # 0 <=> g.total # 0)
         /\ g.up => totaltimeout # 0
  <1> DEFINE limits == {x \in {t, totaltimeout} : x # 0}
             to == WaitsFor(t)
  <1>1. totaltimeout \in Nat /\ keys \in 0 .. MAXKEYS /\ MAXKEYS \in Nat
    BY MenuAssumption DEF TotalKept
  <1>2. to \in Nat
    <2>1. limits # {} => \E x \in limits : \A y \in limits : x <= y
      BY <1>1
    <2> QED
      BY <1>1, <2>1 DEF WaitsFor
  <1>3. ASSUME NEW u \in 0 .. to, NEW k, NEW left
        PROVE  /\ After(u, k, left).total \in Nat /\ After(u, k, left).keys = left
               /\ totaltimeout # 0 <=> After(u, k, left).total # 0
               /\ After(u, k, left).up => totaltimeout # 0
    <2> DEFINE up == totaltimeout # 0 /\ totaltimeout <= u
               total == IF totaltimeout = 0 \/ up THEN totaltimeout ELSE totaltimeout - u
    <2>1. total \in Nat /\ (totaltimeout # 0 <=> total # 0)
      BY <1>1, <1>2
    <2>2. After(u, k, left) = [key |-> k, up |-> up, keys |-> left, total |-> total]
      BY DEF After, TimeIsUp
    <2> HIDE DEF total, up
    <2>3. After(u, k, left).total = total /\ After(u, k, left).keys = left
      BY <2>2
    <2>4. After(u, k, left).up => totaltimeout # 0
      BY Zenon DEF After, TimeIsUp
    <2> QED
      BY <2>1, <2>3, <2>4
  <1>4. \/ \E u \in 0 .. to, k \in conf.keys : g = After(u, k, keys - 1) /\ keys > 0
        \/ g = After(to, KEY_NONE, keys)
    BY DEF GetKey
  <1> QED
    BY <1>1, <1>2, <1>3, <1>4

\* What the assumption says of the menu on the screen.
LEMMA InMenuFacts ==
  ASSUME InMenu, run.at # "off"
  PROVE  /\ Nentries(cm) \in Nat \ {0} /\ cm \in DOMAIN conf.menus /\ cm \in DOMAIN cur
         /\ cur[cm].entry \in Int /\ cur[cm].top \in Int
         /\ conf.menus[cm].defentry \in 0 .. Nentries(cm) - 1 /\ conf.menus[cm].timeout \in Nat
         /\ \A k \in DOMAIN conf.menus[cm].hotkeys :
              /\ conf.menus[cm].hotkeys[k] \in 0 .. Nentries(cm) - 1
              /\ ~IsDisabled(cm, conf.menus[cm].hotkeys[k])
         /\ \A i \in 0 .. Nentries(cm) - 1 :
              Entry(cm, i).action \in {"MA_SUBMENU", "MA_GOTO", "MA_EXIT"}
                => Entry(cm, i).submenu \in DOMAIN conf.menus
  <1> DEFINE last == Len(conf.menus[cm].entries) - 1
  <1>1. /\ last \in Nat /\ conf.menus[cm].defentry \in 0 .. last /\ conf.menus[cm].timeout \in Nat
        /\ \A k \in DOMAIN conf.menus[cm].hotkeys :
             /\ conf.menus[cm].hotkeys[k] \in 0 .. last
             /\ conf.menus[cm].entries[conf.menus[cm].hotkeys[k] + 1].action # "MA_DISABLED"
        /\ \A i \in 1 .. last + 1 :
             conf.menus[cm].entries[i].action \in {"MA_SUBMENU", "MA_GOTO", "MA_EXIT"}
               => conf.menus[cm].entries[i].submenu \in DOMAIN conf.menus
    BY MenuAssumption DEF InMenu
  <1>2. Nentries(cm) = Len(conf.menus[cm].entries)
    BY DEF Nentries, Entries
  <1>3. Nentries(cm) \in Nat \ {0} /\ last = Nentries(cm) - 1
    BY <1>1, <1>2
  <1>4. ASSUME NEW i \in 0 .. Nentries(cm) - 1,
               Entry(cm, i).action \in {"MA_SUBMENU", "MA_GOTO", "MA_EXIT"}
        PROVE  Entry(cm, i).submenu \in DOMAIN conf.menus
    <2>1. i + 1 \in 1 .. last + 1
      BY <1>3
    <2> QED
      BY <1>1, <1>4, <2>1 DEF Entry, Entries
  <1> QED
    BY <1>1, <1>3, <1>4 DEF InMenu, IsDisabled, Entry, Entries

-----------------------------------------------------------------------------
\* Nothing was stored.
LEMMA NothingSaved ==
  ASSUME RunsChosen, UNCHANGED <<conf, adv>>, picked'.saved = picked.saved
  PROVE  AdvSaved'
  BY DEF RunsChosen, AdvSaved, Entry, Entries

\* What run_menu returns is asked for only when it returns.
LEMMA NothingNewRan ==
  ASSUME run'.at # "returned", AdvSaved'
  PROVE  RunsChosen'
  BY DEF RunsChosen, AdvSaved, At

\* The user picks nothing new, and nothing is stored.
LEMMA NothingPicked ==
  ASSUME MenuIInv, UNCHANGED <<conf, adv, picked>>
  PROVE  AdvSaved' /\ PickTyped'
  BY NothingSaved DEF MenuIInv, PickTyped

\* Once run_menu has begun, it is not in shiftkey mode.
LEMMA NoShift ==
  ASSUME MenuIInv, run.at \notin {"start", "returned", "over"}, UNCHANGED shiftkey
  PROVE  ShiftFirst'
  BY DEF MenuIInv, ShiftFirst

\* The menu is the same.
LEMMA SameMenu ==
  ASSUME InMenu, run.at # "off", UNCHANGED <<conf, cm, cur>>
  PROVE  InMenu'
  BY DEF InMenu

\* Outside run_menu nothing is asked of its locals.
LEMMA NotInMenu ==
  ASSUME NEW at \in {"start", "returned", "over"}, run' = [NotRun EXCEPT !.at = at]
  PROVE  /\ RunTypeOK' /\ OnEntry' /\ InWindow' /\ TimerRuns' /\ NothingRan' /\ PickedRight'
         /\ run'.at = at
  <1>1. NotRun \in Runs
    BY DEF NotRun, Runs
  <1>2. run' \in Runs
    BY <1>1, Zenon DEF Runs
  <1>3. run'.at = at /\ run'.by = "none" /\ run'.chose = FALSE /\ run'.hotkey = FALSE
    BY DEF NotRun
  <1> QED
    BY <1>2, <1>3 DEF RunTypeOK, OnEntry, InWindow, TimerRuns, NothingRan, PickedRight

\* What may be run: an entry that was picked, with its password, or the default
\* entry for a reason.
MayRun(entry, how) ==
  /\ how \in {"enter", "password"} =>
       /\ cm = picked'.menu /\ entry = picked'.entry
       /\ Entry(cm, entry).passwd => picked'.word
  /\ how \notin {"enter", "password"} /\ entry \notin {NOCMD, ONTIMEOUT, HIDEKEY} =>
       how \in {"timeout", "total", "shift"} /\ entry = conf.menus[cm].defentry
  /\ how = "timeout" => ~run.chose
  /\ how = "total" => conf.total # 0
  /\ how = "shift" => conf.shift /\ picked' = NoPick

\* run_menu returns what may be run.
LEMMA ReturnsRight ==
  ASSUME MenuIInv, run.at # "off", UNCHANGED <<conf, cm, cur>>, TotalKept', AdvSaved',
         PickTyped', ShiftFirst',
         NEW entry, NEW how, Returns(entry, how), MayRun(entry, how)
  PROVE  MenuIInv'
  <1>1. /\ RunTypeOK' /\ OnEntry' /\ InWindow' /\ TimerRuns' /\ NothingRan' /\ InMenu'
        /\ PickedRight'
    BY NotInMenu, SameMenu DEF Returns, MenuIInv
  <1>2. /\ ran'.menu = cm /\ ran'.entry = entry /\ ran'.how = how /\ ran'.chose = run.chose
    BY DEF Returns
  <1>3. RunsChosen'
    BY <1>2 DEF MayRun, RunsChosen, AdvSaved, Entry, Entries
  <1> QED
    BY <1>1, <1>3 DEF MenuIInv

\* So it does at a timeout.
LEMMA TimeoutRight ==
  ASSUME MenuIInv, run.at \notin {"off", "start", "returned", "over"},
         UNCHANGED <<conf, cm, cur, shiftkey, adv, picked>>, TotalKept',
         NEW how \in {"timeout", "total"}, TimeoutReturns(how), how = "timeout" => ~run.chose,
         how = "total" => conf.total # 0
  PROVE  MenuIInv'
  <1> DEFINE entry == IF conf.menus[cm].ontimeout THEN ONTIMEOUT
                      ELSE Cmdline(cm, conf.menus[cm].defentry)
  <1>1. Returns(entry, how)
    BY DEF TimeoutReturns
  <1>2. entry \in {ONTIMEOUT, NOCMD} \/ entry = conf.menus[cm].defentry
    BY DEF Cmdline
  <1>3. MayRun(entry, how)
    BY <1>2 DEF MayRun
  <1> QED
    BY <1>1, <1>3, ReturnsRight, NothingPicked, NoShift

\* The menu is shown.
LEMMA ShowsMenu ==
  ASSUME MenuIInv, run.at \in {"start", "hidden"}, UNCHANGED <<conf, cm, cur, adv, picked>>,
         TotalKept', ShiftFirst',
         NEW kt \in {0, conf.menus[cm].timeout}, ShowMenu(kt)
  PROVE  MenuIInv'
  <1>1. /\ cur[cm].entry \in Int /\ cur[cm].top \in Int /\ conf.menus[cm].timeout \in Nat
    BY InMenuFacts DEF MenuIInv
  <1>2. run \in Runs /\ run.by = "none" /\ ~run.hotkey
    BY DEF MenuIInv, RunTypeOK, OnEntry, PickedRight
  <1>3. run' \in Runs
    <2>1. kt \in Nat
      BY <1>1
    <2> QED
      BY <1>1, <1>2, <2>1, Zenon DEF ShowMenu, Runs
  <1>4. /\ run'.at = "loop" /\ run'.by = "none" /\ run'.key_timeout = kt
        /\ run'.timeout_left = conf.menus[cm].timeout
        /\ run'.chose = (kt # conf.menus[cm].timeout) /\ ~run'.hotkey
    BY <1>2 DEF ShowMenu, Runs
  <1>5. OnEntry' /\ InWindow' /\ NothingRan' /\ PickedRight'
    BY <1>4 DEF OnEntry, InWindow, NothingRan, PickedRight
  <1>6. TimerRuns'
    BY <1>4 DEF TimerRuns
  <1> QED
    BY <1>3, <1>5, <1>6, <1>4, SameMenu, NothingPicked, NothingNewRan DEF MenuIInv, RunTypeOK

\* The menu goes on with the same entry, at the head of its loop.
LEMMA LoopsOn ==
  ASSUME MenuIInv, run.at \in {"key", "enter", "passwd", "help"},
         UNCHANGED <<conf, cm, cur, shiftkey>>, AdvSaved', TotalKept', PickTyped',
         run' \in Runs, run'.at \in {"loop", "enter", "passwd", "help"},
         run'.entry = run.entry, run'.by = run.by, run'.hotkey = run.hotkey,
         run'.at \in {"enter", "passwd"} => picked'.menu = cm /\ picked'.entry = run.entry,
         run'.at \in {"loop", "help"} /\ run'.key_timeout # 0 => ~run'.chose /\ run'.timeout_left # 0,
         run'.at = "enter" => run'.key_timeout = 0 \/ run'.timeout_left # 0,
         run'.at = "passwd" => run'.key_timeout = 0
  PROVE  MenuIInv'
  <1>1. OnEntry'
    BY DEF MenuIInv, OnEntry, Enabled, IsDisabled, Entry, Entries, Nentries
  <1>2. InWindow' /\ TimerRuns' /\ NothingRan'
    BY DEF InWindow, TimerRuns, NothingRan
  <1>3. PickedRight'
    BY DEF MenuIInv, PickedRight
  <1> QED
    BY <1>1, <1>2, <1>3, SameMenu, NoShift, NothingNewRan DEF MenuIInv, RunTypeOK

\* run_menu begins: the keyboard is asked, the timeouts are set.
LEMMA RunMenuStep ==
  ASSUME MenuIInv, RunMenu
  PROVE  MenuIInv'
  <1>1. run.at = "start" /\ UNCHANGED <<conf, cm, cur, adv, picked>> /\ AdvSaved' /\ PickTyped'
    BY NothingPicked DEF RunMenu, At
  <1>2. TotalKept'
    BY <1>1 DEF RunMenu, MenuIInv, TotalKept, Returns, ShowMenu
  <1>3. CASE /\ Returns(Cmdline(cm, conf.menus[cm].defentry), "shift")
             /\ shiftkey /\ UNCHANGED shiftkey
    <2>1. conf.shift /\ picked = NoPick
      BY <1>3 DEF MenuIInv, ShiftFirst
    <2>2. run'.at = "returned"
      BY <1>3 DEF Returns, NotRun
    <2>3. ShiftFirst'
      BY <1>1, <1>3, <2>1, <2>2 DEF ShiftFirst
    <2>4. MayRun(Cmdline(cm, conf.menus[cm].defentry), "shift")
      BY <1>1, <2>1 DEF MayRun, Cmdline
    <2> QED
      BY <1>1, <1>2, <1>3, <2>3, <2>4, ReturnsRight
  <1>4. CASE ShowMenu(conf.menus[cm].timeout) /\ ~shiftkey'
    BY <1>1, <1>2, <1>4, ShowsMenu DEF ShiftFirst
  <1>5. CASE /\ run' = [run EXCEPT !.at = "hidden", !.timeout_left = conf.menus[cm].timeout]
             /\ ~shiftkey'
    <2>1. conf.menus[cm].timeout \in Nat
      BY <1>1, InMenuFacts DEF MenuIInv
    <2>2. run \in Runs /\ run.by = "none" /\ ~run.chose /\ ~run.hotkey
      BY <1>1 DEF MenuIInv, RunTypeOK, OnEntry, TimerRuns, PickedRight
    <2>3. run' \in Runs
      BY <1>5, <2>1, <2>2, Zenon DEF Runs
    <2>4. run'.at = "hidden" /\ run'.by = "none" /\ ~run'.chose /\ ~run'.hotkey
      BY <1>5, <2>2 DEF Runs
    <2>5. OnEntry' /\ InWindow' /\ TimerRuns' /\ NothingRan' /\ PickedRight' /\ ShiftFirst'
      BY <1>5, <2>4 DEF OnEntry, InWindow, TimerRuns, NothingRan, PickedRight, ShiftFirst
    <2> QED
      BY <1>1, <1>2, <2>3, <2>4, <2>5, SameMenu, NothingNewRan DEF MenuIInv, RunTypeOK
  <1> QED
    BY <1>3, <1>4, <1>5 DEF RunMenu

\* A wait for a key.
LEMMA GetsRight ==
  ASSUME MenuIInv, run.at # "off", UNCHANGED conf, NEW t \in Nat, NEW g \in GetKey(t), Gets(g)
  PROVE  TotalKept' /\ (g.up => conf.total # 0)
  BY GetKeyTyped DEF MenuIInv, TotalKept, Gets

\* hide_menu waits for a key or for the timeout.
LEMMA HiddenStep ==
  ASSUME MenuIInv, HiddenWait
  PROVE  MenuIInv'
  <1> DEFINE this_timeout == MinOf(run.timeout_left, CLK_TCK)
  <1>1. /\ run.at = "hidden" /\ UNCHANGED <<conf, cm, cur, shiftkey, adv, picked>>
        /\ AdvSaved' /\ PickTyped' /\ ShiftFirst'
    BY NothingPicked, NoShift DEF HiddenWait, At
  <1>2. run \in Runs /\ run.by = "none" /\ ~run.chose /\ run.timeout_left \in Nat
        /\ ~run.hotkey
    BY <1>1 DEF MenuIInv, RunTypeOK, OnEntry, TimerRuns, Runs, PickedRight
  <1>3. this_timeout \in Nat /\ this_timeout <= run.timeout_left
    BY <1>2, MenuAssumption DEF MinOf
  <1>4. TotalKept'
    <2>1. CASE \E g \in GetKey(this_timeout) : Gets(g)
      BY <1>1, <1>3, <2>1, GetsRight
    <2>2. CASE UNCHANGED <<totaltimeout, keys>>
      BY <1>1, <2>2 DEF MenuIInv, TotalKept
    <2> QED
      BY <2>1, <2>2 DEF HiddenWait
  <1>5. CASE (HiddenTimeout("total") /\ conf.total # 0) \/ HiddenTimeout("timeout")
    BY <1>1, <1>2, <1>4, <1>5, TimeoutRight, ShowsMenu DEF HiddenTimeout, Unhide
  <1>6. CASE Returns(HIDEKEY, "hidekey")
    <2>1. MayRun(HIDEKEY, "hidekey")
      BY DEF MayRun
    <2> QED
      BY <1>1, <1>4, <1>6, <2>1, ReturnsRight
  <1>7. CASE Unhide
    BY <1>1, <1>4, <1>7, ShowsMenu DEF Unhide
  <1>8. CASE run' = [run EXCEPT !.timeout_left = @ - this_timeout]
    <2>1. run.timeout_left - this_timeout \in Nat
      BY <1>2, <1>3
    <2>2. run' \in Runs
      BY <1>2, <1>8, <2>1, Zenon DEF Runs
    <2>3. run'.at = "hidden" /\ run'.by = "none" /\ ~run'.chose /\ ~run'.hotkey
      BY <1>1, <1>2, <1>8 DEF Runs
    <2>4. OnEntry' /\ InWindow' /\ TimerRuns' /\ NothingRan' /\ PickedRight'
      BY <2>3 DEF OnEntry, InWindow, TimerRuns, NothingRan, PickedRight
    <2> QED
      BY <1>1, <1>4, <2>2, <2>3, <2>4, SameMenu, NothingNewRan DEF MenuIInv, RunTypeOK
  <1>9. \/ HiddenTimeout("total") /\ conf.total # 0
        \/ HiddenTimeout("timeout")
        \/ Returns(HIDEKEY, "hidekey") \/ Unhide
        \/ run' = [run EXCEPT !.timeout_left = @ - this_timeout]
    <2>1. ASSUME NEW g \in GetKey(this_timeout), Gets(g), g.up
          PROVE  conf.total # 0
      BY <1>1, <1>3, <2>1, GetsRight
    <2> QED
      BY <2>1 DEF HiddenWait
  <1> QED
    BY <1>5, <1>6, <1>7, <1>8, <1>9

\* The entry is normalised, and the window scrolled to it.
LEMMA DrawStep ==
  ASSUME MenuIInv, Draw
  PROVE  MenuIInv'
  <1> DEFINE e == Normalised(cm, run.entry)
             top == Scrolled(cm, e, run.top)
  <1>1. run.at = "loop" /\ UNCHANGED <<conf, cm, shiftkey, adv>> /\ picked'.saved = picked.saved
    BY DEF Draw, At, Unpick, NoPick
  <1>a. /\ AdvSaved' /\ ShiftFirst' /\ PickTyped'
    <2>1. PickTyped'
      BY DEF MenuIInv, Draw, Unpick, NoPick, PickTyped
    <2> QED
      BY <1>1, <2>1, NothingSaved, NoShift DEF MenuIInv
  <1>2. Nentries(cm) \in Nat \ {0} /\ cm \in DOMAIN conf.menus
    BY <1>1, InMenuFacts DEF MenuIInv
  <1>3. run \in Runs /\ run.entry \in Int /\ run.top \in Int
    BY DEF MenuIInv, RunTypeOK, Runs
  <1>4. /\ e \in 0 .. Nentries(cm) - 1
        /\ Enabled(cm, 0 .. Nentries(cm)) # {} /\ run.by = "cursor" => ~IsDisabled(cm, e)
    BY <1>1, <1>2, <1>3, NormalisedIn DEF MenuIInv, OnEntry
  <1>b. run.hotkey => e = run.entry /\ (Entry(cm, e).immediate => picked.menu = cm /\ picked.entry = e)
    BY <1>2, NormalisedStays DEF MenuIInv, PickedRight
  <1> HIDE DEF e
  <1>5. /\ top \in 0 .. MaxOf(0, Nentries(cm) - MENU_ROWS)
        /\ top <= e /\ e < top + MENU_ROWS
    BY <1>2, <1>3, <1>4, ScrolledTo
  <1> HIDE DEF top
  <1>6. e \in Int /\ top \in Int
    BY <1>4, <1>5 DEF MaxOf
  <1> DEFINE at == IF run.hotkey /\ Entry(cm, e).immediate THEN "enter" ELSE "key"
             kt == IF Cancels(cm, e) THEN 0 ELSE run.key_timeout
             chose == run.chose \/ e # conf.menus[cm].defentry
  <1>7. /\ cur' = [cur EXCEPT ![cm] = [entry |-> e, top |-> top]]
        /\ run' = [run EXCEPT !.entry = e, !.top = top, !.key_timeout = kt, !.chose = chose,
                              !.at = at, !.hotkey = FALSE]
    BY <1>3 DEF Draw, e, top, Runs
  <1>8. kt \in Nat /\ at \in {"key", "enter"} /\ chose \in BOOLEAN
        /\ (kt # 0 => run.key_timeout # 0 /\ chose = run.chose)
        /\ (at = "enter" => run.hotkey /\ Entry(cm, e).immediate)
    BY <1>3 DEF Runs, Cancels
  <1> HIDE DEF at, kt, chose
  <1>9. run' \in Runs
    BY <1>3, <1>6, <1>7, <1>8, Zenon DEF Runs
  <1>10. /\ run'.at = at /\ run'.entry = e /\ run'.top = top /\ run'.key_timeout = kt
         /\ run'.chose = chose /\ run'.by = run.by /\ run'.timeout_left = run.timeout_left
         /\ ~run'.hotkey
    BY <1>3, <1>7 DEF Runs
  <1>11. OnEntry'
    BY <1>1, <1>4, <1>8, <1>10 DEF OnEntry, Enabled, IsDisabled, Entry, Entries, Nentries
  <1>12. InWindow'
    BY <1>1, <1>5, <1>10 DEF InWindow, Nentries, Entries
  <1>13. TimerRuns'
    BY <1>1, <1>8, <1>10 DEF MenuIInv, TimerRuns
  <1>14. InMenu'
    BY <1>1, <1>6, <1>7 DEF MenuIInv, InMenu
  <1>15. TotalKept' /\ NothingRan'
    BY <1>1, <1>8, <1>10 DEF Draw, MenuIInv, TotalKept, NothingRan
  <1>16. PickedRight'
    <2>1. cm \in DOMAIN cur
      BY <1>1, <1>2 DEF MenuIInv, InMenu
    <2>2. cur'[cm].entry = e
      BY <1>7, <2>1
    <2>3. run'.at = "enter" => picked' = picked
      BY DEF Draw
    <2> QED
      BY <1>1, <1>b, <1>8, <1>10, <2>2, <2>3 DEF PickedRight
  <1>17. RunsChosen'
    BY <1>a, <1>8, <1>10, NothingNewRan
  <1> QED
    BY <1>a, <1>9, <1>11, <1>12, <1>13, <1>14, <1>15, <1>16, <1>17 DEF MenuIInv, RunTypeOK

\* Turning pages moves the window to some place.
LEMMA PagesTurned ==
  ASSUME NEW top \in Int, NEW f \in Int
  PROVE  PagesUp(top, f) \in Int /\ PagesDown(top, f) \in Int
  BY MenuAssumption DEF PagesUp, PagesDown, MaxOf

\* A page up or down ends before the menu, after it or on an entry that is
\* enabled, unless it is the first or the last one.
LEMMA OnUpIn ==
  ASSUME NEW e \in Int, e < Nentries(cm), Nentries(cm) \in Nat \ {0}
  PROVE  OnUp(e) \in Int /\ (OnUp(e) \in 1 .. Nentries(cm) - 2 => ~IsDisabled(cm, OnUp(e)))
  <1>1. CASE e > 0 /\ e < Nentries(cm) /\ IsDisabled(cm, e)
    <2>1. OnUp(e) = NextEnabled(e, -1, 0)
      BY <1>1 DEF OnUp
    <2>2. 0 \in 0 .. Nentries(cm) - 1 /\ 0 * (-1) > e * (-1)
      BY <1>1
    <2>3. \/ OnUp(e) \in 0 .. Nentries(cm) - 1 /\ ~IsDisabled(cm, OnUp(e))
          \/ OnUp(e) = 0
      BY <2>1, <2>2, NextEnabledIn
    <2> QED
      BY <2>3
  <1>2. CASE ~(e > 0 /\ e < Nentries(cm) /\ IsDisabled(cm, e))
    BY <1>2 DEF OnUp
  <1> QED
    BY <1>1, <1>2

\* After a move down the cursor is on an entry that is not disabled.
LEMMA OnDownIn ==
  ASSUME NEW e \in Int, e >= 0, Nentries(cm) \in Nat \ {0}
  PROVE  OnDown(e) \in Int /\ (OnDown(e) \in 1 .. Nentries(cm) - 2 => ~IsDisabled(cm, OnDown(e)))
  <1>1. CASE e >= 0 /\ e < Nentries(cm) - 1 /\ IsDisabled(cm, e)
    <2>1. OnDown(e) = NextEnabled(e, 1, Nentries(cm) - 1)
      BY <1>1 DEF OnDown
    <2>2. Nentries(cm) - 1 \in 0 .. Nentries(cm) - 1 /\ (Nentries(cm) - 1) * 1 > e * 1
      BY <1>1
    <2>3. \/ OnDown(e) \in 0 .. Nentries(cm) - 1 /\ ~IsDisabled(cm, OnDown(e))
          \/ OnDown(e) = Nentries(cm) - 1
      BY <2>1, <2>2, NextEnabledIn
    <2> QED
      BY <2>3
  <1>2. CASE ~(e >= 0 /\ e < Nentries(cm) - 1 /\ IsDisabled(cm, e))
    BY <1>2 DEF OnDown
  <1> QED
    BY <1>1, <1>2

\* So do the keys that look for the next entry.
LEMMA UpDownIn ==
  ASSUME NEW e \in 0 .. Nentries(cm) - 1, Nentries(cm) \in Nat \ {0},
         NEW f \in {NextEnabled(e, -1, 0), NextEnabled(e, 1, Nentries(cm) - 1)}
  PROVE  f \in Int /\ (f \in 1 .. Nentries(cm) - 2 => ~IsDisabled(cm, f))
  <1>1. CASE f = NextEnabled(e, -1, 0)
    <2>1. \/ f \in 0 .. Nentries(cm) - 1 /\ ~IsDisabled(cm, f)
          \/ f = 0
          \/ f = e /\ ~(0 * (-1) > e * (-1))
      BY <1>1, NextEnabledIn
    <2> QED
      BY <2>1
  <1>2. CASE f = NextEnabled(e, 1, Nentries(cm) - 1)
    <2>1. \/ f \in 0 .. Nentries(cm) - 1 /\ ~IsDisabled(cm, f)
          \/ f = Nentries(cm) - 1
          \/ f = e /\ ~((Nentries(cm) - 1) * 1 > e * 1)
      BY <1>2, NextEnabledIn
    <2> QED
      BY <2>1
  <1> QED
    BY <1>1, <1>2

\* The cursor is moved.
LEMMA MovedRight ==
  ASSUME MenuIInv, run.at = "key", UNCHANGED <<conf, cm, cur, shiftkey, adv, picked>>, TotalKept',
         NEW f \in Int, NEW top \in Int, Moved(f, top),
         f \in 1 .. Nentries(cm) - 2 => ~IsDisabled(cm, f)
  PROVE  MenuIInv'
  <1>1. run \in Runs /\ run.key_timeout \in Nat /\ ~run.hotkey
    BY DEF MenuIInv, RunTypeOK, Runs, PickedRight
  <1>2. run' \in Runs
    BY <1>1, Zenon DEF Moved, Runs
  <1>3. /\ run'.at = "loop" /\ run'.entry = f /\ run'.key_timeout = run.key_timeout
        /\ run'.timeout_left = run.key_timeout /\ run'.chose = run.chose
        /\ ~run'.hotkey
    BY <1>1 DEF Moved, Runs
  <1>4. OnEntry'
    BY <1>3 DEF OnEntry, Enabled, IsDisabled, Entry, Entries, Nentries
  <1>5. InWindow' /\ TimerRuns' /\ NothingRan' /\ PickedRight'
    BY <1>3 DEF MenuIInv, InWindow, TimerRuns, NothingRan, PickedRight
  <1> QED
    BY <1>2, <1>3, <1>4, <1>5, SameMenu, NoShift, NothingPicked, NothingNewRan DEF MenuIInv, RunTypeOK

\* A cursor key moves to an entry of the menu.
LEMMA CursorRight ==
  ASSUME MenuIInv, run.at = "key", UNCHANGED <<conf, cm, cur, shiftkey, adv, picked>>, TotalKept',
         NEW k \in Cursor, CursorKey(k)
  PROVE  MenuIInv'
  <1> DEFINE e == run.entry  top == run.top  last == Nentries(cm) - 1
             up == NextEnabled(e, -1, 0)  down == NextEnabled(e, 1, last)
             pgup == OnUp(e - MENU_ROWS)  pgdn == OnDown(e + MENU_ROWS)
  <1>1. /\ e \in 0 .. last /\ top \in Int /\ Nentries(cm) \in Nat \ {0} /\ MENU_ROWS \in Nat \ {0}
        /\ last \in Int
    BY InMenuFacts, MenuAssumption DEF MenuIInv, OnEntry, RunTypeOK, Runs
  <1>2. /\ up \in Int /\ (up \in 1 .. last - 1 => ~IsDisabled(cm, up))
        /\ down \in Int /\ (down \in 1 .. last - 1 => ~IsDisabled(cm, down))
    <2>1. last - 1 = Nentries(cm) - 2
      BY <1>1
    <2> QED
      BY <1>1, <2>1, UpDownIn
  <1>3. /\ pgup \in Int /\ (pgup \in 1 .. last - 1 => ~IsDisabled(cm, pgup))
        /\ pgdn \in Int /\ (pgdn \in 1 .. last - 1 => ~IsDisabled(cm, pgdn))
    <2>1. last - 1 = Nentries(cm) - 2 /\ e - MENU_ROWS \in Int /\ e + MENU_ROWS \in Int
          /\ e - MENU_ROWS < Nentries(cm) /\ e + MENU_ROWS >= 0
      BY <1>1
    <2> QED
      BY <1>1, <2>1, OnUpIn, OnDownIn
  <1> HIDE DEF up, down, pgup, pgdn
  <1> DEFINE Right(f, t) == f \in Int /\ t \in Int /\ (f \in 1 .. last - 1 => ~IsDisabled(cm, f))
  <1>4. ASSUME NEW f, NEW t, Moved(f, t), Right(f, t)
        PROVE  MenuIInv'
    <2>1. last - 1 = Nentries(cm) - 2
      BY <1>1
    <2> QED
      BY <1>4, <2>1, MovedRight
  <1>5. /\ Right(up, PagesUp(top, up)) /\ Right(down, PagesDown(top, down))
        /\ Right(pgup, PagesUp(top - MENU_ROWS, pgup)) /\ Right(pgdn, PagesDown(top + MENU_ROWS, pgdn))
    <2>1. top - MENU_ROWS \in Int /\ top + MENU_ROWS \in Int
      BY <1>1
    <2>2. /\ PagesUp(top, up) \in Int /\ PagesDown(top, down) \in Int
          /\ PagesUp(top - MENU_ROWS, pgup) \in Int /\ PagesDown(top + MENU_ROWS, pgdn) \in Int
      BY <1>1, <1>2, <1>3, <2>1, PagesTurned
    <2> QED
      BY <1>2, <1>3, <2>2
  <1>6. /\ Right(up, top - (e - up)) /\ Right(down, top + (down - e))
        /\ Right(0, 0) /\ Right(last, MaxOf(0, Nentries(cm) - MENU_ROWS))
    BY <1>1, <1>2 DEF MaxOf
  <1>7. \/ Moved(up, PagesUp(top, up)) \/ Moved(down, PagesDown(top, down))
        \/ Moved(pgup, PagesUp(top - MENU_ROWS, pgup)) \/ Moved(pgdn, PagesDown(top + MENU_ROWS, pgdn))
        \/ Moved(up, top - (e - up)) \/ Moved(down, top + (down - e))
        \/ Moved(0, 0) \/ Moved(last, MaxOf(0, Nentries(cm) - MENU_ROWS))
    BY DEF CursorKey, Cursor, up, down, pgup, pgdn
  <1> QED
    BY <1>4, <1>5, <1>6, <1>7

\* A key was pressed, or a timeout went off.
LEMMA KeyStep ==
  ASSUME MenuIInv, KeyPressed
  PROVE  MenuIInv'
  <1> DEFINE this_timeout == MinOf(MinOf(run.key_timeout, run.timeout_left), CLK_TCK)
  <1>1. run.at = "key" /\ UNCHANGED <<conf, cm, cur, shiftkey, adv>>
    BY DEF KeyPressed, At
  <1>a. ASSUME UNCHANGED picked
        PROVE  AdvSaved' /\ PickTyped'
    BY <1>1, <1>a, NothingPicked
  <1>2. /\ run \in Runs /\ run.key_timeout \in Nat /\ run.timeout_left \in Nat
        /\ run.key_timeout # 0 => ~run.chose
        /\ run.entry = cur[cm].entry /\ ~run.hotkey
    BY <1>1 DEF MenuIInv, RunTypeOK, TimerRuns, Runs, PickedRight
  <1>3. this_timeout \in Nat
    BY <1>2, MenuAssumption DEF MinOf
  <1>4. PICK g \in GetKey(this_timeout) :
          /\ Gets(g)
          /\ IF g.up THEN TimeoutReturns("total") /\ UNCHANGED picked
             ELSE CASE g.key = KEY_NONE -> SecondPasses(this_timeout) /\ UNCHANGED picked
                    [] g.key = "enter"  -> /\ run' = [run EXCEPT !.at = "enter", !.chose = TRUE,
                                                            !.timeout_left = run.key_timeout]
                                           /\ Pick(cur[cm].entry) /\ UNCHANGED ran
                    [] g.key = "F1" -> /\ run' = [run EXCEPT !.at = "help",
                                                        !.timeout_left = run.key_timeout]
                                       /\ UNCHANGED <<ran, picked>>
                    [] g.key \in Cursor -> CursorKey(g.key) /\ UNCHANGED <<ran, picked>>
                    [] g.key \in DOMAIN conf.menus[cm].hotkeys -> HotKey(g.key) /\ UNCHANGED ran
                    [] OTHER        -> OtherKey /\ UNCHANGED <<ran, picked>>
    BY Zenon DEF KeyPressed
  <1> HIDE DEF this_timeout
  <1>5. TotalKept' /\ (g.up => conf.total # 0)
    BY <1>1, <1>3, <1>4, GetsRight
  <1>6. \/ TimeoutReturns("total") /\ UNCHANGED picked /\ conf.total # 0
        \/ SecondPasses(this_timeout) /\ UNCHANGED picked
        \/ run' = [run EXCEPT !.at = "enter", !.chose = TRUE, !.timeout_left = run.key_timeout]
           /\ Pick(cur[cm].entry)
        \/ run' = [run EXCEPT !.at = "help", !.timeout_left = run.key_timeout] /\ UNCHANGED picked
        \/ g.key \in Cursor /\ CursorKey(g.key) /\ UNCHANGED picked
        \/ g.key \in DOMAIN conf.menus[cm].hotkeys /\ HotKey(g.key)
        \/ OtherKey /\ UNCHANGED picked
    BY <1>4, <1>5
  <1>7. CASE TimeoutReturns("total") /\ UNCHANGED picked /\ conf.total # 0
    BY <1>1, <1>5, <1>7, TimeoutRight
  <1>8. CASE SecondPasses(this_timeout) /\ UNCHANGED picked
    <2>1. CASE run.key_timeout # 0 /\ run.timeout_left <= this_timeout
      BY <1>1, <1>2, <1>5, <1>8, <2>1, TimeoutRight DEF SecondPasses
    <2>2. CASE ~(run.key_timeout # 0 /\ run.timeout_left <= this_timeout)
      <3> DEFINE left == IF run.key_timeout # 0 THEN run.timeout_left - this_timeout
                         ELSE run.timeout_left
      <3>1. run' = [run EXCEPT !.at = "loop", !.timeout_left = left]
        BY <1>2, <1>8, <2>2 DEF SecondPasses, Runs
      <3>2. left \in Nat /\ (run.key_timeout # 0 => left # 0)
        BY <1>2, <1>3, <2>2
      <3> HIDE DEF left
      <3>3. run' \in Runs
        BY <1>2, <3>1, <3>2, Zenon DEF Runs
      <3>4. /\ run'.at = "loop" /\ run'.entry = run.entry /\ run'.by = run.by
            /\ run'.key_timeout = run.key_timeout /\ run'.timeout_left = left
            /\ run'.chose = run.chose /\ run'.hotkey = run.hotkey
        BY <1>2, <3>1 DEF Runs
      <3> QED
        BY <1>1, <1>a, <1>2, <1>5, <1>8, <3>1, <3>2, <3>3, <3>4, LoopsOn
    <2> QED
      BY <2>1, <2>2
  <1>9. CASE /\ run' = [run EXCEPT !.at = "enter", !.chose = TRUE, !.timeout_left = run.key_timeout]
             /\ Pick(cur[cm].entry)
    <2>1. run' \in Runs
      BY <1>2, <1>9, Zenon DEF Runs
    <2>2. /\ run'.at = "enter" /\ run'.entry = run.entry /\ run'.by = run.by
          /\ run'.key_timeout = run.key_timeout /\ run'.timeout_left = run.key_timeout
          /\ run'.hotkey = run.hotkey
      BY <1>2, <1>9 DEF Runs
    <2>3. PickTyped' /\ picked'.menu = cm /\ picked'.entry = run.entry /\ picked'.saved = picked.saved
      BY <1>2, <1>9 DEF Pick, PickTyped
    <2>4. AdvSaved'
      BY <1>1, <2>3, NothingSaved DEF MenuIInv
    <2> QED
      BY <1>1, <1>5, <2>1, <2>2, <2>3, <2>4, LoopsOn
  <1>10. CASE /\ run' = [run EXCEPT !.at = "help", !.timeout_left = run.key_timeout]
              /\ UNCHANGED picked
    <2>1. run' \in Runs
      BY <1>2, <1>10, Zenon DEF Runs
    <2>2. /\ run'.at = "help" /\ run'.entry = run.entry /\ run'.by = run.by
          /\ run'.key_timeout = run.key_timeout /\ run'.timeout_left = run.key_timeout
          /\ run'.chose = run.chose /\ run'.hotkey = run.hotkey
      BY <1>2, <1>10 DEF Runs
    <2> QED
      BY <1>1, <1>a, <1>2, <1>5, <1>10, <2>1, <2>2, LoopsOn
  <1>11. CASE g.key \in Cursor /\ CursorKey(g.key) /\ UNCHANGED picked
    BY <1>1, <1>5, <1>11, CursorRight
  <1>12. CASE g.key \in DOMAIN conf.menus[cm].hotkeys /\ HotKey(g.key)
    <2> DEFINE f == conf.menus[cm].hotkeys[g.key]
    <2>1. f \in 0 .. Nentries(cm) - 1 /\ ~IsDisabled(cm, f)
      BY <1>1, <1>12, InMenuFacts DEF MenuIInv
    <2>2. f \in Int /\ 0 \in Nat
      BY <2>1
    <2>3. run' \in Runs
      BY <1>2, <1>12, <2>2, Zenon DEF HotKey, Runs
    <2>4. run'.at = "loop" /\ run'.by = "hotkey" /\ run'.key_timeout = 0 /\ run'.entry = f
      BY <1>2, <1>12 DEF HotKey, Runs
    <2>5. OnEntry' /\ InWindow' /\ TimerRuns' /\ NothingRan'
      BY <2>4 DEF OnEntry, InWindow, TimerRuns, NothingRan
    <2>6. /\ PickTyped' /\ picked'.saved = picked.saved
          /\ Entry(cm, f).immediate => picked'.menu = cm /\ picked'.entry = f
      BY <1>12 DEF MenuIInv, HotKey, Pick, PickTyped
    <2>7. PickedRight'
      BY <1>1, <2>1, <2>4, <2>6 DEF PickedRight, IsDisabled, Entry, Entries, Nentries
    <2>8. AdvSaved'
      BY <1>1, <2>6, NothingSaved DEF MenuIInv
    <2> QED
      BY <1>1, <1>5, <2>3, <2>4, <2>5, <2>6, <2>7, <2>8, SameMenu, NoShift, NothingNewRan
         DEF MenuIInv, RunTypeOK
  <1>13. CASE OtherKey /\ UNCHANGED picked
    <2>1. run' \in Runs
      BY <1>2, <1>13, Zenon DEF OtherKey, Runs
    <2>2. /\ run'.at = "loop" /\ run'.entry = run.entry /\ run'.by = run.by
          /\ run'.key_timeout = run.key_timeout /\ run'.timeout_left = run.key_timeout
          /\ run'.chose = run.chose /\ run'.hotkey = run.hotkey
      BY <1>2, <1>13 DEF OtherKey, Runs
    <2> QED
      BY <1>1, <1>a, <1>2, <1>5, <1>13, <2>1, <2>2, LoopsOn
  <1> QED
    BY <1>6, <1>7, <1>8, <1>9, <1>10, <1>11, <1>12, <1>13

\* What the entry stands for is done.
LEMMA ActRight ==
  ASSUME MenuIInv, run.at \in {"enter", "passwd"}, UNCHANGED <<conf, cur, shiftkey>>,
         AdvSaved', TotalKept', PickTyped', picked'.menu = picked.menu, picked'.entry = picked.entry,
         Act, run.at = "enter" => ~Selected.passwd, run.at = "passwd" => picked'.word
  PROVE  MenuIInv'
  <1>1. /\ run \in Runs /\ run.entry \in 0 .. Nentries(cm) - 1 /\ 0 \in Nat
        /\ picked'.menu = cm /\ picked'.entry = run.entry /\ ~run.hotkey /\ ShiftFirst'
    BY NoShift DEF MenuIInv, RunTypeOK, OnEntry, PickedRight
  <1>2. CASE /\ Selected.action = "MA_CMD" /\ UNCHANGED cm
             /\ Returns(Cmdline(cm, run.entry), IF At("passwd") THEN "password" ELSE "enter")
    <2>1. Cmdline(cm, run.entry) = run.entry
      BY <1>2 DEF Cmdline, Selected
    <2> DEFINE how == IF run.at = "passwd" THEN "password" ELSE "enter"
    <2>2. Returns(run.entry, how)
      BY <1>2, <2>1 DEF At
    <2>3. MayRun(run.entry, how)
      BY <1>1 DEF MayRun, Selected
    <2> QED
      BY <1>1, <1>2, <2>2, <2>3, ReturnsRight
  <1>3. CASE Returns(NOCMD, "quit") /\ UNCHANGED cm
    <2>1. MayRun(NOCMD, "quit")
      BY DEF MayRun
    <2> QED
      BY <1>1, <1>3, <2>1, ReturnsRight
  <1>4. CASE /\ Selected.action \in {"MA_SUBMENU", "MA_GOTO", "MA_EXIT"}
             /\ cm' = Selected.submenu
             /\ run' = [run EXCEPT !.at = "loop", !.key_timeout = 0, !.by = "none",
                            !.entry = cur[Selected.submenu].entry, !.top = cur[Selected.submenu].top]
    <2>1. cm' \in DOMAIN conf.menus
      BY <1>1, <1>4, InMenuFacts DEF MenuIInv, Selected
    <2>2. cur[cm'].entry \in Int /\ cur[cm'].top \in Int
      BY <2>1 DEF MenuIInv, InMenu
    <2>3. run' = [run EXCEPT !.at = "loop", !.key_timeout = 0, !.by = "none",
                    !.entry = cur[cm'].entry, !.top = cur[cm'].top]
      BY <1>4
    <2>4. run' \in Runs
      BY <1>1, <2>2, <2>3, Zenon DEF Runs
    <2>5. run'.at = "loop" /\ run'.by = "none" /\ run'.key_timeout = 0 /\ ~run'.hotkey
      BY <1>1, <2>3 DEF Runs
    <2>6. OnEntry' /\ InWindow' /\ TimerRuns' /\ NothingRan' /\ PickedRight'
      BY <2>5 DEF OnEntry, InWindow, TimerRuns, NothingRan, PickedRight
    <2>7. InMenu'
      BY <2>1 DEF MenuIInv, InMenu
    <2> QED
      BY <1>1, <2>4, <2>5, <2>6, <2>7, NothingNewRan DEF MenuIInv, RunTypeOK
  <1>5. ASSUME NEW at \in {"help", "loop"}, run' = [run EXCEPT !.at = at, !.key_timeout = 0],
               UNCHANGED cm
        PROVE  MenuIInv'
    <2>1. run' \in Runs
      BY <1>1, <1>5, Zenon DEF Runs
    <2>2. /\ run'.at = at /\ run'.entry = run.entry /\ run'.by = run.by /\ run'.key_timeout = 0
          /\ run'.hotkey = run.hotkey
      BY <1>1, <1>5 DEF Runs
    <2> QED
      BY <1>5, <2>1, <2>2, LoopsOn
  <1> QED
    BY <1>2, <1>3, <1>4, <1>5 DEF Act

\* Enter runs the entry, goes to a menu or asks for the password.
LEMMA EnterStep ==
  ASSUME MenuIInv, Enter
  PROVE  MenuIInv'
  <1>1. run.at = "enter" /\ UNCHANGED <<conf, cur, shiftkey, totaltimeout, keys>>
    BY DEF Enter, At
  <1>2. /\ run \in Runs /\ run.entry \in 0 .. Nentries(cm) - 1 /\ 0 \in Nat 
        /\ picked.menu = cm /\ picked.entry = run.entry
    BY <1>1 DEF MenuIInv, RunTypeOK, OnEntry, PickedRight
  <1>3. TotalKept'
    BY <1>1 DEF MenuIInv, TotalKept
  <1>4. CASE NeedsPassword(Selected)
    <2>1. /\ run' = [run EXCEPT !.at = "passwd", !.key_timeout = 0]
          /\ UNCHANGED <<cm, adv, picked>>
      BY <1>4 DEF Enter
    <2>2. run' \in Runs
      BY <1>2, <2>1, Zenon DEF Runs
    <2>3. run'.at = "passwd" /\ run'.entry = run.entry /\ run'.by = run.by /\ run'.key_timeout = 0
          /\ run'.hotkey = run.hotkey
      BY <1>2, <2>1 DEF Runs
    <2> QED
      BY <1>1, <1>2, <1>3, <2>1, <2>2, <2>3, LoopsOn, NothingPicked
  <1>5. CASE ~NeedsPassword(Selected)
    <2>1. Act /\ Save /\ ~Selected.passwd
      BY <1>5 DEF Enter, NeedsPassword
    <2>2. /\ AdvSaved' /\ PickTyped' /\ picked'.menu = picked.menu /\ picked'.entry = picked.entry
      <3>1. CASE UNCHANGED <<adv, picked>>
        BY <1>1, <3>1, NothingPicked
      <3>2. CASE /\ adv' = Selected.label /\ Selected.save /\ ~Selected.passwd
                 /\ picked' = [picked EXCEPT !.saved = <<picked.menu, picked.entry>>]
        <4>1. /\ PickTyped' /\ picked'.saved = <<cm, run.entry>>
              /\ picked'.menu = picked.menu /\ picked'.entry = picked.entry
          BY <1>2, <3>2 DEF MenuIInv, PickTyped
        <4>2. AdvSaved'
          BY <1>1, <3>2, <4>1 DEF AdvSaved, Selected, Entry, Entries
        <4> QED
          BY <4>1, <4>2
      <3> QED
        BY <2>1, <3>1, <3>2 DEF Save
    <2> QED
      BY <1>1, <1>3, <2>1, <2>2, ActRight
  <1> QED
    BY <1>4, <1>5

\* The password was given, or not, or the total timeout went off.
LEMMA AskStep ==
  ASSUME MenuIInv, AskPasswd
  PROVE  MenuIInv'
  <1>1. run.at = "passwd" /\ UNCHANGED <<conf, cur, shiftkey, adv>>
    BY DEF AskPasswd, At
  <1>2. run \in Runs /\ run.key_timeout = 0 /\ 0 \in Nat
        /\ picked.menu = cm /\ picked.entry = run.entry
    BY <1>1 DEF MenuIInv, RunTypeOK, TimerRuns, PickedRight
  <1>3. TotalKept'
    BY <1>1, <1>2, GetsRight DEF AskPasswd
  <1>4. CASE TimeoutReturns("total") /\ UNCHANGED <<cm, picked>> /\ conf.total # 0
    BY <1>1, <1>3, <1>4, TimeoutRight
  <1>5. CASE Act /\ picked' = [picked EXCEPT !.word = TRUE]
    <2>1. /\ PickTyped' /\ picked'.menu = picked.menu /\ picked'.entry = picked.entry
          /\ picked'.word /\ picked'.saved = picked.saved
      BY <1>5 DEF MenuIInv, PickTyped
    <2>2. AdvSaved'
      BY <1>1, <2>1, NothingSaved DEF MenuIInv
    <2> QED
      BY <1>1, <1>3, <1>5, <2>1, <2>2, ActRight
  <1>6. ASSUME NEW at \in {"passwd", "loop"}, run' = [run EXCEPT !.at = at],
               UNCHANGED <<cm, picked>>
        PROVE  MenuIInv'
    <2>1. run' \in Runs
      BY <1>2, <1>6, Zenon DEF Runs
    <2>2. /\ run'.at = at /\ run'.entry = run.entry /\ run'.by = run.by /\ run'.key_timeout = 0
          /\ run'.hotkey = run.hotkey
      BY <1>2, <1>6 DEF Runs
    <2> QED
      BY <1>1, <1>2, <1>3, <1>6, <2>1, <2>2, LoopsOn, NothingPicked
  <1>7. ASSUME NEW g \in GetKey(0), Gets(g), g.up
        PROVE  conf.total # 0
    BY <1>1, <1>2, <1>7, GetsRight
  <1> QED
    BY <1>4, <1>5, <1>6, <1>7 DEF AskPasswd

\* The help text is shown until a key is pressed.
LEMMA HelpStep ==
  ASSUME MenuIInv, Help
  PROVE  MenuIInv'
  <1>1. /\ run.at = "help" /\ UNCHANGED <<conf, cm, cur, shiftkey, adv, picked>>
        /\ AdvSaved' /\ PickTyped'
    BY NothingPicked DEF Help, At
  <1>2. /\ run \in Runs /\ 0 \in Nat
        /\ run.key_timeout # 0 => ~run.chose /\ run.timeout_left # 0
    BY <1>1 DEF MenuIInv, RunTypeOK, TimerRuns
  <1>3. TotalKept'
    BY <1>1, <1>2, GetsRight DEF Help
  <1>4. CASE TimeoutReturns("total") /\ conf.total # 0
    BY <1>1, <1>3, <1>4, TimeoutRight
  <1>5. ASSUME NEW at \in {"help", "loop"}, run' = [run EXCEPT !.at = at]
        PROVE  MenuIInv'
    <2>1. run' \in Runs
      BY <1>2, <1>5, Zenon DEF Runs
    <2>2. /\ run'.at = at /\ run'.entry = run.entry /\ run'.by = run.by
          /\ run'.key_timeout = run.key_timeout /\ run'.timeout_left = run.timeout_left
          /\ run'.chose = run.chose /\ run'.hotkey = run.hotkey
      BY <1>2, <1>5 DEF Runs
    <2> QED
      BY <1>1, <1>2, <1>3, <1>5, <2>1, <2>2, LoopsOn
  <1>6. ASSUME NEW g \in GetKey(0), Gets(g), g.up
        PROVE  conf.total # 0
    BY <1>1, <1>2, <1>6, GetsRight
  <1> QED
    BY <1>4, <1>5, <1>6 DEF Help

\* The command runs, or the menu is shown again.
LEMMA ExecuteStep ==
  ASSUME MenuIInv, Execute
  PROVE  MenuIInv'
  <1>1. /\ run.at = "returned" /\ AdvSaved' /\ PickTyped'
        /\ UNCHANGED <<conf, cm, cur, totaltimeout, shiftkey, adv, picked>>
    BY NothingPicked DEF Execute, At
  <1>2. keys' \in 0 .. MAXKEYS
    BY MenuAssumption DEF MenuIInv, TotalKept, Execute
  <1>3. \E at \in {"start", "over"} : run' = [NotRun EXCEPT !.at = at]
    BY DEF Execute
  <1>4. TotalKept'
    BY <1>1, <1>2 DEF MenuIInv, TotalKept
  <1>5. PICK at \in {"start", "over"} : run' = [NotRun EXCEPT !.at = at]
    BY <1>3
  <1>6. /\ RunTypeOK' /\ OnEntry' /\ InWindow' /\ TimerRuns' /\ NothingRan' /\ PickedRight'
        /\ run'.at = at
    BY <1>5, NotInMenu
  <1>7. ShiftFirst'
    BY <1>1, <1>6 DEF MenuIInv, ShiftFirst
  <1> QED
    BY <1>1, <1>4, <1>6, <1>7, SameMenu, NothingNewRan DEF MenuIInv

\* main of the menu begins with a configuration.
LEMMA StartMenuStep ==
  ASSUME MenuIInv, StartMenu
  PROVE  MenuIInv'
  <1>1. run.at = "off" /\ UNCHANGED <<adv, picked, keys>> /\ picked = NoPick /\ adv = NULL
    BY DEF StartMenu, At, MenuIInv, NothingRan
  <1>2. PICK c \in MenuConfigs :
          /\ conf' = c /\ cm' = c.start
          /\ cur' = [m \in DOMAIN c.menus |-> [entry |-> c.menus[m].defentry, top |-> 0]]
          /\ totaltimeout' = c.total /\ shiftkey' = c.shift
    BY DEF StartMenu
  <1>3. run' = [NotRun EXCEPT !.at = "start"]
    BY DEF StartMenu
  <1>4. /\ RunTypeOK' /\ OnEntry' /\ InWindow' /\ TimerRuns' /\ NothingRan' /\ PickedRight'
        /\ run'.at = "start"
    BY <1>3, NotInMenu
  <1>5. TotalKept'
    BY <1>1, <1>2, MenuAssumption DEF MenuIInv, TotalKept
  <1>6. InMenu'
    BY <1>2, MenuAssumption DEF InMenu
  <1>7. PickTyped' /\ AdvSaved'
    BY <1>1 DEF PickTyped, NoPick, AdvSaved
  <1>8. ShiftFirst'
    BY <1>1, <1>2, <1>4 DEF ShiftFirst
  <1> QED
    BY <1>4, <1>5, <1>6, <1>7, <1>8, NothingNewRan DEF MenuIInv

\* Every step of the menu keeps its invariant, and so do the other steps.
LEMMA StepMenu ==
  ASSUME MenuIInv, MenuStep \/ StartMenu \/ UNCHANGED menuVars
  PROVE  MenuIInv'
  <1>1. CASE UNCHANGED menuVars
    <2>1. /\ conf' = conf /\ cm' = cm /\ cur' = cur /\ run' = run /\ totaltimeout' = totaltimeout
          /\ shiftkey' = shiftkey /\ adv' = adv /\ ran' = ran /\ picked' = picked
          /\ keys' = keys
      BY <1>1 DEF menuVars
    <2>2. RunTypeOK' /\ InMenu' /\ InWindow'
      BY <2>1 DEF MenuIInv, RunTypeOK, InMenu, InWindow, Entries, Nentries
    <2>3. OnEntry'
      BY <2>1 DEF MenuIInv, OnEntry, Enabled, IsDisabled, Entry, Entries, Nentries
    <2>4. TimerRuns' /\ TotalKept' /\ NothingRan'
      BY <2>1 DEF MenuIInv, TimerRuns, TotalKept, NothingRan
    <2>5. RunsChosen'
      BY <2>1 DEF MenuIInv, RunsChosen, At, Entry, Entries
    <2>6. PickTyped' /\ ShiftFirst'
      BY <2>1 DEF MenuIInv, PickTyped, ShiftFirst
    <2>7. PickedRight'
      BY <2>1 DEF MenuIInv, PickedRight, IsDisabled, Entry, Entries, Nentries
    <2> QED
      BY <2>2, <2>3, <2>4, <2>5, <2>6, <2>7 DEF MenuIInv
  <1> QED
    BY <1>1, RunMenuStep, HiddenStep, DrawStep, KeyStep, EnterStep, AskStep, HelpStep, ExecuteStep,
       StartMenuStep DEF MenuStep

\* Initially the menu does not run.
LEMMA InitMenu ==
  ASSUME MenuInit
  PROVE  MenuIInv
  <1>1. NotRun \in Runs /\ NotRun.at = "off" /\ NotRun.by = "none" /\ ~NotRun.hotkey
    BY DEF NotRun, Runs
  <1>2. RunTypeOK /\ InMenu /\ OnEntry /\ InWindow /\ TimerRuns /\ NothingRan
    BY <1>1 DEF MenuInit, RunTypeOK, InMenu, OnEntry, InWindow, TimerRuns, NothingRan
  <1>3. TotalKept /\ RunsChosen
    BY <1>1, MenuAssumption DEF MenuInit, TotalKept, RunsChosen, At
  <1>4. PickTyped /\ PickedRight /\ ShiftFirst
    BY <1>1 DEF MenuInit, NoPick, PickTyped, PickedRight, ShiftFirst
  <1> QED
    BY <1>2, <1>3, <1>4 DEF MenuIInv

\* The invariant of the menu says what MenuInv states.
LEMMA MenuRight ==
  ASSUME MenuIInv
  PROVE  MenuInv
  <1>1. MenuTypeOK
    BY DEF MenuIInv, RunTypeOK, Runs, TotalKept, TimerRuns, MenuTypeOK
  <1>2. SelectedShown
    BY DEF MenuIInv, OnEntry, InWindow, SelectedShown, At
  <1>3. TotalLimited
    BY DEF MenuIInv, TotalKept, TotalLimited
  <1> QED
    BY <1>1, <1>2, <1>3 DEF MenuInv

-----------------------------------------------------------------------------
(***************************************************************************)
(* The boot loader.                                                        *)
(***************************************************************************)

\* Tries are left as long as the configuration is looked for.
BootTyped ==
  /\ boot \in [stage : {"init", "dhcp", "mac", "load", "menu", "noMenu", "kaboom", "over"},
               magic : SUBSET {"on", "config", "prefix"}, tries : Nat,
               opened : Seq({"dhcp", "mac"})]
  /\ boot.stage \in {"dhcp", "mac"} => boot.tries > 0

IInv == BootTyped /\ LoadIInv /\ FilesRight /\ ReadAt /\ MenuIInv

\* Where no file is read, none is read at any stage.
LEMMA IdleReads ==
  ASSUME fs'.at = "idle"
  PROVE  ReadAt'
  BY DEF ReadAt

\* A step of the file system happens only while a file is read.
LEMMA FsStepReads ==
  ASSUME ReadAt, FsStep \/ Answers, UNCHANGED <<loadVars, boot>>
  PROVE  ReadAt'
  <1>0. stack' = stack /\ boot' = boot
    BY DEF loadVars
  <1>1. CASE (TcpStep \/ TokenDone) /\ UNCHANGED fsVars
    BY <1>0, <1>1 DEF ReadAt, fsVars, TopIs, Top
  <1>2. CASE fs.at # "idle"
    BY <1>0, <1>2 DEF ReadAt, TopIs, Top
  <1>3. CASE OpenUrl \/ HttpConnects \/ ServerReplies \/ GetcFills \/ Getc \/ HttpFails
    BY <1>2, <1>3 DEF FsAt, OpenUrl, HttpConnects, ServerReplies, GetcFills, Getc, HttpFails
  <1>4. CASE Redirected \/ NotFound \/ GetFsSec \/ ChunkFills \/ Copy
    BY <1>2, <1>4 DEF FsAt, Redirected, NotFound, GetFsSec, ChunkFills, Copy
  <1>5. CASE MoreFills \/ NoMore \/ ReadOn \/ CloseFile
    BY <1>2, <1>5 DEF FsAt, AtMore, MoreFills, NoMore, ReadOn, CloseFile
  <1> QED
    BY <1>1, <1>3, <1>4, <1>5 DEF FsStep, Answers

\* The file of a module is looked for by the innermost call, and read before
\* the call goes on.
LEMMA LoadStepReads ==
  ASSUME LoadIInv, FilesRight, ReadAt, LoadStep, UNCHANGED boot
  PROVE  FilesRight' /\ ReadAt'
  <1>0. boot.stage \notin {"dhcp", "mac"} /\ stack \in Seq(Frames) /\ stack # <<>>
    <2>1. stack # <<>>
      BY DEF LoadStep, FindModule, ImageLoaded, Prepare, Dependency, Finish, LoadError, TopIs
    <2> QED
      BY <2>1 DEF LoadIInv, LoadTyped
  <1>1. CASE FindModule
    <2>0. fs.at = "idle" /\ UNCHANGED tcpVars
      BY <1>1 DEF FindModule
    <2>1. CASE UNCHANGED fsVars
      <3>1. FilesRight' /\ fs'.at = "idle"
        BY <2>0, <2>1, FilesUnchanged DEF fsVars
      <3> QED
        BY <3>1, IdleReads
    <2>2. CASE SearchDir /\ Goes("image") /\ UNCHANGED <<reply, inodes, lost>>
      <3>1. FilesRight'
        BY <2>0, <2>2, SearchBegins
      <3>2. TopIs("image")'
        <4>1. stack' = [stack EXCEPT ![1] = [stack[1] EXCEPT !.at = "image"]]
          BY <2>2 DEF Goes
        <4>2. 1 \in DOMAIN stack /\ stack[1] \in Frames /\ DOMAIN stack = 1 .. Len(stack)
          BY <1>0, TopFacts DEF Top
        <4>3. stack'[1] = [stack[1] EXCEPT !.at = "image"] /\ DOMAIN stack' = DOMAIN stack
          BY <4>1, <4>2
        <4>4. stack'[1].at = "image"
          BY <4>2, <4>3, FrameMoved
        <4>5. stack' # <<>>
          <5>1. DOMAIN stack' # {} /\ DOMAIN <<>> = {}
            BY <4>2, <4>3
          <5> QED
            BY <5>1
        <4> QED
          BY <4>4, <4>5 DEF TopIs, Top
      <3> QED
        BY <3>1, <3>2 DEF ReadAt
    <2> QED
      BY <1>1, <2>1, <2>2 DEF FindModule
  <1>2. CASE ImageLoaded
    <2>1. fs.at \in {"closed", "notFound"} /\ FsIdle
      BY <1>2 DEF ImageLoaded
    <2> QED
      BY <2>1, SearchEnds, IdleReads
  <1>3. CASE (Prepare \/ Dependency \/ Finish \/ LoadError) /\ UNCHANGED <<fsVars, tcpVars>>
    <2>1. Top.at # "image"
      BY <1>3 DEF Prepare, Dependency, Finish, LoadError, TopIs
    <2>2. fs.at = "idle"
      BY <1>0, <2>1 DEF ReadAt, TopIs
    <2>3. FilesRight' /\ fs' = fs
      BY <1>3, FilesUnchanged DEF fsVars
    <2> QED
      BY <2>2, <2>3, IdleReads
  <1> QED
    BY <1>1, <1>2, <1>3 DEF LoadStep

\* Initially no file is open, no module is loaded but those that need no file,
\* and the menu does not run.
LEMMA InitIInv ==
  ASSUME Init
  PROVE  IInv
  <1>1. BootTyped
    <2>1. {} \in SUBSET {"on", "config", "prefix"} /\ 0 \in Nat /\ <<>> \in Seq({"dhcp", "mac"})
      OBVIOUS
    <2> QED
      BY <2>1 DEF Init, BootTyped
  <1>2. MenuIInv
    BY InitMenu DEF Init
  <1> QED
    BY <1>1, <1>2, InitLoad, InitFiles DEF IInv

\* What the file system's options say of the name is one of three magic words.
LEMMA MagicTyped ==
  ASSUME NEW flags \in SUBSET {"on", "config", "prefix"}
  PROVE  DHCPMagic(flags) \in SUBSET {"on", "config", "prefix"}
  BY DEF DHCPMagic

\* No step of the boot loader leaves the invariant.
LEMMA StepIInv ==
  ASSUME IInv, [Next]_vars
  PROVE  IInv'
  <1>0. BootTyped /\ LoadIInv /\ FilesRight /\ ReadAt /\ MenuIInv /\ LoadTyped
    BY DEF IInv, LoadIInv
  <1>1. CASE FileSystemInit
    <2>0. UNCHANGED <<tcpVars, fsVars, loadVars, menuVars>> /\ boot.stage = "init" /\ fs' = fs
      BY <1>1 DEF FileSystemInit, fsVars
    <2>1. PICK flags \in SUBSET {"on", "config", "prefix"} :
            boot' = [boot EXCEPT !.stage = IF "config" \in DHCPMagic(flags) THEN "dhcp" ELSE "mac",
                                 !.magic = DHCPMagic(flags), !.tries = TRIES]
      BY <1>1 DEF FileSystemInit
    <2>2. BootTyped' /\ boot'.stage \in {"dhcp", "mac"}
      <3> DEFINE magic == DHCPMagic(flags)
                 stage == IF "config" \in magic THEN "dhcp" ELSE "mac"
      <3>1. magic \in SUBSET {"on", "config", "prefix"} /\ stage \in {"dhcp", "mac"}
        BY MagicTyped
      <3>2. boot' = [boot EXCEPT !.stage = stage, !.magic = magic, !.tries = TRIES]
        BY <2>1
      <3>3. TRIES \in Nat /\ TRIES > 0
        BY PxeAssumption
      <3> HIDE DEF magic, stage
      <3> QED
        BY <1>0, <3>1, <3>2, <3>3 DEF BootTyped
    <2>3. stack = <<>> /\ modules = Resident
      BY <1>0, <2>0 DEF LoadTyped
    <2>4. LoadIInv'
      BY <1>0, <2>0, <2>3, NoLoad
    <2>5. FilesRight' /\ MenuIInv'
      BY <1>0, <2>0, FilesUnchanged, StepMenu
    <2>6. ReadAt'
      BY <2>2 DEF ReadAt
    <2> QED
      BY <2>2, <2>4, <2>5, <2>6 DEF IInv
  <1>2. CASE OpenFile
    <2>0. /\ UNCHANGED <<tcpVars, reply, inodes, lost>> /\ UNCHANGED loadVars /\ UNCHANGED menuVars
          /\ boot.stage \in {"dhcp", "mac"} /\ fs.at = "idle" /\ SearchDir
          /\ boot' = [boot EXCEPT !.opened = Append(@, boot.stage)]
      BY <1>2 DEF OpenFile
    <2>1. BootTyped' /\ boot'.stage = boot.stage
      <3>1. Append(boot.opened, boot.stage) \in Seq({"dhcp", "mac"})
        BY <1>0, <2>0, AppendProperties DEF BootTyped
      <3> QED
        BY <1>0, <2>0, <3>1 DEF BootTyped
    <2>2. stack = <<>> /\ modules = Resident
      BY <1>0, <2>0 DEF LoadTyped
    <2>3. LoadIInv'
      BY <1>0, <2>0, <2>2, NoLoad
    <2>4. FilesRight' /\ MenuIInv'
      BY <1>0, <2>0, SearchBegins, StepMenu
    <2>5. ReadAt'
      BY <2>0, <2>1 DEF ReadAt
    <2> QED
      BY <2>1, <2>3, <2>4, <2>5 DEF IInv
  <1>3. CASE OpenFailed
    <2>0. /\ boot.stage \in {"dhcp", "mac"} /\ fs.at = "notFound" /\ FsIdle
          /\ UNCHANGED loadVars /\ UNCHANGED menuVars
          /\ boot' = IF boot.stage = "dhcp" THEN [boot EXCEPT !.stage = "mac"]
                     ELSE [boot EXCEPT !.stage = IF NoTriesLeft(boot.tries) THEN "kaboom" ELSE @,
                                       !.tries = @ - 1]
      BY <1>3 DEF OpenFailed
    <2>1. BootTyped'
      <3>1. boot.tries \in Nat /\ boot.tries > 0 /\ boot.tries - 1 \in Nat
        BY <1>0, <2>0 DEF BootTyped
      <3>2. boot.tries # 1 => boot.tries - 1 > 0
        BY <3>1
      <3> QED
        BY <1>0, <2>0, <3>1, <3>2 DEF BootTyped, NoTriesLeft
    <2>2. stack = <<>> /\ modules = Resident
      BY <1>0, <2>0 DEF LoadTyped
    <2>3. LoadIInv'
      BY <1>0, <2>0, <2>2, NoLoad
    <2>4. FilesRight' /\ MenuIInv' /\ ReadAt'
      BY <1>0, <2>0, SearchEnds, StepMenu, IdleReads
    <2> QED
      BY <2>1, <2>3, <2>4 DEF IInv
  <1>4. CASE ConfigRead
    <2>0. /\ fs.at = "closed" /\ FsIdle /\ UNCHANGED menuVars
          /\ boot' = [stage |-> "load", magic |-> {}, tries |-> 0, opened |-> <<>>]
      BY <1>4 DEF ConfigRead
    <2>1. BootTyped'
      <3>1. {} \in SUBSET {"on", "config", "prefix"} /\ 0 \in Nat /\ <<>> \in Seq({"dhcp", "mac"})
        OBVIOUS
      <3> QED
        BY <2>0, <3>1 DEF BootTyped
    <2> QED
      BY <1>0, <1>4, <2>0, <2>1, StartLoad, SearchEnds, StepMenu, IdleReads DEF IInv
  <1>5. CASE MenuLoaded
    <2>0. /\ boot.stage = "load" /\ stack = <<>>
          /\ faults' = 0 /\ trouble' = {} /\ bindings' = 0 /\ inodes' = 0 /\ lost' = 0
          /\ UNCHANGED <<cb_status, token, tcp, sock, peer, fs, reply, got>> /\ UNCHANGED loadVars
          /\ \/ StartMenu /\ boot' = [boot EXCEPT !.stage = "menu"]
             \/ UNCHANGED menuVars /\ boot' = [boot EXCEPT !.stage = "noMenu"]
      BY <1>5 DEF MenuLoaded
    <2>1. BootTyped' /\ boot'.stage \in {"menu", "noMenu"}
      BY <1>0, <2>0 DEF BootTyped
    <2>2. LoadIInv'
      BY <1>0, <2>0, <2>1, NoLoad
    <2>3. fs.at = "idle"
      BY <1>0, <2>0 DEF ReadAt, TopIs
    <2>4. FilesRight' /\ ReadAt'
      BY <1>0, <2>0, <2>3, AccountsClosed, IdleReads
    <2>5. MenuIInv'
      BY <1>0, <2>0, StepMenu
    <2> QED
      BY <2>1, <2>2, <2>4, <2>5 DEF IInv
  <1>6. CASE MenuEnds
    <2>0. /\ boot.stage = "menu" /\ boot' = [boot EXCEPT !.stage = "over"]
          /\ UNCHANGED tcpVars /\ UNCHANGED fsVars /\ UNCHANGED loadVars /\ UNCHANGED menuVars
          /\ fs' = fs /\ stack' = stack
      BY <1>6 DEF MenuEnds, fsVars, loadVars
    <2>1. BootTyped' /\ boot'.stage = "over"
      BY <1>0, <2>0 DEF BootTyped
    <2>2. stack = <<>>
      BY <1>0, <2>0 DEF LoadTyped
    <2>3. fs.at = "idle"
      BY <1>0, <2>0, <2>2 DEF ReadAt, TopIs
    <2> QED
      BY <1>0, <2>0, <2>1, <2>2, <2>3, NoLoad, FilesUnchanged, StepMenu, IdleReads DEF IInv
  <1>7. CASE (FsStep \/ Answers) /\ UNCHANGED <<loadVars, menuVars, boot>>
    <2>1. BootTyped' /\ FilesRight' /\ ReadAt' /\ MenuIInv'
      BY <1>0, <1>7, StepFiles, FsStepReads, StepMenu DEF BootTyped
    <2>2. LoadIInv'
      BY <1>0, <1>7, NoLoad DEF LoadTyped
    <2> QED
      BY <2>1, <2>2 DEF IInv
  <1>8. CASE LoadStep /\ UNCHANGED <<menuVars, boot>>
    BY <1>0, <1>8, StepLoad, LoadStepReads, StepMenu DEF IInv, BootTyped
  <1>9. CASE (MenuStep \/ UNCHANGED menuVars) /\ UNCHANGED <<tcpVars, fsVars, loadVars, boot>>
    <2>1. BootTyped' /\ FilesRight' /\ MenuIInv'
      BY <1>0, <1>9, FilesUnchanged, StepMenu DEF BootTyped
    <2>2. LoadIInv'
      BY <1>0, <1>9, NoLoad DEF LoadTyped
    <2>3. ReadAt'
      BY <1>0, <1>9 DEF ReadAt, TopIs, Top, fsVars, loadVars
    <2> QED
      BY <2>1, <2>2, <2>3 DEF IInv
  <1> QED
    BY <1>1, <1>2, <1>3, <1>4, <1>5, <1>6, <1>7, <1>8, <1>9 DEF Next, Loader, Terminated, vars

\* What the boot loader keeps, from the first file that it looks for to the
\* command that its menu runs.
THEOREM Invariance == Spec => []IInv
  <1>1. Init => IInv
    BY InitIInv
  <1>2. IInv /\ [Next]_vars => IInv'
    BY StepIInv
  <1> QED
    BY <1>1, <1>2, PTL DEF Spec

\* For every file of the server, every fault of the firmware and every size:
\* a callback answers the call that waits for it, every inode and every
\* binding is given back but those that are counted as lost, and a file that
\* was read to its end is the file of the server.
THEOREM FilesCorrect == Spec => []FilesExact
  <1>1. IInv => FilesExact
    BY FilesAreExact DEF IInv
  <1> QED
    BY <1>1, Invariance, PTL

\* For every disk: module_load loads a module with all that it needs, or
\* leaves the list of modules as it was.
THEOREM ModulesAtomic == Spec => []LoadInv
  <1>1. IInv => LoadInv
    BY LoadRight DEF IInv
  <1> QED
    BY <1>1, Invariance, PTL

\* For every configuration: the selected entry is an entry of the menu that is
\* shown, in the window that is shown, and the total timeout is kept.
THEOREM MenuCorrect == Spec => []MenuInv
  <1>1. IInv => MenuInv
    BY MenuRight DEF IInv
  <1> QED
    BY <1>1, Invariance, PTL

\* What runs is the entry that the user picked, with its password given if it
\* has one, or else the default entry: at a timeout, or if no shift key is held.
THEOREM ChosenRuns == Spec => []RunsChosen
  <1>1. IInv => RunsChosen
    BY DEF IInv, MenuIInv
  <1> QED
    BY <1>1, Invariance, PTL

-----------------------------------------------------------------------------
(***************************************************************************)
(* Where the configuration is looked for.                                  *)
(***************************************************************************)

\* The delimiters among the first characters of a name, and 0 for none.
Delimiters(len, name) == {0} \cup {k \in 1 .. len : name[k] # "a"}

\* The last of them.
LEMMA LastDelimiter ==
  ASSUME NEW len \in Nat, NEW name
  PROVE  /\ Most(Delimiters(len, name)) \in Delimiters(len, name)
         /\ \A k \in Delimiters(len, name) : k <= Most(Delimiters(len, name))
         /\ \A k \in Delimiters(len, name) :
              (\A j \in Delimiters(len, name) : j <= k) => k = Most(Delimiters(len, name))
  <1>1. Delimiters(len, name) \in SUBSET (0 .. len) /\ Delimiters(len, name) # {}
    BY DEF Delimiters
  <1>2. /\ Most(Delimiters(len, name)) \in Delimiters(len, name)
        /\ \A k \in Delimiters(len, name) : k <= Most(Delimiters(len, name))
    BY <1>1, MostIn
  <1>3. \A k \in Delimiters(len, name) : k \in Nat
    BY <1>1
  <1>4. \A j, k \in Nat : j <= k /\ k <= j => j = k
    OBVIOUS
  <1> QED
    BY <1>2, <1>3, <1>4

\* What the loop of get_prefix finds when it has one more character to look at.
LEMMA OneMore ==
  ASSUME NEW len \in Nat, len # 0, NEW name
  PROVE  Most(Delimiters(len, name))
           = IF name[len] # "a" THEN len ELSE Most(Delimiters(len - 1, name))
  <1>1. len - 1 \in Nat
    OBVIOUS
  <1>2. CASE name[len] # "a"
    <2>1. len \in Delimiters(len, name) /\ \A k \in Delimiters(len, name) : k <= len
      BY <1>2 DEF Delimiters
    <2> QED
      BY <1>2, <2>1, LastDelimiter
  <1>3. CASE name[len] = "a"
    <2>1. Delimiters(len, name) = Delimiters(len - 1, name)
      BY <1>3 DEF Delimiters
    <2> QED
      BY <1>3, <2>1
  <1> QED
    BY <1>2, <1>3

\* The loop of get_prefix stops at the last delimiter of a name.
LEMMA CutsAtDelimiter ==
  ASSUME NEW name \in Seq({"a", "/", ":"})
  PROVE  Cut(name) = Most(Delimiters(Len(name), name))
  <1> DEFINE n == Len(name)
             Turn(c) == [len \in 0 .. n |->
                           IF len = 0 THEN 0 ELSE IF name[len] # "a" THEN len ELSE c[len - 1]]
             cut == CHOOSE c : c = Turn(c)
             last == [len \in 0 .. n |-> Most(Delimiters(len, name))]
  <1>1. n \in Nat
    OBVIOUS
  <1>2. Cut(name) = cut[n]
    BY DEF Cut
  <1> HIDE DEF n
  <1>3. Most(Delimiters(0, name)) = 0
    <2>1. Delimiters(0, name) = {0} /\ 0 \in Nat
      BY DEF Delimiters
    <2> QED
      BY <2>1, LastDelimiter
  <1>4. last = Turn(last)
    <2>1. ASSUME NEW len \in 0 .. n, len # 0
          PROVE  last[len] = IF name[len] # "a" THEN len ELSE last[len - 1]
      <3>1. len \in Nat /\ len - 1 \in 0 .. n
        BY <1>1, <2>1
      <3> QED
        BY <2>1, <3>1, OneMore
    <2> QED
      BY <1>1, <1>3, <2>1
  <1>5. cut = Turn(cut)
    <2> HIDE DEF Turn, last
    <2> QED
      BY <1>4
  <1> HIDE DEF cut
  <1> DEFINE Wrong == {len \in 0 .. n : cut[len] # last[len]}
  <1> SUFFICES ASSUME Wrong # {} PROVE FALSE
    BY <1>1, <1>2, SMTT(30)
  <1>6. PICK len \in Wrong : \A k \in Wrong : len <= k
    <2>1. Wrong \in SUBSET Nat
      BY <1>1
    <2> QED
      BY <2>1, LeastIn
  <1>7. len # 0
    BY <1>1, <1>4, <1>5
  <1>8. len - 1 \in 0 .. n /\ len - 1 \notin Wrong
    BY <1>1, <1>6, <1>7
  <1> QED
    BY <1>4, <1>5, <1>6, <1>7, <1>8

\* get_prefix cuts a boot file at the end of its directory.
LEMMA PrefixIsDirectory ==
  ASSUME NEW name \in Seq({"a", "/", ":"})
  PROVE  SubSeq(name, 1, Cut(name)) = Directory(name)
  <1>1. Len(name) \in Nat
    OBVIOUS
  <1>2. Cut(name) = Most(Delimiters(Len(name), name))
    BY CutsAtDelimiter
  <1> QED
    BY <1>2 DEF Directory, Delimiters, Most

\* What get_prefix gives is absolute, so that chdir replaces what there was, and
\* a second chdir changes nothing.
LEMMA PathRight ==
  ASSUME NEW option \in Names, NEW boot_file \in Names, NEW flags \in SUBSET {"on", "prefix"}
  PROVE  LET prefix == GetPrefix(DHCPMagic(flags), option, boot_file)
             cwd == PxeChdir(<<":", ":">>, prefix)
             dir == IF flags = {"on", "prefix"} THEN option ELSE Directory(boot_file)
         IN /\ cwd = IF UrlSuffix(dir) THEN <<":", ":">> \o dir ELSE dir
            /\ PxeChdir(cwd, prefix) = cwd
            /\ PxeRealpath(cwd, boot_file)
                 = IF UrlSuffix(boot_file) THEN cwd \o boot_file ELSE boot_file
  <1> DEFINE prefix == GetPrefix(DHCPMagic(flags), option, boot_file)
             dir == IF flags = {"on", "prefix"} THEN option ELSE Directory(boot_file)
             absolute == IF UrlSuffix(dir) THEN <<":", ":">> \o dir ELSE dir
             Chars == {"a", "/", ":"}
  <1>1. option \in Seq(Chars) /\ boot_file \in Seq(Chars)
    BY NamesAssumption
  <1>2. "prefix" \in DHCPMagic(flags) <=> flags = {"on", "prefix"}
    BY DEF DHCPMagic
  <1>3. prefix = absolute
    BY <1>1, <1>2, PrefixIsDirectory DEF GetPrefix
  <1>4. dir \in Seq(Chars)
    <2>1. Directory(boot_file) \in Seq(Chars)
      <3>1. Cut(boot_file) \in 0 .. Len(boot_file)
        <4>1. Len(boot_file) \in Nat
          BY <1>1
        <4>2. Most(Delimiters(Len(boot_file), boot_file)) \in 0 .. Len(boot_file)
          BY <4>1, LastDelimiter DEF Delimiters
        <4> QED
          BY <1>1, <4>1, <4>2, CutsAtDelimiter
      <3>2. SubSeq(boot_file, 1, Cut(boot_file)) \in Seq(Chars)
        BY <1>1, <3>1
      <3> QED
        BY <1>1, <3>2, PrefixIsDirectory
    <2> QED
      BY <1>1, <2>1
  <1> HIDE DEF dir
  <1>5. ~UrlSuffix(absolute)
    <2>1. CASE UrlSuffix(dir)
      <3> DEFINE both == <<":", ":">> \o dir
      <3>1. <<":", ":">> \in Seq(Chars) /\ Len(<<":", ":">>) = 2
        OBVIOUS
      <3>2. Len(both) = 2 + Len(dir) /\ both[1] = ":"
        BY <1>4, <3>1
      <3>3. both # <<>>
        BY <1>4, <3>2
      <3> QED
        BY <2>1, <3>2, <3>3 DEF UrlSuffix
    <2>2. CASE ~UrlSuffix(dir)
      BY <2>2
    <2> QED
      BY <2>1, <2>2
  <1> HIDE DEF absolute
  <1>6. \A name \in Seq(Chars) : <<>> \o name = name
    OBVIOUS
  <1>7. PxeChdir(<<":", ":">>, prefix) = absolute /\ PxeChdir(absolute, prefix) = absolute
    BY <1>3, <1>5 DEF PxeChdir
  <1> QED
    BY <1>1, <1>6, <1>7 DEF PxeRealpath, absolute, dir

-----------------------------------------------------------------------------
\* The name that DHCP gives, if it gives one, and how often the one made of the
\* MAC address is tried.
ByDhcp == IF "config" \in boot.magic THEN <<"dhcp">> ELSE <<>>
ByMac(n) == [k \in 1 .. n |-> "mac"]

\* What was opened so far: the file in progress is the last one.
OpenedSoFar ==
  LET tried == IF fs.at = "idle" THEN 0 ELSE 1 IN
  /\ boot.stage = "init" => boot.opened = <<>>
  /\ boot.stage = "dhcp" => /\ "config" \in boot.magic /\ boot.tries = TRIES
                            /\ boot.opened = IF fs.at = "idle" THEN <<>> ELSE <<"dhcp">>
  /\ boot.stage = "mac" => /\ boot.tries \in 1 .. TRIES
                           /\ boot.opened = ByDhcp \o ByMac(TRIES - boot.tries + tried)
  /\ boot.stage = "kaboom" => boot.opened = ByDhcp \o ByMac(TRIES)

\* A try more.
LEMMA TriedAgain ==
  ASSUME NEW s \in Seq({"dhcp", "mac"}), NEW n \in Nat
  PROVE  Append(s \o ByMac(n), "mac") = s \o ByMac(n + 1)
  <1>1. \A k \in Nat : ByMac(k) \in Seq({"mac"}) /\ Len(ByMac(k)) = k
    BY DEF ByMac
  <1>2. n + 1 \in Nat
    OBVIOUS
  <1>3. Append(ByMac(n), "mac") = ByMac(n + 1)
    BY DEF ByMac
  <1> HIDE DEF ByMac
  <1>4. \A t \in Seq({"mac"}) : Append(s \o t, "mac") = s \o Append(t, "mac")
    OBVIOUS
  <1> QED
    BY <1>1, <1>3, <1>4

\* No try yet.
LEMMA NotTried ==
  ASSUME NEW s \in Seq({"dhcp", "mac"})
  PROVE  s \o ByMac(0) = s
  <1>1. ByMac(0) = <<>>
    BY DEF ByMac
  <1> QED
    BY <1>1

\* A step of the file system does not begin a file, and does not forget one.
LEMMA FileStays ==
  ASSUME FilesRight, FsStep \/ Answers
  PROVE  fs.at = "idle" <=> fs'.at = "idle"
  <1>0. fs \in Files
    BY DEF FilesRight, FilesTyped
  <1>1. CASE UNCHANGED fsVars
    BY <1>1 DEF fsVars
  <1>2. \A at \in Places \ {"idle"} : Do(at) => fs'.at # "idle"
    BY <1>0, Does
  <1>3. {"tcpOpened", "connected", "written", "getc", "opened", "fail", "failed", "attempt", "copy",
         "chunk", "more", "returned", "closed", "tcpOpen"} \subseteq Places \ {"idle"}
    BY DEF Places
  <1>4. \A at : [fs EXCEPT !.at = at].at = at
    BY <1>0 DEF Files
  <1>5. CASE OpenUrl
    <2>1. fs.at # "idle"
      BY <1>5 DEF OpenUrl, FsAt
    <2>2. CASE AttemptFails
      BY <1>0, <2>1, <2>2, AttemptFailsRight
    <2>3. CASE fs' = [fs EXCEPT !.at = "tcpOpen", !.redirects = @ + 1]
      BY <1>0, <2>1, <2>3 DEF Files
    <2> QED
      BY <1>5, <2>2, <2>3 DEF OpenUrl
  <1>6. CASE HttpConnects \/ ServerReplies \/ Getc
    BY <1>2, <1>3, <1>6 DEF HttpConnects, ServerReplies, Getc, FsAt
  <1>7. CASE HttpFails \/ Redirected \/ ReadOn
    BY <1>2, <1>3, <1>7 DEF HttpFails, Redirected, ReadOn, FsAt
  <1>8. CASE NotFound
    BY <1>0, <1>8, AttemptFailsRight DEF NotFound, FsAt
  <1>9. CASE GetFsSec
    <2>1. fs.at # "idle"
      BY <1>9 DEF GetFsSec, FsAt
    <2>2. PICK garbage \in BOOLEAN :
            fs' = [fs EXCEPT !.at = "chunk", !.count = BLOCK * BLOCKS, !.more = garbage]
      BY <1>9 DEF GetFsSec
    <2> QED
      BY <1>0, <2>1, <2>2 DEF Files
  <1>10. CASE ChunkFills \/ CloseFile
    BY <1>2, <1>3, <1>4, <1>10 DEF ChunkFills, CloseFile, FsAt
  <1>11. CASE Copy
    <2>1. fs.at # "idle"
      BY <1>11 DEF Copy, FsAt
    <2>2. fs'.at \in {"more", "chunk"}
      BY <1>0, <1>11 DEF Copy, Files
    <2> QED
      BY <2>1, <2>2
  <1>12. CASE MoreFills \/ NoMore
    <2>1. fs.at # "idle"
      BY <1>12 DEF MoreFills, NoMore, AtMore, FsAt
    <2>2. fs'.at = "returned"
      BY <1>0, <1>12 DEF MoreFills, NoMore, Files
    <2> QED
      BY <2>1, <2>2
  <1>13. CASE GetcFills
    BY <1>13 DEF GetcFills, fsVars
  <1> QED
    BY <1>1, <1>5, <1>6, <1>7, <1>8, <1>9, <1>10, <1>11, <1>12, <1>13 DEF FsStep, Answers

\* A file that was looked for is opened once for each name, in order.
LEMMA StepOpened ==
  ASSUME IInv, OpenedSoFar, [Next]_vars
  PROVE  OpenedSoFar'
  <1>0. BootTyped /\ FilesRight /\ ReadAt /\ LoadTyped
    BY DEF IInv, LoadIInv
  <1>1. /\ boot.stage \in {"init", "dhcp", "mac", "load", "menu", "noMenu", "kaboom", "over"}
        /\ boot.tries \in Nat /\ fs \in Files /\ TRIES \in Nat /\ TRIES > 0
    BY <1>0, PxeAssumption DEF BootTyped, FilesRight, FilesTyped
  <1>2. ByDhcp \in Seq({"dhcp", "mac"})
    <2>1. <<>> \in Seq({"dhcp", "mac"}) /\ <<"dhcp">> \in Seq({"dhcp", "mac"})
      OBVIOUS
    <2> QED
      BY <2>1 DEF ByDhcp
  <1>3. CASE FileSystemInit
    <2>1. boot.stage = "init" /\ fs' = fs /\ fs.at = "idle"
      <3>1. boot.stage = "init" /\ fs' = fs
        BY <1>3 DEF FileSystemInit, fsVars
      <3> QED
        BY <1>0, <3>1 DEF ReadAt, LoadTyped, TopIs
    <2>2. PICK flags \in SUBSET {"on", "config", "prefix"} :
            boot' = [boot EXCEPT !.stage = IF "config" \in DHCPMagic(flags) THEN "dhcp" ELSE "mac",
                                 !.magic = DHCPMagic(flags), !.tries = TRIES]
      BY <1>3 DEF FileSystemInit
    <2>3. /\ boot'.stage = IF "config" \in boot'.magic THEN "dhcp" ELSE "mac"
          /\ boot'.tries = TRIES /\ boot'.opened = <<>>
      BY <1>0, <2>1, <2>2 DEF BootTyped, OpenedSoFar
    <2>4. CASE "config" \in boot'.magic
      BY <2>1, <2>3, <2>4 DEF OpenedSoFar
    <2>5. CASE "config" \notin boot'.magic
      <3>1. ByDhcp' = <<>> /\ TRIES - boot'.tries + 0 = 0 /\ boot'.tries \in 1 .. TRIES
        BY <1>1, <2>3, <2>5 DEF ByDhcp
      <3>2. <<>> \o ByMac(0) = <<>>
        <4>1. <<>> \in Seq({"dhcp", "mac"})
          OBVIOUS
        <4> QED
          BY <4>1, NotTried
      <3>3. ByMac(0)' = ByMac(0)
        BY DEF ByMac
      <3> QED
        BY <2>1, <2>3, <2>5, <3>1, <3>2, <3>3 DEF OpenedSoFar, ByMac
    <2> QED
      BY <2>4, <2>5
  <1>4. CASE OpenFile
    <2>1. /\ boot.stage \in {"dhcp", "mac"} /\ fs.at = "idle"
          /\ boot' = [boot EXCEPT !.opened = Append(@, boot.stage)]
          /\ fs' = [fs EXCEPT !.at = "attempt", !.retry = PXERetry, !.redirects = 0]
      BY <1>4 DEF OpenFile, SearchDir
    <2>2. /\ fs'.at = "attempt" /\ boot'.stage = boot.stage /\ boot'.tries = boot.tries
          /\ boot'.magic = boot.magic /\ boot'.opened = Append(boot.opened, boot.stage)
      BY <1>0, <1>1, <2>1 DEF BootTyped, Files
    <2>3. CASE boot.stage = "dhcp"
      <3>1. boot.opened = <<>> /\ "config" \in boot.magic /\ boot.tries = TRIES
        BY <2>1, <2>3 DEF OpenedSoFar
      <3>2. Append(<<>>, "dhcp") = <<"dhcp">>
        OBVIOUS
      <3> QED
        BY <2>2, <2>3, <3>1, <3>2 DEF OpenedSoFar
    <2>4. CASE boot.stage = "mac"
      <3>1. /\ TRIES - boot.tries + 0 \in Nat /\ boot.tries \in 1 .. TRIES
            /\ boot.opened = ByDhcp \o ByMac(TRIES - boot.tries + 0)
        BY <1>1, <2>1, <2>4 DEF OpenedSoFar
      <3>2. Append(boot.opened, "mac") = ByDhcp \o ByMac(TRIES - boot.tries + 0 + 1)
        BY <1>2, <3>1, TriedAgain
      <3>3. TRIES - boot.tries + 0 + 1 = TRIES - boot.tries + 1
        BY <1>1
      <3>4. ByDhcp' = ByDhcp
        BY <2>2 DEF ByDhcp
      <3> QED
        BY <2>2, <2>4, <3>1, <3>2, <3>3, <3>4 DEF OpenedSoFar, ByMac
    <2> QED
      BY <2>1, <2>3, <2>4
  <1>5. CASE OpenFailed
    <2>1. /\ boot.stage \in {"dhcp", "mac"} /\ fs.at = "notFound"
          /\ boot' = IF boot.stage = "dhcp" THEN [boot EXCEPT !.stage = "mac"]
                     ELSE [boot EXCEPT !.stage = IF boot.tries = 1 THEN "kaboom" ELSE @,
                                       !.tries = @ - 1]
          /\ fs' = [fs EXCEPT !.at = "idle", !.count = 0, !.more = FALSE, !.redirects = 0, !.retry = 0]
      BY <1>5 DEF OpenFailed, FsIdle, NoTriesLeft
    <2>2. fs'.at = "idle" /\ boot'.magic = boot.magic /\ boot'.opened = boot.opened /\ ByDhcp' = ByDhcp
      BY <1>0, <1>1, <2>1 DEF BootTyped, Files, ByDhcp
    <2>3. CASE boot.stage = "dhcp"
      <3>1. boot'.stage = "mac" /\ boot'.tries = TRIES /\ boot'.opened = <<"dhcp">>
            /\ ByDhcp = <<"dhcp">>
        BY <1>0, <2>1, <2>2, <2>3 DEF BootTyped, OpenedSoFar, ByDhcp
      <3>2. ByDhcp \o ByMac(0) = ByDhcp
        BY <1>2, NotTried
      <3>3. TRIES - boot'.tries + 0 = 0 /\ boot'.tries \in 1 .. TRIES
        BY <1>1, <3>1
      <3> QED
        BY <2>2, <3>1, <3>2, <3>3 DEF OpenedSoFar, ByMac
    <2>4. CASE boot.stage = "mac"
      <3>1. /\ boot'.stage = IF boot.tries = 1 THEN "kaboom" ELSE "mac"
            /\ boot'.tries = boot.tries - 1
        BY <1>0, <2>1, <2>4 DEF BootTyped
      <3>2. boot.tries \in 1 .. TRIES /\ boot.opened = ByDhcp \o ByMac(TRIES - boot.tries + 1)
        BY <2>1, <2>4 DEF OpenedSoFar
      <3>3. TRIES - boot.tries + 1 = TRIES - (boot.tries - 1) + 0
        BY <1>1
      <3>4. CASE boot.tries = 1
        <4>1. TRIES - boot.tries + 1 = TRIES
          BY <1>1, <3>4
        <4> QED
          BY <2>2, <3>1, <3>2, <3>4, <4>1 DEF OpenedSoFar, ByMac
      <3>5. CASE boot.tries # 1
        <4>1. boot.tries - 1 \in 1 .. TRIES
          BY <1>1, <3>2, <3>5
        <4> QED
          BY <2>2, <3>1, <3>2, <3>3, <3>5, <4>1 DEF OpenedSoFar, ByMac
      <3> QED
        BY <3>4, <3>5
    <2> QED
      BY <2>1, <2>3, <2>4
  <1>6. CASE ConfigRead
    <2>1. boot'.stage = "load"
      BY <1>6 DEF ConfigRead
    <2> QED
      BY <2>1 DEF OpenedSoFar
  <1>7. CASE MenuLoaded \/ MenuEnds
    <2>1. boot'.stage \in {"menu", "noMenu", "over"}
      BY <1>0, <1>7 DEF MenuLoaded, MenuEnds, BootTyped
    <2> QED
      BY <2>1 DEF OpenedSoFar
  <1>8. CASE boot' = boot /\ (fs.at = "idle" <=> fs'.at = "idle")
    BY <1>8 DEF OpenedSoFar, ByDhcp, ByMac
  <1>9. CASE LoadStep /\ UNCHANGED <<menuVars, boot>>
    <2>1. stack # <<>>
      BY <1>9 DEF LoadStep, FindModule, ImageLoaded, Prepare, Dependency, Finish, LoadError, TopIs
    <2>2. boot' = boot /\ boot.stage = "load"
      BY <1>0, <1>9, <2>1 DEF LoadTyped
    <2> QED
      BY <2>2 DEF OpenedSoFar
  <1>10. CASE (FsStep \/ Answers) /\ UNCHANGED <<loadVars, menuVars, boot>>
    <2>1. boot' = boot /\ (fs.at = "idle" <=> fs'.at = "idle")
      BY <1>0, <1>10, FileStays
    <2> QED
      BY <1>8, <2>1
  <1>11. CASE MenuStep /\ UNCHANGED <<tcpVars, fsVars, loadVars, boot>>
    BY <1>8, <1>11 DEF fsVars
  <1>12. CASE UNCHANGED vars
    BY <1>8, <1>12 DEF vars, fsVars
  <1> QED
    BY <1>3, <1>4, <1>5, <1>6, <1>7, <1>9, <1>10, <1>11, <1>12 DEF Next, Loader, Terminated

\* The configuration is looked for where it should be: for every name of the
\* boot file and every prefix of DHCP under the same absolute directory, first
\* under the name of DHCP, if it gives one, then under that of the MAC address,
\* at most TRIES times, and under all of them before the loader gives up.
THEOREM ConfigFound == Spec => []ConfigExact
  <1>1. Init => OpenedSoFar
    BY DEF Init, OpenedSoFar
  <1>2. IInv /\ OpenedSoFar /\ [Next]_vars => OpenedSoFar'
    BY StepOpened
  <1>3. OpenedSoFar => ConfigExact
    <2> SUFFICES ASSUME OpenedSoFar PROVE ConfigExact
      OBVIOUS
    <2>1. boot.stage = "kaboom" => boot.opened = ByDhcp \o ByMac(TRIES)
      BY DEF OpenedSoFar
    <2>2. boot.stage = "dhcp" => boot.opened \in {<<>>, ByDhcp}
      BY DEF OpenedSoFar, ByDhcp
    <2>3. boot.stage = "mac" => \E n \in 0 .. TRIES : boot.opened = ByDhcp \o ByMac(n)
      <3> SUFFICES ASSUME boot.stage = "mac"
                   PROVE  \E n \in 0 .. TRIES : boot.opened = ByDhcp \o ByMac(n)
        OBVIOUS
      <3> DEFINE tries == TRIES - boot.tries + (IF fs.at = "idle" THEN 0 ELSE 1)
      <3>1. boot.opened = ByDhcp \o ByMac(tries)
        BY DEF OpenedSoFar
      <3>2. tries \in 0 .. TRIES
        BY PxeAssumption DEF OpenedSoFar
      <3> QED
        BY <3>1, <3>2
    <2>4. \A option, boot_file \in Names, flags \in SUBSET {"on", "prefix"} :
            LET prefix == GetPrefix(DHCPMagic(flags), option, boot_file)
                cwd == PxeChdir(<<":", ":">>, prefix)
                dir == IF flags = {"on", "prefix"} THEN option ELSE Directory(boot_file)
            IN /\ cwd = IF UrlSuffix(dir) THEN <<":", ":">> \o dir ELSE dir
               /\ PxeChdir(cwd, prefix) = cwd
               /\ PxeRealpath(cwd, boot_file)
                    = IF UrlSuffix(boot_file) THEN cwd \o boot_file ELSE boot_file
      BY PathRight
    <2> QED
      BY <2>1, <2>2, <2>3, <2>4 DEF ConfigExact, ByDhcp, ByMac
  <1> QED
    BY <1>1, <1>2, <1>3, Invariance, PTL DEF Spec

=============================================================================

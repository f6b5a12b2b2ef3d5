------------------------------- MODULE PxeFs -------------------------------
(***************************************************************************)
(* core/fs/pxe of syslinux: the file system over HTTP that the boot loader *)
(* reads its configuration and its modules from.                           *)
(*                                                                         *)
(* url.c, http.c and the callers in core/fs are not in the source tree.    *)
(* http_open is modelled by the calls of this code that it needs: connect, *)
(* write the request, pxe_getc the header (one unit), set the size; and,   *)
(* where it does not deliver a file, close what is still connected.  The   *)
(* caller opens a file, calls getfssec until have_more is FALSE and closes *)
(* the file; its have_more is not initialised.                             *)
(*                                                                         *)
(* BLOCK is TFTP_BLOCKSIZE in units, MAXREDIR the 5 of __pxe_searchdir,    *)
(* TRIES the 8 of pxe_open_config.  Replies are what a server may answer:  *)
(* it announces the size of a file or, -1, does not; an empty file counts  *)
(* as missing.                                                             *)
(***************************************************************************)
EXTENDS EfiTcp, Sequences, SequencesExt

CONSTANTS BLOCK, BLOCKS, PXERetry, MAXREDIR, TRIES, Replies

ASSUME PxeAssumption ==
  /\ BLOCK \in Nat \ {0} /\ BLOCKS \in Nat \ {0}
  /\ PXERetry \in Nat /\ MAXREDIR \in Nat /\ TRIES \in Nat \ {0}
  /\ \A r \in Replies :
       /\ r.kind \in {"file", "redirect", "missing"}
       /\ r.len \in Nat /\ r.sent \in 0 .. r.len
       /\ r.kind = "file" => r.len > 0 /\ r.size \in {-1, r.len}

VARIABLES
  fs,       \* where pxe.c is, and its locals
  reply,    \* what the server answers to the request in progress
  got,      \* units of the file the caller has, and whether all came from the server
  inodes,   \* inodes allocated and not freed
  lost      \* inodes of URLs that were redirected, which nobody frees

fsVars == <<fs, reply, got, inodes, lost>>

NoReply == [kind |-> "none", len |-> 0, sent |-> 0, size |-> 0]
Nothing == [units |-> 0, clean |-> TRUE]

FsInit ==
  /\ fs = [at |-> "idle", retry |-> 0, redirects |-> 0, count |-> 0, more |-> FALSE, rv |-> 0]
  /\ reply = NoReply /\ got = Nothing /\ inodes = 0 /\ lost = 0

Do(at) == fs' = [fs EXCEPT !.at = at]
\* A function of efi/tcp.c has returned to where pxe.c is.
FsAt(at) == fs.at = at /\ tcp.at = "out"

-----------------------------------------------------------------------------
(***************************************************************************)
(* Names.  A character is "a" for a letter, a digit, a dot or a dash, "/"  *)
(* for a delimiter and ":" for the colon of "::".                          *)
(***************************************************************************)
UrlSuffix(name) == name = <<>> \/ name[1] # ":"

\* The loop of get_prefix: len and p run back together to a delimiter.
Cut(name) ==
  LET cut[len \in 0 .. Len(name)] ==
        IF len = 0 THEN 0 ELSE IF name[len] # "a" THEN len ELSE cut[len - 1]
  IN cut[Len(name)]

\* get_prefix: the prefix DHCP gives or else that of the boot file, taken
\* from the root if it is relative.
GetPrefix(magic, option, boot_file) ==
  LET path == IF "prefix" \in magic THEN option
              ELSE SubSeq(boot_file, 1, Cut(boot_file))
  IN IF UrlSuffix(path) THEN <<":", ":">> \o path ELSE path

\* network_init: without the magic enable no other option counts.
DHCPMagic(flags) == IF "on" \in flags THEN flags ELSE {}

PxeChdir(cwd_name, src) == IF UrlSuffix(src) THEN cwd_name \o src ELSE src

PxeRealpath(cwd_name, src) == (IF UrlSuffix(src) THEN cwd_name ELSE <<>>) \o src

-----------------------------------------------------------------------------
\* pxe_searchdir is called.
SearchDir ==
  /\ fs' = [fs EXCEPT !.at = "attempt", !.retry = PXERetry, !.redirects = 0]
  /\ got' = Nothing

\* Mutant of AttemptFails: the retries are not counted.
AttemptFailsAgain == fs' = [fs EXCEPT !.at = "attempt", !.redirects = 0]

AttemptFails ==
  fs' = IF fs.retry = 0 THEN [fs EXCEPT !.at = "notFound"]
        ELSE [fs EXCEPT !.at = "attempt", !.retry = @ - 1, !.redirects = 0]

TooManyRedirects(n) == n > MAXREDIR

\* One turn of the loop of __pxe_searchdir: an inode is allocated for the URL
\* and http_open, or tftp_open which calls it, begins.  There may be no memory,
\* or no scheme that fits.
OpenUrl ==
  /\ FsAt("attempt")
  /\ UNCHANGED <<reply, got, cb_status, token, bindings, peer>>
  /\ IF TooManyRedirects(fs.redirects)
     THEN /\ AttemptFails
          /\ inodes' = inodes - 1 /\ lost' = lost - 1
          /\ UNCHANGED <<tcp, sock, faults, trouble>>
     ELSE \/ /\ inodes' = inodes + 1
             /\ sock' = NoSock
             /\ fs' = [fs EXCEPT !.at = "tcpOpen", !.redirects = @ + 1]
             /\ UNCHANGED <<lost, tcp, faults, trouble>>
          \/ Refused("refused") /\ AttemptFails /\ UNCHANGED <<tcp, sock, inodes, lost>>

\* http_open: core_tcp_open, core_tcp_connect, core_tcp_write.
HttpConnects ==
  \/ /\ FsAt("tcpOpen") /\ TcpOpen /\ Do("tcpOpened")
     /\ UNCHANGED <<reply, got, inodes, lost>>
  \/ /\ FsAt("tcpOpened") /\ tcp.rv = 0
     /\ TcpConnect /\ Do("connected")
     /\ UNCHANGED <<reply, got, inodes, lost>>
  \/ /\ FsAt("connected") /\ tcp.rv = 0
     /\ TcpWrite /\ Do("written")
     /\ UNCHANGED <<reply, got, inodes, lost>>

\* The server has the request; what it will send begins with the header.  A
\* redirect, and a connection that breaks before all of the file is sent, use
\* up a fault.
ServerReplies ==
  /\ FsAt("written") /\ tcp.rv = 0 /\ reply = NoReply
  /\ \E r \in Replies :
       /\ reply' = r
       /\ peer' = 1 + r.sent
       /\ CASE r.kind = "redirect" -> Refused("redirect")
            [] r.sent < r.len       -> Refused("truncated")
            [] OTHER                -> Granted
  /\ Do("getc")
  /\ UNCHANGED <<got, inodes, lost, cb_status, token, tcp, sock, bindings>>

\* pxe_getc: a character, or else another packet, or -1 at the end.
GetcFills ==
  /\ FsAt("getc") /\ sock.bytesleft = 0 /\ ~sock.goteof
  /\ TcpFill
  /\ UNCHANGED fsVars

Getc ==
  /\ FsAt("getc") /\ sock.bytesleft > 0
  /\ LET s == [sock EXCEPT !.bytesleft = @ - 1] IN
     IF reply.kind = "file" /\ ~sock.stale
     THEN /\ sock' = [s EXCEPT !.size = reply.size, !.filepos = s.bytesleft]
          /\ Do("opened")
     ELSE /\ sock' = s
          /\ Do("fail")
  /\ UNCHANGED <<reply, got, inodes, lost, cb_status, token, tcp, bindings, peer, faults, trouble>>

\* http_open fails on the way; it closes what core_tcp_is_connected.
HttpFails ==
  /\ \/ FsAt("fail")
     \/ FsAt("getc") /\ sock.bytesleft = 0 /\ sock.goteof
     \/ fs.at \in {"tcpOpened", "connected", "written"} /\ tcp.at = "out" /\ tcp.rv = -1
  /\ IF sock.binding THEN TcpClose ELSE UNCHANGED tcpVars
  /\ Do("failed")
  /\ UNCHANGED <<reply, got, inodes, lost>>

\* The rest of __pxe_searchdir: a redirect begins the next turn with an inode
\* of its own; an inode without a size is freed.
Redirected ==
  /\ FsAt("failed") /\ reply.kind = "redirect" /\ ~sock.stale
  /\ Do("attempt")
  /\ lost' = lost + 1
  /\ reply' = NoReply /\ peer' = 0
  /\ UNCHANGED <<got, inodes, cb_status, token, tcp, sock, bindings, faults, trouble>>

NotFound ==
  /\ FsAt("failed") /\ (reply.kind # "redirect" \/ sock.stale)
  /\ AttemptFails
  /\ inodes' = inodes - 1
  /\ reply' = NoReply /\ peer' = 0
  /\ UNCHANGED <<got, lost, cb_status, token, tcp, sock, bindings, faults, trouble>>

-----------------------------------------------------------------------------
\* pxe_getfssec is called for BLOCKS blocks; have_more is what the caller's
\* stack holds.
GetFsSec ==
  /\ FsAt("opened")
  /\ \E garbage \in BOOLEAN :
       fs' = [fs EXCEPT !.at = "chunk", !.count = BLOCK * BLOCKS, !.more = garbage]
  /\ UNCHANGED <<reply, got, inodes, lost, tcpVars>>

\* fill_buffer calls ops->fill_buffer.
Drained(s) == s.bytesleft = 0 /\ ~s.goteof

\* The loop: fill_buffer, then copy what there is.
ChunkFills ==
  /\ FsAt("chunk") /\ fs.count > 0 /\ Drained(sock)
  /\ TcpFill /\ Do("copy")
  /\ UNCHANGED <<reply, got, inodes, lost>>

Copy ==
  /\ \/ FsAt("copy")
     \/ FsAt("chunk") /\ fs.count > 0 /\ ~Drained(sock)
  /\ LET chunk == IF fs.count < sock.bytesleft THEN fs.count ELSE sock.bytesleft IN
     /\ sock' = [sock EXCEPT !.bytesleft = @ - chunk]
     /\ got' = [units |-> got.units + chunk, clean |-> got.clean /\ (chunk = 0 \/ ~sock.stale)]
     /\ fs' = [fs EXCEPT !.count = @ - chunk,
                         !.at = IF sock.bytesleft = 0 THEN "more" ELSE "chunk"]
  /\ UNCHANGED <<reply, inodes, lost, cb_status, token, tcp, bindings, peer, faults, trouble>>

\* Mutant of ThereIsMore: what is left in the buffer does not count.
MoreToCome(s) == s.size = -1 \/ s.filepos < s.size

\* A size of -1 is the largest uint64_t.
ThereIsMore(s) == s.bytesleft > 0 \/ s.size = -1 \/ s.filepos < s.size

AtMore == FsAt("more") \/ (FsAt("chunk") /\ fs.count = 0)

MoreFills ==
  /\ AtMore /\ ThereIsMore(sock)
  /\ fs' = [fs EXCEPT !.at = "returned", !.more = TRUE]
  /\ IF Drained(sock) THEN TcpFill ELSE UNCHANGED tcpVars
  /\ UNCHANGED <<reply, got, inodes, lost>>

NoMore ==
  /\ AtMore /\ ~ThereIsMore(sock)
  /\ fs' = [fs EXCEPT !.at = "returned", !.more = IF sock.goteof THEN FALSE ELSE @]
  /\ UNCHANGED <<reply, got, inodes, lost, tcpVars>>

\* The caller reads on, or closes the file.
ReadOn ==
  /\ FsAt("returned") /\ fs.more
  /\ Do("opened")
  /\ UNCHANGED <<reply, got, inodes, lost, tcpVars>>

MustClose(s) == ~s.goteof

\* pxe_close_file; free_socket frees the inode with all that is in it.
CloseFile ==
  /\ FsAt("returned") /\ ~fs.more
  /\ IF MustClose(sock) THEN TcpClose ELSE UNCHANGED tcpVars
  /\ inodes' = inodes - 1
  /\ fs' = [fs EXCEPT !.at = "closed"]
  /\ UNCHANGED <<reply, got, lost>>

\* What open_file returned and the caller read is used.
FsIdle ==
  /\ fs' = [fs EXCEPT !.at = "idle", !.count = 0, !.more = FALSE, !.redirects = 0, !.retry = 0]
  /\ reply' = NoReply /\ got' = Nothing /\ sock' = NoSock /\ peer' = 0
  /\ trouble' = trouble \cap {"leak"}
  /\ UNCHANGED <<inodes, lost, cb_status, token, tcp, bindings, faults>>

\* The firmware has done what it was asked for.
Answers == TokenDone /\ UNCHANGED fsVars

FsStep ==
  \/ TcpStep /\ UNCHANGED fsVars
  \/ OpenUrl \/ HttpConnects \/ ServerReplies \/ GetcFills \/ Getc \/ HttpFails
  \/ Redirected \/ NotFound
  \/ GetFsSec \/ ChunkFills \/ Copy \/ MoreFills \/ NoMore \/ ReadOn \/ CloseFile

-----------------------------------------------------------------------------
(***************************************************************************)
(* Properties.                                                             *)
(***************************************************************************)
FsTypeOK ==
  /\ TcpTypeOK
  /\ fs.at \in {"idle", "attempt", "tcpOpen", "tcpOpened", "connected", "written", "getc",
                "fail", "failed", "notFound", "opened", "chunk", "copy", "more", "returned",
                "closed"}
  /\ fs.redirects \in 0 .. MAXREDIR + 1 /\ fs.retry \in 0 .. PXERetry
  /\ fs.count \in 0 .. BLOCK * BLOCKS
  /\ lost \in Nat

\* A file that was read to the end, with no token that failed, is the file
\* the server has (or, where it did not tell the size, all that it sent),
\* whatever the caller's have_more was before: nothing that was received is
\* dropped, nothing is read twice.
ReadExact ==
  /\ fs.at = "closed" /\ got.clean =>
       got.units = IF reply.size = -1 THEN reply.sent ELSE reply.len
  /\ fs.at \in {"opened", "chunk", "copy", "more", "returned", "closed"} /\ got.clean
       => got.units <= reply.sent

\* What was opened is closed once, on every path: outside an open file there
\* is no binding but those that core_tcp_close_file could not close, and no
\* inode but those of redirected URLs.
Balanced ==
  /\ "leak" \notin trouble => bindings = IF sock.binding THEN 1 ELSE 0
  /\ fs.at \in {"idle", "notFound", "closed"} => inodes = lost /\ ("leak" \notin trouble => bindings = 0)

=============================================================================

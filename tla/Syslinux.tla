------------------------------ MODULE Syslinux ------------------------------
(***************************************************************************)
(* The boot loader from the start of its PXE file system to the command    *)
(* that its menu runs: pxe_open_config finds and reads the configuration,  *)
(* module_load loads the menu with what it needs, and the menu runs.       *)
(***************************************************************************)
EXTENDS ModuleLoad, Menu

CONSTANT Names   \* boot file names and path prefixes DHCP may give

ASSUME NamesAssumption == Names \subseteq Seq({"a", "/", ":"})

VARIABLE boot    \* the stage, DHCPMagic, tries left, and the names opened

vars == <<tcpVars, fsVars, loadVars, menuVars, boot>>

Init ==
  /\ TcpInit /\ FsInit /\ LoadInit /\ MenuInit
  /\ boot = [stage |-> "init", magic |-> {}, tries |-> 0, opened |-> <<>>]

\* pxe_fs_init, pxe_chdir_start.
FileSystemInit ==
  /\ boot.stage = "init"
  /\ \E flags \in SUBSET {"on", "config", "prefix"} :
       boot' = [boot EXCEPT !.stage = IF "config" \in DHCPMagic(flags) THEN "dhcp" ELSE "mac",
                            !.magic = DHCPMagic(flags), !.tries = TRIES]
  /\ UNCHANGED <<tcpVars, fsVars, loadVars, menuVars>>

\* pxe_open_config calls open_file: for the name DHCP gave, or for the one
\* with the MAC address while tries are left.
OpenFile ==
  /\ boot.stage \in {"dhcp", "mac"} /\ fs.at = "idle"
  /\ SearchDir
  /\ boot' = [boot EXCEPT !.opened = Append(@, boot.stage)]
  /\ UNCHANGED <<tcpVars, reply, inodes, lost, loadVars, menuVars>>

\* Mutant of NoTriesLeft: one try less.
OneTryLeft(n) == n <= 2

NoTriesLeft(n) == n = 1

\* It could not be opened; in the end, kaboom.
OpenFailed ==
  /\ boot.stage \in {"dhcp", "mac"} /\ fs.at = "notFound"
  /\ FsIdle
  /\ boot' = IF boot.stage = "dhcp" THEN [boot EXCEPT !.stage = "mac"]
             ELSE [boot EXCEPT !.stage = IF NoTriesLeft(boot.tries) THEN "kaboom" ELSE @,
                               !.tries = @ - 1]
  /\ UNCHANGED <<loadVars, menuVars>>

\* The configuration was read: it asks for the menu.
ConfigRead ==
  /\ boot.stage \in {"dhcp", "mac"} /\ fs.at = "closed" /\ tcp.at = "out"
  /\ FsIdle
  /\ boot' = [stage |-> "load", magic |-> {}, tries |-> 0, opened |-> <<>>]
  /\ disk' \in Disks
  /\ stack' = <<Call("menu")>>
  /\ UNCHANGED <<modules, loaded, menuVars>>

\* spawn_load runs main of the module that was loaded; no file is read any
\* more, and the accounts of the file system, which no code reads, are closed.
MenuLoaded ==
  /\ boot.stage = "load" /\ stack = <<>>
  /\ IF loaded.rc = 0
     THEN StartMenu /\ boot' = [boot EXCEPT !.stage = "menu"]
     ELSE boot' = [boot EXCEPT !.stage = "noMenu"] /\ UNCHANGED menuVars
  /\ faults' = 0 /\ trouble' = {} /\ bindings' = 0 /\ inodes' = 0 /\ lost' = 0
  /\ UNCHANGED <<cb_status, token, tcp, sock, peer, fs, reply, got, loadVars>>

MenuEnds ==
  /\ boot.stage = "menu" /\ run.at = "over"
  /\ boot' = [boot EXCEPT !.stage = "over"]
  /\ UNCHANGED <<tcpVars, fsVars, loadVars, menuVars>>

\* The boot loader has given up, or main of the menu has returned.
Over == boot.stage \in {"over", "kaboom", "noMenu"}

\* The menu waits for a key, for ever.
UserWaited ==
  /\ boot.stage = "menu" /\ totaltimeout = 0
  /\ \/ run.at \in {"passwd", "help"}
     \/ run.at = "key" /\ run.key_timeout = 0
     \/ run.at = "hidden" /\ conf.menus[cm].timeout = 0

\* Nothing is to be done any more, no key is left, or a callback is polled for
\* that no token will bring.
Stopped ==
  \/ Over
  \/ UserWaited /\ keys = 0
  \/ Polls /\ token.for = "none"

Terminated == Stopped /\ UNCHANGED vars

Loader ==
  \/ FileSystemInit \/ OpenFile \/ OpenFailed \/ ConfigRead \/ MenuLoaded \/ MenuEnds
  \/ FsStep /\ UNCHANGED <<loadVars, menuVars, boot>>
  \/ LoadStep /\ UNCHANGED <<menuVars, boot>>
  \/ MenuStep /\ UNCHANGED <<tcpVars, fsVars, loadVars, boot>>

Next ==
  \/ Loader
  \/ Answers /\ UNCHANGED <<loadVars, menuVars, boot>>
  \/ Terminated

\* The steps for which no key need be pressed.
Unaided == Loader /\ keys' = keys

\* One thread, which goes on as long as it can.  Nobody else need do anything:
\* the firmware may never be done with a token, because the server is silent or
\* for another reason, and the user may never press a key.
Spec == Init /\ [][Next]_vars /\ WF_vars(Unaided)

-----------------------------------------------------------------------------
(***************************************************************************)
(* Properties.                                                             *)
(***************************************************************************)

\* Files and their connections: every callback answers the call that waits for
\* it, what was opened is closed once on every path, and what was read is the
\* file.
FilesExact == FsTypeOK /\ CallbackMatched /\ Balanced /\ ReadExact

\* The longest beginning of a name that ends with a delimiter.
Directory(name) ==
  LET ends == {0} \cup {k \in 1 .. Len(name) : name[k] # "a"}
  IN SubSeq(name, 1, CHOOSE k \in ends : \A j \in ends : j <= k)

\* The configuration is looked for where it should be: under the directory of
\* the boot file or the prefix DHCP gives, which chdir makes absolute, so that
\* a second chdir, which pxe_open_config does, and realpath agree on it; first
\* under the name DHCP gives, if it gives one, and then under the MAC address, no
\* more than TRIES times, and all of these before it gives up.
ConfigExact ==
  /\ boot.stage = "init" =>
       \A option, boot_file \in Names, flags \in SUBSET {"on", "prefix"} :
         LET prefix == GetPrefix(DHCPMagic(flags), option, boot_file)
             cwd == PxeChdir(<<":", ":">>, prefix)
             dir == IF flags = {"on", "prefix"} THEN option ELSE Directory(boot_file)
         IN /\ cwd = IF UrlSuffix(dir) THEN <<":", ":">> \o dir ELSE dir
            /\ PxeChdir(cwd, prefix) = cwd
            /\ PxeRealpath(cwd, boot_file)
                 = IF UrlSuffix(boot_file) THEN cwd \o boot_file ELSE boot_file
  /\ LET dhcp == IF "config" \in boot.magic THEN <<"dhcp">> ELSE <<>>
         macs(n) == [k \in 1 .. n |-> "mac"]
     IN /\ boot.stage = "dhcp" => boot.opened \in {<<>>, dhcp}
        /\ boot.stage = "mac" => \E n \in 0 .. TRIES : boot.opened = dhcp \o macs(n)
        /\ boot.stage = "kaboom" => boot.opened = dhcp \o macs(TRIES)

\* A module is loaded with what it needs or not at all.
LoadInv == LoadTypeOK /\ LoadAtomic

\* The menu on the screen is the one the keys act on, and the total timeout
\* stays one.
MenuInv == MenuTypeOK /\ SelectedShown /\ TotalLimited

\* The connection ended before the file did: the file is read on for ever.
EndedShort == sock.goteof /\ reply.sent < reply.len

\* Whatever the firmware and the server refuse, redirect or fail to send, the boot
\* loader does not go round for ever: redirects, retries, names and timeouts run
\* out, so that in the end it has given up, the menu has run its command, or it
\* only waits for others: polling for an answer of the firmware, which has no
\* timeout (tcp.c), or for a key where the menu has none.  There is one exception
\* in the code, a file whose connection ended before it.
BootProceeds == <>[](Over \/ Polls \/ UserWaited \/ EndedShort)

=============================================================================

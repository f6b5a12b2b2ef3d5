------------------------------- MODULE Autoboot -------------------------------
(***************************************************************************)
(* Automatic booting (autoboot.c) and the main flow of iPXE (main.c): an   *)
(* embedded image, the shell, the scriptlet setting, or a boot from every  *)
(* network device in turn, each over DHCP and then from a file name, from  *)
(* a SAN device, or from both.                                             *)
(*                                                                         *)
(* What is run is the interpreter's business (Shell), and the interpreter  *)
(* runs pings and interface commands that wait for a job (PingJob).        *)
(***************************************************************************)
EXTENDS Shell

CONSTANT Setups         \* what the program may find, see below

ASSUME SetupsAssumption ==
  /\ {"ENOTSUP", "ENOENT", "ESAN", "EDESCRIBE", "EDOWNLOAD", "ESANBOOT"} \subseteq Statuses
  /\ \A e \in Setups : /\ {e.image, e.typed, e.scriptlet, e.file} \subseteq Scripts
                        /\ Len(e.scriptlet) <= 1 /\ e.auto \subseteq DevSet

VARIABLES
  env,                  \* embedded image, typed lines, scriptlet (one line, or
                        \* <<>> when there is none), and the settings of a boot:
                        \* file (the lines of the image, <<>> for none), root
                        \* (a usable root path), menu, keep, skip (booleans);
                        \* auto, the devices that match the autoboot device
                        \* (all of them when none is specified)
  boot,                 \* autoboot: where it is, device, devices left, status
  san                   \* the SAN device is hooked

bootVars == <<env, boot, san>>
vars == <<jobVars, pingVars, ifVars, shellVars, bootVars>>

Init ==
  /\ JobInit /\ PingInit /\ IfInit /\ ShellInit
  /\ env \in Setups
  /\ boot = [at |-> "start", runs |-> "none", d |-> "none", devs |-> <<>>, rc |-> "ENODEV"]
  /\ san = FALSE

BootAt(at) == boot.at = at /\ ~Running
Go(at) == boot' = [boot EXCEPT !.at = at]
RunLast(kind, lines) == Run(kind, lines) /\ boot' = [boot EXCEPT !.at = "last", !.runs = kind]
GoWith(at, rc) == boot' = [boot EXCEPT !.at = at, !.rc = rc]

-----------------------------------------------------------------------------
(***************************************************************************)
(* ipxe().                                                                 *)
(***************************************************************************)
Main ==
  /\ BootAt("start")
  /\ UNCHANGED <<env, san, stop_state, ret, ran, jobsAndDevs>>
  /\ IF env.image # <<>>
     THEN RunLast("script", env.image)
     ELSE \/ RunLast("shell", env.typed)        \* Ctrl-B at the banner
          \/ IF env.scriptlet # <<>>
             THEN RunLast("scriptlet", env.scriptlet)
             ELSE /\ boot' = [boot EXCEPT !.at = "next", !.devs = Devs]
                  /\ UNCHANGED stack

\* "No more network devices": the banner once more.
NoMoreDevices ==
  /\ BootAt("next") /\ boot.devs = <<>>
  /\ \/ RunLast("shell", env.typed)
     \/ Go("done") /\ UNCHANGED stack
  /\ UNCHANGED <<env, san, stop_state, ret, ran, jobsAndDevs>>

MainEnds ==
  /\ BootAt("last")
  /\ GoWith("done", ret)
  /\ UNCHANGED <<env, san, shellVars, jobsAndDevs>>

Terminated == BootAt("done") /\ UNCHANGED vars

-----------------------------------------------------------------------------
(***************************************************************************)
(* netboot().                                                              *)
(***************************************************************************)
CloseAll(d) == [e \in DevSet |-> [open |-> FALSE, link |-> FALSE, conf |-> "none"]]

\* "use only devices matching that location"
SkipDevice ==
  /\ BootAt("next") /\ boot.devs # <<>> /\ Head(boot.devs) \notin env.auto
  /\ boot' = [boot EXCEPT !.devs = Tail(@)]
  /\ UNCHANGED <<env, san, shellVars, jobsAndDevs>>

OpenNext ==
  /\ BootAt("next") /\ boot.devs # <<>> /\ Head(boot.devs) \in env.auto
  /\ LET d == Head(boot.devs)
         take(at, rc) == boot' = [boot EXCEPT !.at = at, !.d = d, !.devs = Tail(@), !.rc = rc]
     IN \/ take("next", "EOPEN") /\ dev' = CloseAll(d)
        \/ take("conf", OK) /\ dev' = [CloseAll(d) EXCEPT ![d].open = TRUE]
  /\ UNCHANGED <<env, san, shellVars, jobVars, pingVars, ct, ifc, cmd>>

ConfigureDevice ==
  /\ BootAt("conf") /\ IfIdle
  /\ Ifconf(boot.d)
  /\ UNCHANGED <<bootVars, shellVars, pingVars, cmd>>

\* The device is configured, or not: then the next one is tried.
DeviceConfigured ==
  /\ BootAt("conf") /\ ifc.pc = "done"
  /\ ifc' = NoIfc /\ phase' = "idle"
  /\ IF result = OK THEN Go("choose") ELSE GoWith("next", result)
  /\ UNCHANGED <<env, san, shellVars, monojob_rc, result, job, wait, jobEnd, pingVars, dev, ct, cmd>>

\* pxe_menu_boot is "not supported" without a PXE stack.
Choose ==
  /\ BootAt("choose")
  /\ CASE env.menu -> GoWith("next", "ENOTSUP")
       [] ~env.menu /\ env.file = <<>> /\ ~env.root -> GoWith("next", "ENOENT")
       [] OTHER -> Go(IF env.root THEN "hook" ELSE "load")
  /\ UNCHANGED <<env, san, shellVars, jobsAndDevs>>

-----------------------------------------------------------------------------
(***************************************************************************)
(* uriboot().  Without a root path all that concerns the SAN is left out.  *)
(***************************************************************************)
Hook ==
  /\ BootAt("hook")
  /\ \/ san' = TRUE /\ Go("describe")
     \/ GoWith("next", "ESAN") /\ UNCHANGED san
  /\ UNCHANGED <<env, shellVars, jobsAndDevs>>

\* Mutant of DescribeFails: the SAN device is not unhooked.
DescribeFailsOut == GoWith("next", "EDESCRIBE")

DescribeFails == GoWith("unhook", "EDESCRIBE")

Describe ==
  /\ BootAt("describe")
  /\ Go("load") \/ DescribeFails
  /\ UNCHANGED <<env, san, shellVars, jobsAndDevs>>

\* imgdownload may fail; what was downloaded is run.
Download ==
  /\ BootAt("load")
  /\ \/ /\ env.file = <<>>
        /\ GoWith("san", OK) /\ UNCHANGED stack
     \/ /\ env.file # <<>>
        /\ GoWith("unhook", "EDOWNLOAD") /\ UNCHANGED stack
     \/ /\ env.file # <<>>
        /\ Run("script", env.file) /\ Go("exec")
  /\ UNCHANGED <<env, san, stop_state, ret, ran, jobsAndDevs>>

ImageEnds ==
  /\ BootAt("exec")
  /\ GoWith("san", ret)
  /\ UNCHANGED <<env, san, shellVars, jobsAndDevs>>

SanBoot ==
  /\ BootAt("san")
  /\ IF env.root /\ ~env.skip
     THEN GoWith("unhook", OK) \/ GoWith("unhook", "ESANBOOT")
     ELSE Go("unhook")
  /\ UNCHANGED <<env, san, shellVars, jobsAndDevs>>

Unhook ==
  /\ BootAt("unhook")
  /\ san' = (san /\ (~env.root \/ env.keep))
  /\ Go("next")
  /\ UNCHANGED <<env, shellVars, jobsAndDevs>>

BootStep ==
  \/ Main \/ NoMoreDevices \/ MainEnds
  \/ SkipDevice \/ OpenNext \/ ConfigureDevice \/ DeviceConfigured \/ Choose
  \/ Hook \/ Describe \/ Download \/ ImageEnds \/ SanBoot \/ Unhook

Others == UNCHANGED <<shellVars, bootVars>>

Next ==
  \/ BootStep
  \/ ShellStep /\ UNCHANGED bootVars
  \/ IfStep /\ Others
  \/ Terminated

\* The clock ticks, the pinger's timer fires when it is due, and the name of
\* the host is resolved or not; nothing obliges the user, a link or a host.
Fairness ==
  /\ WF_vars(Tick /\ Others)
  /\ WF_vars(LoopEnds /\ UNCHANGED ifVars /\ Others)
  /\ WF_vars((PingerWindow \/ SocketCloses) /\ UNCHANGED ifVars /\ Others)
  /\ WF_vars(PingerExpired /\ UNCHANGED ifVars /\ Others)

Spec == Init /\ [][Next]_vars /\ Fairness

-----------------------------------------------------------------------------
(***************************************************************************)
(* Properties.                                                             *)
(***************************************************************************)
BootTypeOK ==
  /\ {env.image, env.typed, env.scriptlet, env.file} \subseteq Scripts
  /\ boot \in [at : {"start", "next", "conf", "choose", "hook", "describe", "load", "exec", "san",
                     "unhook", "last", "done"},
               runs : {"none", "script", "scriptlet", "shell"}, d : DevSet \cup {"none"},
               devs : Seq(DevSet), rc : Statuses]
  /\ boot.at = "conf" => boot.d \in DevSet
  /\ san \in BOOLEAN

TypeOK == PingTypeOK /\ IfTypeOK /\ ShellTypeOK /\ BootTypeOK

\* Who waits for the job: a ping command, or the ifconf of a command or of the
\* boot from a device, which are where the job ends.
Waiting ==
  /\ phase = "step" =>
       \/ cmd.name = "ping" /\ ifc.pc = "none" /\ job \in {"pinger", "none"}
       \/ ifc.pc = "link" /\ job = "link" /\ monojob_rc = EINPROGRESS
       \/ ifc.pc = "conf" /\ job = "ifconf" /\ monojob_rc = EINPROGRESS /\ wait.timeout = 0
  /\ phase = "step" /\ cmd.name = "ping" => cmd.devs # <<>>
  /\ ifc.pc # "none" =>
       \/ cmd.name = "ifconf" /\ cmd.devs # <<>> /\ ifc.d = Head(cmd.devs)
       \/ ~CmdRuns /\ boot.at = "conf" /\ ifc.d = boot.d
  /\ CmdRuns <=> At("run")
  /\ Running => boot.at \in {"last", "exec"}

\* A request to stop is pending only until the commands that it stops are over;
\* that of a scriptlet is left when all is.
StopPending ==
  /\ stop_state # 0 => IF Running THEN Top.at \in {"ran", "eol"} ELSE boot.at \in {"last", "done"}
  /\ \A i \in DOMAIN stack : i # 1 \/ boot.at = "exec" => stack[i].kind = "script"

\* A SAN device is hooked for a root path only, and between the boots only if
\* it is kept.
SanHooked ==
  /\ san => env.root
  /\ boot.at \in {"hook", "describe"} => env.root
  /\ san /\ boot.at \in {"start", "next", "conf", "choose", "hook", "last", "done"} => env.keep

\* What ipxe() runs itself, before any boot from a device: an embedded script, a
\* scriptlet, or what is typed in the shell.
Played == CASE boot.runs = "script" -> env.image
            [] boot.runs = "scriptlet" -> env.scriptlet
            [] boot.runs = "shell" -> env.typed

PlaysSimple == boot.d = "none" /\ boot.runs # "none" /\ IsSimple(Played)

\* It executes just the commands that the terminators, exit and failing lines
\* allow, in order, and ends with the status of the last one.
ShellExact ==
  boot.at = "done" /\ PlaysSimple =>
    LET m == Meant(boot.runs, Played)
    IN ran = m.ran /\ boot.rc = m.rc

\* Meanwhile it is what runs, and what its commands have come to so far and those
\* that are left make up what it means.
Plays(f) ==
  /\ f.kind = boot.runs /\ f.lines = Played /\ f.at # "run"
  /\ \A i \in DOMAIN f.line : /\ f.line[i].op \in {"simple", "exit"}
                              /\ f.line[i].next = "end" <=> i = Len(f.line)
  /\ stop_state \in {0, SHELL_STOP_COMMAND_SEQUENCE}
  /\ f.at = "eol" => f.line # <<>> /\ (stop_state = 0 => Len(f.line) = 1)
  /\ f.kind = "scriptlet" /\ f.at # "bol" => f.n > Len(f.lines)
  /\ MeantAfter(f.kind, SoFar(f), LeftOf(f)) = Meant(f.kind, f.lines)

ShellSoFar ==
  /\ boot.d = "none" => boot.at \in {"start", "next", "last", "done"}
  /\ boot.d = "none" /\ boot.at \in {"start", "next"} => boot.runs = "none" /\ ran = <<>>
  /\ boot.at = "last" => boot.runs # "none"
  /\ boot.at = "last" /\ PlaysSimple =>
       LET m == Meant(boot.runs, Played)
       IN IF Running THEN Len(stack) = 1 /\ Plays(Top) ELSE ran = m.ran /\ ret = m.rc

\* However a boot from a device ended, the SAN device it hooked is released
\* before the next device is tried, unless keep-san is set.
SanReleased == boot.at \in {"next", "last", "done"} /\ san => env.keep

\* While one device is being configured and booted from, every other device is
\* closed ("Close all other network devices"), whatever the script booted from
\* the device before has opened.
OneDeviceOpen ==
  boot.at \in {"conf", "choose", "hook", "describe", "load"} =>
    \A d \in DevSet : dev[d].open => d = boot.d

\* A line of commands does what its terminators say, and no request to stop
\* outlives the script or the line it was made for.
ShellInv == ShellExact /\ ShellSoFar /\ StopConsumed

\* The inductive invariant: who holds the job, the devices, the interpreter's
\* stop and the SAN device at every moment of a boot.
IInv ==
  /\ TypeOK /\ OnlyThePingers /\ PingSoFar /\ PingEnded /\ IfconfSoFar
  /\ Waiting /\ StopPending /\ SanHooked /\ OneDeviceOpen

\* No job runs on that nobody waits for.
JobInv == IInv /\ NoStrayJob

\* Whatever step of a boot fails: autoboot has at most the device open it is
\* trying, and no SAN device stays hooked that it was not told to keep.
NothingLeftOpen == SanReleased /\ OneDeviceOpen

=============================================================================

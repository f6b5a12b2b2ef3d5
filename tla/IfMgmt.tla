------------------------------- MODULE IfMgmt -------------------------------
(***************************************************************************)
(* Management of the network interfaces (ifmgmt.c) and its commands        *)
(* (ifmgmt_cmd.c): open, close, wait for the link, configure.  Both waits  *)
(* poll the device as the foreground job of PingJob.                       *)
(***************************************************************************)
EXTENDS PingJob

CONSTANTS
  Names,                \* what a command may be given as the name of a device
  Devs,                 \* the network devices, in the order they are listed
  Net0,                 \* those whose name contains "net0"
  LINKTIME,             \* ticks of a link-up timeout (15360)
  MAXCT                 \* bound of the model: what ct counts up to

ASSUME IfAssumption ==
  /\ Devs \in Seq(Names) /\ "host" \in Names /\ "none" \notin Names /\ Net0 \subseteq ToSet(Devs)
  /\ {"EOPEN", "ECONF", "ELINK", "EADDRNOTAVAIL", "ENODEV"} \subseteq Statuses
  /\ LINKTIME \in Nat \ {0} /\ MAXCT \in Nat \ {0}

VARIABLES
  dev,                  \* dev[d]: open, link (up or not), conf
  ct,                   \* iflinkwait: static int ct
  ifc,                  \* ifconf: where it is, and the device
  cmd                   \* an interface or ping command: its name, all its
                        \* devices, those still to try, its status so far

ifVars == <<dev, ct, ifc, cmd>>

DevSet == ToSet(Devs)
NoIfc == [pc |-> "none", d |-> "none"]
NoCmd == [name |-> "none", all |-> <<>>, devs |-> <<>>, rc |-> OK]

IfInit ==
  /\ dev = [d \in DevSet |-> [open |-> FALSE, link |-> FALSE, conf |-> "none"]]
  /\ ct = 0 /\ ifc = NoIfc /\ cmd = NoCmd

-----------------------------------------------------------------------------
(***************************************************************************)
(* The devices: opening may fail; the link goes up and down, and a         *)
(* configuration that was started ends, while monojob_wait polls for it.   *)
(***************************************************************************)
Opened(d) == [dev EXCEPT ![d].open = TRUE]

\* Mutant of Closed: nothing is closed.
LeftOpen(d) == dev

Closed(d) == [dev EXCEPT ![d] = [open |-> FALSE, link |-> FALSE, conf |-> "none"]]

LinkChanges ==
  /\ phase = "step" /\ job = "link"
  /\ dev' = [dev EXCEPT ![ifc.d].link = ~@]
  /\ UNCHANGED <<jobVars, pingVars, ct, ifc, cmd>>

ConfEnds(ok) ==
  /\ phase = "step" /\ ifc.pc = "conf" /\ dev[ifc.d].conf = "busy"
  /\ dev' = [dev EXCEPT ![ifc.d].conf = IF ok THEN "done" ELSE "failed"]
  /\ UNCHANGED <<jobVars, pingVars, ct, ifc, cmd>>

-----------------------------------------------------------------------------
(***************************************************************************)
(* ifconf: iflinkwait, then the configuration.  It begins when nothing     *)
(* waits, and leaves its status in result, with ifc.pc = "done".           *)
(***************************************************************************)
IfDone(d, rc) == ifc' = [pc |-> "done", d |-> d] /\ result' = rc

\* netdev_configure(_all): it may be refused at once.
Configure(d) ==
  \/ /\ IfDone(d, "ECONF")
     /\ UNCHANGED <<phase, monojob_rc, job, wait, jobEnd, dev>>
  \/ /\ dev' = [dev EXCEPT ![d].conf = "busy"]
     /\ ifc' = [pc |-> "conf", d |-> d]
     /\ BeginWait("ifconf", 0)

\* The device does not open; or, polled once, it has its link already; or its
\* link is waited for, the longer the more often net0 was.
Ifconf(d) ==
  LET count == IF d \in Net0 /\ ct < MAXCT THEN ct + 1 ELSE ct
  IN \/ /\ ~dev[d].open
        /\ IfDone(d, "EOPEN")
        /\ UNCHANGED <<phase, monojob_rc, job, wait, jobEnd, dev, ct>>
     \/ /\ \E up \in BOOLEAN : dev' = [Opened(d) EXCEPT ![d].link = up]
        /\ IF dev'[d].link
           THEN /\ ifc' = [pc |-> "ready", d |-> d]
                /\ UNCHANGED <<jobVars, ct>>
           ELSE /\ ct' = count
                /\ ifc' = [pc |-> "link", d |-> d]
                /\ BeginWait("link", count * LINKTIME)

LinkWaited ==
  \/ /\ ifc.pc = "ready" \/ (phase = "returned" /\ ifc.pc = "link" /\ result = OK)
     /\ Configure(ifc.d)
     /\ UNCHANGED <<pingVars, ct, cmd>>
  \/ /\ phase = "returned" /\ ifc.pc = "link" /\ result # OK
     /\ ifc' = [ifc EXCEPT !.pc = "done"]
     /\ UNCHANGED <<jobVars, pingVars, dev, ct, cmd>>

ConfWaited ==
  /\ phase = "returned" /\ ifc.pc = "conf"
  /\ ifc' = [ifc EXCEPT !.pc = "done"]
  /\ UNCHANGED <<jobVars, pingVars, dev, ct, cmd>>

\* iflinkwait_progress and ifconf_progress; a ping reports no progress.
Progress ==
  LET d == dev[ifc.d]
  IN CASE job = "link" -> [ends |-> d.link, rc |-> IF d.link THEN OK ELSE "ELINK"]
       [] job = "ifconf" -> [ends |-> d.conf # "busy",
                             rc |-> IF d.conf = "failed" THEN "EADDRNOTAVAIL" ELSE OK]
       [] OTHER -> [ends |-> FALSE, rc |-> OK]

Tick ==
  /\ phase = "step"
  /\ AfterTick(Progress)
  /\ UNCHANGED ifVars

-----------------------------------------------------------------------------
(***************************************************************************)
(* The commands.  ifcommon_exec tries the devices one after the other:     *)
(* ifconf stops at the first success and closes a device that failed, the  *)
(* others go on to the end.  The status is that of the last device tried.  *)
(***************************************************************************)
CmdRuns == cmd.name # "none"
IfIdle == ifc.pc = "none" /\ phase # "step"

\* With no arguments, all devices; "parse_netdev" of an unknown name fails.
StartIf(name, devs) == cmd' = [name |-> name, all |-> devs, devs |-> devs, rc |-> "ENODEV"]

IfNext ==
  /\ CmdRuns /\ cmd.devs # <<>> /\ IfIdle /\ cmd.name # "ping"
  /\ LET d == Head(cmd.devs)
         rest(rc) == cmd' = [cmd EXCEPT !.devs = Tail(@), !.rc = rc]
     IN CASE d \notin DevSet ->
               rest("ENODEV") /\ UNCHANGED <<jobVars, dev, ct, ifc>>
          [] d \in DevSet /\ cmd.name = "ifopen" ->
               /\ \/ rest(OK) /\ dev' = Opened(d)
                  \/ ~dev[d].open /\ rest("EOPEN") /\ UNCHANGED dev
               /\ UNCHANGED <<jobVars, ct, ifc>>
          [] d \in DevSet /\ cmd.name = "ifclose" ->
               rest(OK) /\ dev' = Closed(d) /\ UNCHANGED <<jobVars, ct, ifc>>
          [] d \in DevSet /\ cmd.name = "ifstat" ->
               rest(OK) /\ UNCHANGED <<jobVars, dev, ct, ifc>>
          [] d \in DevSet /\ cmd.name = "ifconf" -> Ifconf(d) /\ UNCHANGED cmd
  /\ UNCHANGED pingVars

IfconfEnds ==
  /\ CmdRuns /\ ifc.pc = "done"
  /\ cmd' = [cmd EXCEPT !.rc = result, !.devs = IF result = OK THEN <<>> ELSE Tail(@)]
  /\ dev' = IF result = OK THEN dev ELSE Closed(ifc.d)
  /\ ifc' = NoIfc /\ phase' = "idle"
  /\ UNCHANGED <<monojob_rc, result, job, wait, jobEnd, pingVars, ct>>

PingEnds ==
  /\ cmd.name = "ping" /\ phase = "returned" /\ cmd.devs # <<>>
  /\ cmd' = [cmd EXCEPT !.rc = result, !.devs = <<>>]
  /\ phase' = "idle"
  /\ UNCHANGED <<monojob_rc, result, job, wait, jobEnd, pingVars, dev, ct, ifc>>

\* Within monojob_wait.
JobStep ==
  \/ (LoopEnds \/ CtrlC \/ PingStep) /\ UNCHANGED ifVars
  \/ Tick \/ LinkChanges
  \/ \E ok \in BOOLEAN : ConfEnds(ok)

IfStep == JobStep \/ LinkWaited \/ ConfWaited \/ IfNext \/ IfconfEnds \/ PingEnds

-----------------------------------------------------------------------------
(***************************************************************************)
(* Properties.                                                             *)
(***************************************************************************)
IfTypeOK ==
  /\ dev \in [DevSet -> [open : BOOLEAN, link : BOOLEAN, conf : {"none", "busy", "done", "failed"}]]
  /\ ct \in 0 .. MAXCT
  /\ cmd \in [name : {"none", "ping", "ifopen", "ifclose", "ifstat", "ifconf"},
              all : Seq(Names), devs : Seq(Names), rc : Statuses]
  /\ result \in Statuses /\ monojob_rc \in Statuses
  /\ ifc \in [pc : {"none", "ready", "link", "conf", "done"}, d : DevSet \cup {"none"}]

\* The device that is being configured is open, and "done" when the wait for
\* its configuration has ended well; of the devices of an ifconf command, those
\* tried before it are closed.
IfconfSoFar ==
  /\ ifc.pc # "none" => ifc.d \in DevSet
  /\ ifc.pc \in {"ready", "link", "conf"} => dev[ifc.d].open
  /\ ifc.pc = "conf" => dev[ifc.d].conf # "none"
  /\ ifc.pc = "conf" /\ phase # "step" /\ result = OK => dev[ifc.d].conf = "done"
  /\ ifc.pc = "done" /\ result = OK => dev[ifc.d].open /\ dev[ifc.d].conf = "done"
  /\ cmd.name = "ifconf" =>
       /\ ToSet(cmd.devs) \subseteq ToSet(cmd.all)
       /\ cmd.rc = OK =>
            /\ cmd.devs = <<>>
            /\ \E d \in DevSet \cap ToSet(cmd.all) : dev[d].open /\ dev[d].conf = "done"
       /\ cmd.rc # OK =>
            \A d \in DevSet \cap ToSet(cmd.all) : d \in ToSet(cmd.devs) \/ ~dev[d].open

\* An ifconf command that says OK leaves a device open and configured; one
\* that does not leaves none of the devices that it tried open.
IfconfOutcome ==
  cmd.name = "ifconf" /\ cmd.devs = <<>> =>
    LET tried == {dev[d] : d \in DevSet \cap ToSet(cmd.all)}
    IN IF cmd.rc = OK THEN \E d \in tried : d.open /\ d.conf = "done"
                      ELSE \A d \in tried : ~d.open

\* monojob_wait returns the "job final status code": a job that has ended by
\* itself is not reported as timed out or canceled.
FinalStatus == phase = "returned" /\ jobEnd.of # "none" => result = jobEnd.rc

\* Every wait that has a limit ends: a link-up wait "with timeout" once net0
\* has been tried, and a ping that was given a count.
WaitsEnd ==
  ((job = "link" /\ wait.timeout # 0) \/ (job = "pinger" /\ pinger.count # 0)) ~> phase # "step"
=============================================================================

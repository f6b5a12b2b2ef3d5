------------------------------- MODULE PingJob -------------------------------
(***************************************************************************)
(* The ICMP ping sender (pinger.c), the wait for the single foreground job *)
(* (monojob.c) and the ping command that joins them (pingmgmt.c,           *)
(* ping_cmd.c).  A status is OK (0) or the name of the error.              *)
(*                                                                         *)
(* monojob_wait calls step(), which lets the pinger's timer expire and     *)
(* replies arrive, and looks at the keyboard, the job's progress and its   *)
(* own timeout once per tick of the clock.                                 *)
(***************************************************************************)
EXTENDS Integers, FiniteSets, Sequences, SequencesExt, TLC

CONSTANTS
  Statuses,             \* OK and the names of the errors
  PINGTIME,             \* ticks between two pings
  SEQ_MOD,              \* sequence numbers are computed modulo this (2^16)
  MAXNET, MAXCOPIES     \* bounds of the model: replies on their way at a time,
                        \* and times that a reply comes

OK == "ok"
EINPROGRESS == "EINPROGRESS"

ASSUME PingAssumption ==
  /\ {OK, EINPROGRESS, "ETIMEDOUT", "ECANCELED", "EPING", "ESOCKET", "EPROTO"} \subseteq Statuses
  /\ PINGTIME \in Nat \ {0} /\ SEQ_MOD \in Nat \ {0} /\ {MAXNET, MAXCOPIES} \subseteq Nat \ {0}

VARIABLES
  phase,                \* "idle", "step" (in monojob_wait) or "returned"
  monojob_rc,           \* status of the foreground job
  result,               \* what monojob_wait, or its caller, returns
  job,                  \* what monojob is plugged to, or "none"
  wait,                 \* monojob_wait: timeout (0 for none) and ticks elapsed
  jobEnd,               \* the job that has ended by itself, with its status
                        \* and, for a ping, its count (checking)
  pinger,               \* the pinger's fields; timer -1 when it is stopped
  net,                  \* replies on their way: [seq, kind, copies]
  lost, answered, late  \* of a ping with a count, how often a sequence number
                        \* was passed to the callback: by the timer, for a reply
                        \* that was waited for, for any other (checking)

jobVars == <<phase, monojob_rc, result, job, wait, jobEnd>>
account == <<lost, answered, late>>
pingVars == <<pinger, net, account>>

Seqs == 0 .. SEQ_MOD - 1
NoReports == [s \in Seqs |-> 0]

NotEnded == [of |-> "none", rc |-> EINPROGRESS, count |-> 0]
NoPinger == [timer |-> -1, sequence |-> 0, pending |-> FALSE, remaining |-> 0,
             rc |-> "none", window |-> FALSE, count |-> 0]

JobInit ==
  /\ phase = "idle" /\ monojob_rc = OK /\ result = OK /\ job = "none"
  /\ wait = [timeout |-> 0, elapsed |-> 0] /\ jobEnd = NotEnded

PingInit ==
  /\ pinger = NoPinger /\ net = {}
  /\ lost = NoReports /\ answered = NoReports /\ late = NoReports

-----------------------------------------------------------------------------
(***************************************************************************)
(* monojob_wait.                                                           *)
(***************************************************************************)
BeginWait(kind, timeout) ==
  /\ job' = kind
  /\ monojob_rc' = EINPROGRESS /\ jobEnd' = NotEnded
  /\ wait' = [timeout |-> timeout, elapsed |-> 0]
  /\ phase' = "step"
  /\ UNCHANGED result

\* Mutant of CloseJob: the job is only unplugged.
LeaveJob == job' = "none" /\ UNCHANGED <<pinger, net>>

\* monojob_close closes the job too, which stops the pinger.
CloseJob == job' = "none" /\ pinger' = NoPinger /\ net' = {}

Return(rc) ==
  /\ phase' = "returned" /\ result' = rc /\ monojob_rc' = rc
  /\ CloseJob
  /\ UNCHANGED <<wait, account>>

\* The job closes its end: monojob_close stores the status, and the pinger is
\* gone when it is the one.
JobCloses(rc) ==
  /\ monojob_rc' = rc /\ job' = "none"
  /\ jobEnd' = [of |-> job, rc |-> rc, count |-> pinger.count]

\* The loop ends when the job has ended and no tick has passed.
LoopEnds ==
  /\ phase = "step" /\ monojob_rc # EINPROGRESS
  /\ Return(monojob_rc)
  /\ UNCHANGED jobEnd

\* Mutant of OneTickLess: the timer is started again by every tick.
Restarted(timer) == timer

OneTickLess(timer) == IF timer > 0 THEN timer - 1 ELSE timer

\* A tick has passed; progress is job_progress: the status the job reports,
\* and whether it ends the job.
AfterTick(progress) ==
  LET ended == IF progress.ends THEN progress.rc ELSE monojob_rc
      timedOut == wait.timeout # 0 /\ wait.elapsed + 1 >= wait.timeout
  IN /\ jobEnd' = IF progress.ends THEN [of |-> job, rc |-> progress.rc, count |-> 0] ELSE jobEnd
     /\ CASE timedOut -> Return(IF progress.rc # OK THEN progress.rc ELSE "ETIMEDOUT")
          [] ~timedOut /\ ended # EINPROGRESS -> Return(ended)
          [] ~timedOut /\ ended = EINPROGRESS ->
               /\ wait' = [wait EXCEPT !.elapsed = IF wait.timeout = 0 THEN 0 ELSE @ + 1]
               /\ pinger' = [pinger EXCEPT !.timer = OneTickLess(@)]
               /\ UNCHANGED <<phase, monojob_rc, result, job, net, account>>

\* The user presses Ctrl-C.
CtrlC ==
  /\ phase = "step"
  /\ Return("ECANCELED")
  /\ UNCHANGED jobEnd

-----------------------------------------------------------------------------
(***************************************************************************)
(* The pinger.  A ping with count 0 goes on until the user stops it.       *)
(***************************************************************************)
Pinging == phase = "step" /\ job = "pinger"

Remaining(count) == IF count # 0 THEN count + 1 ELSE 0

CreatePinger(count) ==
  /\ pinger' = [NoPinger EXCEPT !.remaining = Remaining(count), !.rc = "ETIMEDOUT",
                                !.count = count]
  /\ net' = {}
  /\ lost' = NoReports /\ answered' = NoReports /\ late' = NoReports
  /\ BeginWait("pinger", 0)

\* There is no memory or no socket: ping returns at once.
PingFails ==
  /\ phase' = "returned" /\ result' = "EPING"
  /\ UNCHANGED <<monojob_rc, job, wait, jobEnd, pingVars>>

PingerCloses(rc) == JobCloses(rc) /\ pinger' = NoPinger /\ net' = {}

PingerWindow ==
  /\ Pinging /\ ~pinger.window
  /\ pinger' = [pinger EXCEPT !.window = TRUE, !.timer = IF @ = -1 THEN 0 ELSE @]
  /\ UNCHANGED <<jobVars, net, account>>

\* The name cannot be resolved: the socket closes the pinger.
SocketCloses ==
  /\ Pinging /\ ~pinger.window
  /\ PingerCloses("ESOCKET")
  /\ UNCHANGED <<phase, result, wait, account>>

\* The host answers a ping with some reply, or not, and the network may repeat
\* it; the ping may not leave at all.
Kinds == {"intact", "otherLength", "otherData"}
Answers(seq) ==
  {{}} \cup {{[seq |-> seq, kind |-> k, copies |-> n]} :
              k \in IF Cardinality(net) < MAXNET THEN Kinds ELSE {}, n \in 1 .. MAXCOPIES}

\* The callback is told of ping seq.
Tell(reports, seq) == IF pinger.count = 0 THEN reports ELSE [reports EXCEPT ![seq] = @ + 1]

PingerExpired ==
  /\ Pinging /\ pinger.timer = 0
  /\ lost' = IF pinger.pending THEN Tell(lost, pinger.sequence) ELSE lost
  /\ UNCHANGED <<phase, result, wait, answered, late>>
  /\ IF pinger.remaining = 1
     THEN PingerCloses(pinger.rc)
     ELSE LET seq == (pinger.sequence + 1) % SEQ_MOD
          IN /\ pinger' = [pinger EXCEPT !.remaining = IF @ = 0 THEN 0 ELSE @ - 1,
                                         !.sequence = seq, !.timer = PINGTIME, !.pending = TRUE]
             /\ \E r \in Answers(seq) : net' = net \cup r
             /\ UNCHANGED <<monojob_rc, jobEnd, job>>

\* pinger_verify, and the tests on the length and the sequence number.
Good(r) == r.kind = "intact" /\ r.seq = pinger.sequence

\* Mutant of StillPending: the flag is not cleared.
NeverCleared(r) == pinger.pending

StillPending(r) == pinger.pending /\ r.seq # pinger.sequence

\* A reply arrives, with its copies still to come.  Whatever it is, the callback
\* is told.
CopiesLeft(r) == IF r.copies > 1 THEN {[r EXCEPT !.copies = @ - 1]} ELSE {}

PingerDeliver(r) ==
  LET current == r.seq = pinger.sequence
      ends == IF r.kind = "intact" THEN current /\ pinger.remaining = 1 ELSE pinger.remaining # 0
      heard == [pinger EXCEPT !.pending = StillPending(r), !.rc = IF Good(r) THEN OK ELSE @]
  IN /\ Pinging /\ r \in net
     /\ IF current /\ pinger.pending
        THEN answered' = Tell(answered, r.seq) /\ UNCHANGED late
        ELSE late' = Tell(late, r.seq) /\ UNCHANGED answered
     /\ IF ends
        THEN PingerCloses(IF r.kind = "intact" THEN OK ELSE "EPROTO")
        ELSE /\ pinger' = heard
             /\ net' = (net \ {r}) \cup CopiesLeft(r)
             /\ UNCHANGED <<monojob_rc, jobEnd, job>>
     /\ UNCHANGED <<phase, result, wait, lost>>

PingStep ==
  \/ PingerWindow \/ SocketCloses \/ PingerExpired
  \/ \E r \in net : PingerDeliver(r)

-----------------------------------------------------------------------------
(***************************************************************************)
(* Properties.                                                             *)
(***************************************************************************)
Replies == [seq : Seqs, kind : Kinds, copies : 1 .. MAXCOPIES]
PingTypeOK ==
  /\ phase \in {"idle", "step", "returned"}
  /\ wait \in [timeout : Nat, elapsed : Nat]
  /\ phase = "step" /\ wait.timeout # 0 => wait.elapsed < wait.timeout
  /\ jobEnd \in [of : {"none", "pinger", "link", "ifconf"}, rc : Statuses, count : Nat]
  /\ pinger \in [timer : -1 .. PINGTIME, sequence : Seqs, pending : BOOLEAN, remaining : Nat,
                 rc : {"none", "ETIMEDOUT", OK}, window : BOOLEAN, count : Nat]
  /\ pinger.remaining <= pinger.count + 1
  /\ net \subseteq Replies /\ {lost, answered, late} \subseteq [Seqs -> Nat]

\* The pings of a count that the sequence numbers can count.
Counted(count) == count \in 1 .. SEQ_MOD - 1

NoneAnswered == \A s \in Seqs : answered[s] = 0

\* A ping that ran to its end, with no broken reply, says OK exactly when some
\* ping was answered, intact and before the next one was sent.
PingVerdict ==
  jobEnd.of = "pinger" /\ Counted(jobEnd.count) =>
    /\ jobEnd.rc = OK => ~NoneAnswered
    /\ jobEnd.rc = "ETIMEDOUT" => NoneAnswered

\* Of the pings in sent the callback has been told once that they are lost, or
\* once that they are answered, and then only of replies that came too late; of
\* the others it has been told nothing.
AccountFor(sent) ==
  \A s \in Seqs : IF s \in sent THEN lost[s] + answered[s] = 1
                  ELSE lost[s] = 0 /\ answered[s] = 0 /\ late[s] = 0

Sent == IF pinger.pending THEN 1 .. pinger.sequence - 1 ELSE 1 .. pinger.sequence

\* Every ping that was sent is reported, as answered or as lost and never as
\* both, before the next one is sent; and a ping that ran to its end has sent
\* and reported just as many as it was told to.
NoPingForgotten ==
  /\ Pinging /\ Counted(pinger.count) => AccountFor(Sent)
  /\ jobEnd.of = "pinger" /\ Counted(jobEnd.count) /\ jobEnd.rc \in {OK, "ETIMEDOUT"} =>
       AccountFor(1 .. jobEnd.count)

\* pinger.c:176, "If no response has been received, notify the callback
\* function": it is told of a ping once.  (A reply that comes later is reported
\* too, in the same words.)
ReportedOnce ==
  Pinging => \A s \in Seqs : lost[s] + answered[s] + late[s] <= 1

\* The pinger and the replies belong to a ping that is waited for.
OnlyThePingers ==
  /\ phase # "step" => job = "none"
  /\ job # "pinger" => pinger = NoPinger /\ net = {}

\* While the pinger runs: all the pings sent are reported but the one that is
\* pending, and the latest is not lost; replies are to pings that were sent, and
\* its status says whether one was answered.
PingSoFar ==
  Pinging =>
    /\ pinger.rc # "none" /\ jobEnd.of = "none"
    /\ pinger.count = 0 => pinger.remaining = 0
    /\ Counted(pinger.count) =>
         /\ pinger.remaining \in 1 .. pinger.count + 1
         /\ pinger.sequence + pinger.remaining = pinger.count + 1
         /\ pinger.pending => pinger.sequence # 0
         /\ AccountFor(Sent) /\ lost[pinger.sequence] = 0
         /\ \A r \in net : r.seq \in 1 .. pinger.sequence
         /\ pinger.rc = IF NoneAnswered THEN "ETIMEDOUT" ELSE OK

\* A pinger that has ended leaves the account of its pings.
PingEnded ==
  jobEnd.of = "pinger" =>
    /\ jobEnd.count = 0 => jobEnd.rc \notin {OK, "ETIMEDOUT"}
    /\ Counted(jobEnd.count) =>
         /\ jobEnd.rc = OK => ~NoneAnswered
         /\ jobEnd.rc = "ETIMEDOUT" => NoneAnswered
         /\ jobEnd.rc \in {OK, "ETIMEDOUT"} => AccountFor(1 .. jobEnd.count)

\* Nothing of a job outlives the wait for it: no timer that would fire, and no
\* reply that would be delivered, into the job that comes next.
NoStrayJob == phase # "step" => pinger = NoPinger /\ job = "none" /\ net = {}

\* What the user is told of the pings is what happened to them: every one is
\* settled once, by the timer or by its reply, and the verdict is theirs.
PingExact == PingVerdict /\ NoPingForgotten

=============================================================================

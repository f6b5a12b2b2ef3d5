--------------------------- MODULE AutobootProofs ---------------------------
(***************************************************************************)
(* Proofs about iPXE's jobs, interface commands, interpreter and boots     *)
(* (PingJob, IfMgmt, Shell, Autoboot), for all scripts and set-ups, any    *)
(* devices and any timing: the job, the devices and the SAN device are in  *)
(* the hands of whoever is answerable for them, what a ping or ifconf      *)
(* command says is so, and a script of simple commands does what it means. *)
(***************************************************************************)
EXTENDS Autoboot, SequenceTheorems, WellFoundedInduction, TLAPS

(***************************************************************************)
(* The foreground job and the pinger.                                      *)
(***************************************************************************)

\* What the invariant says of the job, the wait for it, and the pings.
JobPart == PingTypeOK /\ OnlyThePingers /\ PingSoFar /\ PingEnded

PingerType == [timer : -1 .. PINGTIME, sequence : Seqs, pending : BOOLEAN, remaining : Nat,
               rc : {"none", "ETIMEDOUT", OK}, window : BOOLEAN, count : Nat]

\* The numbers that the timers and sequences are computed with.
LEMMA PingNumbers ==
  /\ PINGTIME \in Nat \ {0} /\ SEQ_MOD \in Nat \ {0}
  /\ 0 \in Seqs /\ 0 \in -1 .. PINGTIME /\ -1 \in -1 .. PINGTIME /\ PINGTIME \in -1 .. PINGTIME
  /\ NoPinger \in PingerType
  BY PingAssumption DEF Seqs, NoPinger, PingerType

\* A command that waits no more, or never did, leaves the rest alone.
LEMMA JobRests ==
  ASSUME JobPart, phase # "step", phase' \in {"idle", "returned"},
         UNCHANGED <<job, wait, jobEnd, pingVars>>
  PROVE  JobPart'
  BY DEF JobPart, pingVars, PingTypeOK, OnlyThePingers, PingSoFar, PingEnded, Pinging,
      account, AccountFor, Sent, NoneAnswered

\* monojob_wait begins for a link or a configuration.
LEMMA JobBegins ==
  ASSUME JobPart, phase # "step", NEW kind \in {"link", "ifconf"}, NEW timeout \in Nat,
         BeginWait(kind, timeout), UNCHANGED pingVars
  PROVE  JobPart'
  <1>1. wait' \in [timeout : Nat, elapsed : Nat] /\ (wait'.timeout # 0 => wait'.elapsed < wait'.timeout)
    BY DEF BeginWait
  <1>2. jobEnd' \in [of : {"none", "pinger", "link", "ifconf"}, rc : Statuses, count : Nat]
        /\ jobEnd'.of = "none"
    BY PingAssumption DEF BeginWait, NotEnded
  <1> QED
    BY <1>1, <1>2 DEF JobPart, BeginWait, pingVars, PingTypeOK, OnlyThePingers, PingSoFar, PingEnded, Pinging,
      account, AccountFor, Sent, NoneAnswered

\* A ping begins.
LEMMA PingBegins ==
  ASSUME JobPart, NEW count \in Nat, CreatePinger(count)
  PROVE  JobPart'
  <1>1. wait' \in [timeout : Nat, elapsed : Nat] /\ wait'.timeout = 0
    BY DEF CreatePinger, BeginWait
  <1>2. jobEnd' \in [of : {"none", "pinger", "link", "ifconf"}, rc : Statuses, count : Nat]
        /\ jobEnd'.of = "none"
    BY PingAssumption DEF CreatePinger, BeginWait, NotEnded
  <1>3. /\ pinger' \in PingerType
        /\ pinger'.remaining = Remaining(count) /\ pinger'.rc = "ETIMEDOUT" /\ pinger'.count = count
        /\ pinger'.sequence = 0 /\ ~pinger'.pending
    <2>1. Remaining(count) \in Nat
      BY DEF Remaining
    <2>2. pinger' = [NoPinger EXCEPT !.remaining = Remaining(count), !.rc = "ETIMEDOUT", !.count = count]
      BY DEF CreatePinger
    <2> QED
      BY <2>1, <2>2, PingNumbers DEF NoPinger, PingerType
  <1>4. /\ lost' = NoReports /\ answered' = NoReports /\ late' = NoReports
        /\ NoReports \in [Seqs -> Nat] /\ \A s \in Seqs : NoReports[s] = 0
    BY DEF CreatePinger, NoReports
  <1>5. PingTypeOK'
    BY <1>1, <1>2, <1>3, <1>4, PingNumbers DEF PingTypeOK, PingerType, CreatePinger, BeginWait, Remaining, Replies
  <1>6. PingSoFar'
    <2>1. \A s : s \notin 1 .. 0
      OBVIOUS
    <2>2. AccountFor(Sent)' /\ NoneAnswered' /\ lost'[pinger'.sequence] = 0
      BY <1>3, <1>4, <2>1, PingNumbers DEF AccountFor, Sent, NoneAnswered
    <2> QED
      BY <1>2, <1>3, <2>2, PingNumbers DEF PingSoFar, CreatePinger, BeginWait, Remaining, Counted, Pinging
  <1> QED
    BY <1>2, <1>5, <1>6 DEF JobPart, CreatePinger, BeginWait, OnlyThePingers, PingEnded

\* monojob_wait returns: the job is closed.
LEMMA JobReturns ==
  ASSUME JobPart, NEW rc, Return(rc),
         UNCHANGED jobEnd \/ jobEnd' \in [of : {"link", "ifconf"}, rc : Statuses, count : Nat]
  PROVE  JobPart'
  <1>1. PingTypeOK'
    <2>1. jobEnd' \in [of : {"none", "pinger", "link", "ifconf"}, rc : Statuses, count : Nat]
      BY DEF JobPart, PingTypeOK
    <2> QED
      BY <2>1, PingNumbers DEF JobPart, Return, CloseJob, PingTypeOK, PingerType, NoPinger, account
  <1>2. PingEnded'
    BY DEF JobPart, Return, PingEnded,
      account, AccountFor, NoneAnswered
  <1> QED
    BY <1>1, <1>2 DEF JobPart, Return, CloseJob, OnlyThePingers, PingSoFar, Pinging

\* ... when the job has ended, or the user presses Ctrl-C, ...
LEMMA JobReturned ==
  ASSUME JobPart, LoopEnds \/ CtrlC
  PROVE  JobPart'
  BY JobReturns DEF LoopEnds, CtrlC

\* ... and while it does not, a tick passes.
LEMMA JobTicks ==
  ASSUME JobPart, job \in {"none", "pinger", "link", "ifconf"}, Tick
  PROVE  JobPart'
  <1> DEFINE progress == Progress
             timedOut == wait.timeout # 0 /\ wait.elapsed + 1 >= wait.timeout
             ended == IF progress.ends THEN progress.rc ELSE monojob_rc
  <1>1. progress.ends => job \in {"link", "ifconf"}
    BY DEF Progress
  <1>2. progress.ends => progress.rc \in Statuses
    BY PingAssumption, IfAssumption DEF Progress
  <1>3. phase = "step" /\ AfterTick(progress)
    BY DEF Tick
  <1>4. UNCHANGED jobEnd \/ jobEnd' \in [of : {"link", "ifconf"}, rc : Statuses, count : Nat]
    BY <1>1, <1>2, <1>3 DEF AfterTick
  <1>5. job = "pinger" => UNCHANGED jobEnd
    BY <1>1, <1>3 DEF AfterTick
  <1> HIDE DEF progress
  <1>6. CASE timedOut \/ ended # EINPROGRESS
    <2>1. \E rc : Return(rc)
      BY <1>3, <1>6 DEF AfterTick
    <2> QED
      BY <1>4, <2>1, JobReturns
  <1>7. CASE ~timedOut /\ ended = EINPROGRESS
    <2>1. /\ wait' = [wait EXCEPT !.elapsed = IF wait.timeout = 0 THEN 0 ELSE @ + 1]
          /\ pinger' = [pinger EXCEPT !.timer = OneTickLess(@)]
          /\ UNCHANGED <<phase, monojob_rc, result, job, net, account>>
      BY <1>3, <1>7 DEF AfterTick
    <2>2. /\ wait' \in [timeout : Nat, elapsed : Nat]
          /\ wait'.timeout # 0 => wait'.elapsed < wait'.timeout
      BY <1>7, <2>1 DEF JobPart, PingTypeOK
    <2>3. /\ pinger' \in PingerType
          /\ pinger'.sequence = pinger.sequence /\ pinger'.pending = pinger.pending
          /\ pinger'.remaining = pinger.remaining /\ pinger'.rc = pinger.rc
          /\ pinger'.count = pinger.count
      <3>1. pinger \in PingerType
        BY DEF JobPart, PingTypeOK, PingerType
      <3>2. OneTickLess(pinger.timer) \in -1 .. PINGTIME
        BY <3>1, PingNumbers DEF OneTickLess, PingerType
      <3> QED
        BY <2>1, <3>1, <3>2 DEF PingerType
    <2>4. jobEnd' \in [of : {"none", "pinger", "link", "ifconf"}, rc : Statuses, count : Nat]
      BY <1>4 DEF JobPart, PingTypeOK
    <2>5. PingTypeOK'
      BY <2>1, <2>2, <2>3, <2>4 DEF JobPart, PingTypeOK, PingerType, account
    <2>6. PingSoFar'
      BY <1>5, <2>1, <2>3 DEF JobPart, PingSoFar, Pinging,
      account, AccountFor, Sent, NoneAnswered
    <2>7. PingEnded'
      BY <1>4, <2>1 DEF JobPart, PingEnded,
      account, AccountFor, NoneAnswered
    <2>8. OnlyThePingers'
      <3>1. job # "pinger" => pinger' = NoPinger
        <4>1. SUFFICES ASSUME job # "pinger" PROVE pinger' = NoPinger
          OBVIOUS
        <4>2. NoPinger.timer = -1 /\ OneTickLess(-1) = -1
          BY DEF NoPinger, OneTickLess
        <4>3. pinger' = [NoPinger EXCEPT !.timer = -1]
          BY <2>1, <4>1, <4>2 DEF JobPart, OnlyThePingers
        <4>4. [NoPinger EXCEPT !.timer = -1] = NoPinger
          BY DEF NoPinger
        <4> QED
          BY <4>3, <4>4
      <3> QED
        BY <1>3, <2>1, <3>1 DEF JobPart, OnlyThePingers
    <2> QED
      BY <2>5, <2>6, <2>7, <2>8 DEF JobPart
  <1> QED
    BY <1>6, <1>7

\* The pinger's window opens.
LEMMA PingWindow ==
  ASSUME JobPart, PingerWindow
  PROVE  JobPart'
  <1>1. /\ pinger' \in PingerType
        /\ pinger'.sequence = pinger.sequence /\ pinger'.pending = pinger.pending
        /\ pinger'.remaining = pinger.remaining /\ pinger'.rc = pinger.rc
        /\ pinger'.count = pinger.count
    <2>1. pinger \in PingerType
      BY DEF JobPart, PingTypeOK, PingerType
    <2>2. (IF pinger.timer = -1 THEN 0 ELSE pinger.timer) \in -1 .. PINGTIME
      BY <2>1, PingNumbers DEF PingerType
    <2>3. pinger' = [pinger EXCEPT !.window = TRUE, !.timer = IF pinger.timer = -1 THEN 0 ELSE pinger.timer]
      BY DEF PingerWindow
    <2> QED
      BY <2>1, <2>2, <2>3 DEF PingerType
  <1>2. PingTypeOK'
    BY <1>1 DEF JobPart, PingTypeOK, PingerType, PingerWindow, jobVars, account
  <1>3. PingSoFar'
    BY <1>1 DEF JobPart, PingSoFar, Pinging, PingerWindow, jobVars,
      account, AccountFor, Sent, NoneAnswered
  <1> QED
    BY <1>2, <1>3 DEF JobPart, OnlyThePingers, PingEnded, PingerWindow, Pinging, jobVars,
      account, AccountFor, NoneAnswered

\* The pinger ends with a status that its account bears out.
LEMMA PingCloses ==
  ASSUME JobPart, Pinging, NEW rc \in Statuses, PingerCloses(rc), UNCHANGED <<phase, wait>>,
         {lost', answered', late'} \subseteq [Seqs -> Nat],
         pinger.count = 0 => rc \notin {OK, "ETIMEDOUT"},
         Counted(pinger.count) =>
           /\ rc = OK => \E s \in Seqs : answered'[s] # 0
           /\ rc = "ETIMEDOUT" => \A s \in Seqs : answered'[s] = 0
           /\ rc \in {OK, "ETIMEDOUT"} =>
                \A s \in Seqs : IF s \in 1 .. pinger.count
                                THEN lost'[s] + answered'[s] = 1
                                ELSE lost'[s] = 0 /\ answered'[s] = 0 /\ late'[s] = 0
  PROVE  JobPart'
  <1>1. jobEnd' = [of |-> "pinger", rc |-> rc, count |-> pinger.count]
    BY DEF PingerCloses, JobCloses, Pinging
  <1>2. pinger.count \in Nat
    BY DEF JobPart, PingTypeOK
  <1>3. PingTypeOK'
    BY <1>1, <1>2, PingNumbers DEF JobPart, PingTypeOK, PingerType, PingerCloses, NoPinger
  <1>4. PingEnded'
    BY <1>1 DEF PingEnded, NoneAnswered, AccountFor
  <1> QED
    BY <1>3, <1>4 DEF JobPart, OnlyThePingers, PingSoFar, Pinging, PingerCloses, JobCloses

\* The name of the host cannot be resolved.
LEMMA SocketClosed ==
  ASSUME JobPart, SocketCloses
  PROVE  JobPart'
  <1>1. "ESOCKET" \in Statuses /\ "ESOCKET" \notin {OK, "ETIMEDOUT"}
    BY PingAssumption DEF OK
  <1> QED
    BY <1>1, PingCloses DEF SocketCloses, JobPart, PingTypeOK, account

\* The type of the pinger, and the account while it runs.
LEMMA PingAccount ==
  ASSUME JobPart, Pinging
  PROVE  /\ pinger \in PingerType /\ pinger.rc \in {"ETIMEDOUT", OK} /\ pinger.rc \in Statuses
         /\ net \subseteq Replies /\ {lost, answered, late} \subseteq [Seqs -> Nat]
         /\ pinger.count = 0 => pinger.remaining = 0
         /\ Counted(pinger.count) => pinger.sequence = pinger.count + 1 - pinger.remaining
         /\ jobEnd.of = "none"
  <1>1. pinger \in PingerType /\ pinger.rc \in {"ETIMEDOUT", OK}
    BY DEF JobPart, PingTypeOK, PingSoFar, PingerType
  <1>2. pinger.rc \in Statuses
    BY <1>1, PingAssumption
  <1>3. Counted(pinger.count) => pinger.sequence = pinger.count + 1 - pinger.remaining
    <2>1. pinger.sequence \in Int /\ pinger.remaining \in Int /\ pinger.count \in Int
      BY <1>1, PingNumbers DEF PingerType, Seqs
    <2> QED
      BY <2>1 DEF JobPart, PingSoFar
  <1> QED
    BY <1>1, <1>2, <1>3 DEF JobPart, PingTypeOK, PingSoFar

\* ... and what it says of a ping with a count.
LEMMA PingCounts ==
  ASSUME JobPart, Pinging, Counted(pinger.count)
  PROVE  /\ pinger.count \in Nat \ {0} /\ pinger.sequence = pinger.count + 1 - pinger.remaining
         /\ pinger.remaining \in 1 .. pinger.count + 1 /\ pinger.sequence \in Seqs
         /\ pinger.sequence + pinger.remaining = pinger.count + 1
         /\ pinger.pending => pinger.sequence # 0
         /\ \A s \in Seqs :
              IF s \in 1 .. pinger.sequence /\ ~(pinger.pending /\ s = pinger.sequence)
              THEN lost[s] + answered[s] = 1
              ELSE lost[s] = 0 /\ answered[s] = 0 /\ late[s] = 0
         /\ lost[pinger.sequence] = 0
         /\ \A a \in net : a.seq \in 1 .. pinger.sequence
         /\ pinger.rc = OK => \E s \in Seqs : answered[s] # 0
         /\ pinger.rc = "ETIMEDOUT" => \A s \in Seqs : answered[s] = 0
  <1>1. pinger.count \in Nat \ {0}
    BY PingNumbers DEF Counted
  <1>2. pinger.sequence \in Seqs /\ pinger.sequence \in Nat
    BY PingAccount, PingNumbers DEF PingerType, Seqs
  <1>3. AccountFor(Sent) /\ pinger.rc = IF NoneAnswered THEN "ETIMEDOUT" ELSE OK
    BY DEF JobPart, PingSoFar
  <1>4. ASSUME NEW s \in Seqs
        PROVE  s \in Sent <=> s \in 1 .. pinger.sequence /\ ~(pinger.pending /\ s = pinger.sequence)
    BY <1>2, PingNumbers DEF Sent, Seqs
  <1>5. \A s \in Seqs : IF s \in Sent THEN lost[s] + answered[s] = 1
                        ELSE lost[s] = 0 /\ answered[s] = 0 /\ late[s] = 0
    BY <1>3 DEF AccountFor
  <1>6. /\ pinger.rc = OK => \E s \in Seqs : answered[s] # 0
        /\ pinger.rc = "ETIMEDOUT" => \A s \in Seqs : answered[s] = 0
    BY <1>3 DEF NoneAnswered, OK
  <1> QED
    BY <1>1, <1>2, <1>4, <1>5, <1>6, PingAccount DEF JobPart, PingSoFar

\* The invariant of a ping that runs on, from an account of the pings so far.
LEMMA PingGoesOn ==
  ASSUME JobPart, Pinging, UNCHANGED <<phase, job, jobEnd>>, pinger' \in PingerType,
         pinger'.count = pinger.count, pinger'.rc # "none",
         pinger.count = 0 => pinger'.remaining = 0,
         Counted(pinger.count) =>
           /\ pinger'.remaining \in 1 .. pinger.count + 1
           /\ pinger'.sequence + pinger'.remaining = pinger.count + 1
           /\ pinger'.pending => pinger'.sequence # 0
           /\ \A s \in Seqs :
                IF s \in 1 .. pinger'.sequence /\ ~(pinger'.pending /\ s = pinger'.sequence)
                THEN lost'[s] + answered'[s] = 1
                ELSE lost'[s] = 0 /\ answered'[s] = 0 /\ late'[s] = 0
           /\ lost'[pinger'.sequence] = 0
           /\ \A a \in net' : a.seq \in 1 .. pinger'.sequence
           /\ pinger'.rc = IF \A s \in Seqs : answered'[s] = 0 THEN "ETIMEDOUT" ELSE OK
  PROVE  PingSoFar' /\ PingEnded' /\ OnlyThePingers'
  <1>1. pinger'.sequence \in Nat
    BY PingNumbers DEF PingerType, Seqs
  <1>2. ASSUME NEW s \in Seqs
        PROVE  s \in Sent' <=> s \in 1 .. pinger'.sequence /\ ~(pinger'.pending /\ s = pinger'.sequence)
    BY <1>1, PingNumbers DEF Sent, Seqs
  <1>3. Counted(pinger.count) => AccountFor(Sent)'
    BY <1>2 DEF AccountFor
  <1>4. NoneAnswered' <=> \A s \in Seqs : answered'[s] = 0
    BY DEF NoneAnswered
  <1>5. PingSoFar'
    BY <1>3, <1>4, PingAccount DEF PingSoFar
  <1> QED
    BY <1>5, PingAccount DEF JobPart, PingEnded, OnlyThePingers, Pinging

\* What is told to the callback of a ping with a count is counted.
LEMMA TellCounts ==
  ASSUME NEW reports \in [Seqs -> Nat], NEW seq \in Seqs
  PROVE  /\ Tell(reports, seq) \in [Seqs -> Nat]
         /\ pinger.count # 0 =>
              \A s \in Seqs : Tell(reports, seq)[s] = IF s = seq THEN reports[s] + 1 ELSE reports[s]
  BY DEF Tell

\* The pinger's timer fires: the last ping is reported, or the next one sent.
LEMMA PingExpires ==
  ASSUME JobPart, PingerExpired
  PROVE  JobPart'
  <1>1. Pinging /\ pinger \in PingerType /\ {lost, answered, late} \subseteq [Seqs -> Nat]
    BY PingAccount DEF PingerExpired
  <1>2. /\ UNCHANGED <<phase, wait, answered, late>>
        /\ lost' = IF pinger.pending THEN Tell(lost, pinger.sequence) ELSE lost
    BY DEF PingerExpired
  <1>3. pinger.sequence \in Seqs /\ pinger.count \in Nat /\ pinger.remaining \in Nat
    BY <1>1 DEF PingerType
  <1>4. {lost', answered', late'} \subseteq [Seqs -> Nat]
    BY <1>1, <1>2, <1>3, TellCounts
  <1>5. Counted(pinger.count) =>
          \A s \in Seqs : IF s \in 1 .. pinger.sequence THEN lost'[s] + answered'[s] = 1
                          ELSE lost'[s] = 0 /\ answered'[s] = 0 /\ late'[s] = 0
    <2>1. SUFFICES ASSUME Counted(pinger.count), NEW s \in Seqs
                   PROVE  IF s \in 1 .. pinger.sequence THEN lost'[s] + answered'[s] = 1
                          ELSE lost'[s] = 0 /\ answered'[s] = 0 /\ late'[s] = 0
      OBVIOUS
    <2>2. /\ pinger.count # 0 /\ (pinger.pending => pinger.sequence \in 1 .. pinger.sequence)
          /\ IF s \in 1 .. pinger.sequence /\ ~(pinger.pending /\ s = pinger.sequence)
             THEN lost[s] + answered[s] = 1
             ELSE lost[s] = 0 /\ answered[s] = 0 /\ late[s] = 0
      <3>1. /\ pinger.count # 0 /\ pinger.sequence \in Nat /\ (pinger.pending => pinger.sequence # 0)
            /\ IF s \in 1 .. pinger.sequence /\ ~(pinger.pending /\ s = pinger.sequence)
               THEN lost[s] + answered[s] = 1
               ELSE lost[s] = 0 /\ answered[s] = 0 /\ late[s] = 0
        BY <1>1, <1>3, <2>1, PingCounts DEF Seqs
      <3> QED
        BY <3>1
    <2>3. lost'[s] = IF pinger.pending /\ s = pinger.sequence THEN lost[s] + 1 ELSE lost[s]
      BY <1>1, <1>2, <1>3, <2>2, TellCounts
    <2> QED
      BY <1>2, <2>2, <2>3
  <1>6. CASE pinger.remaining = 1
    <2>1. pinger.count # 0
      BY <1>1, <1>6, PingAccount
    <2>2. Counted(pinger.count) => pinger.sequence = pinger.count
      BY <1>1, <1>3, <1>6, PingCounts, PingNumbers DEF Seqs
    <2>3. PingerCloses(pinger.rc) /\ pinger.rc \in Statuses
      BY <1>1, <1>6, PingAccount DEF PingerExpired
    <2>4. Counted(pinger.count) =>
            /\ pinger.rc = OK => \E s \in Seqs : answered'[s] # 0
            /\ pinger.rc = "ETIMEDOUT" => \A s \in Seqs : answered'[s] = 0
      BY <1>1, <1>2, PingCounts
    <2> QED
      BY <1>1, <1>2, <1>4, <1>5, <2>1, <2>2, <2>3, <2>4, PingCloses
  <1>7. CASE pinger.remaining # 1
    <2> DEFINE seq == (pinger.sequence + 1) % SEQ_MOD
               left == IF pinger.remaining = 0 THEN 0 ELSE pinger.remaining - 1
    <2>1. /\ pinger' = [pinger EXCEPT !.remaining = left, !.sequence = seq, !.timer = PINGTIME,
                                      !.pending = TRUE]
          /\ UNCHANGED <<jobEnd, job>>
          /\ \E r \in Answers(seq) : net' = net \cup r
      BY <1>7 DEF PingerExpired
    <2>2. seq \in Seqs /\ left \in Nat /\ left <= pinger.remaining
      BY <1>3, PingNumbers DEF Seqs
    <2>3. \A a \in net' : a \in net \/ (a.seq = seq /\ a \in Replies)
      BY <2>1, <2>2 DEF Answers, Replies
    <2>4. /\ pinger' \in PingerType
          /\ pinger'.sequence = seq /\ pinger'.remaining = left /\ pinger'.count = pinger.count
          /\ pinger'.rc = pinger.rc /\ pinger'.pending
      <3> HIDE DEF seq, left
      <3> QED
        BY <1>1, <2>1, <2>2, PingNumbers DEF PingerType
    <2>5. PingTypeOK'
      <3> HIDE DEF seq, left
      <3>1. net' \subseteq Replies
        BY <2>3 DEF JobPart, PingTypeOK
      <3>2. pinger'.remaining <= pinger'.count + 1
        BY <1>3, <2>2, <2>4 DEF JobPart, PingTypeOK
      <3> QED
        BY <1>2, <1>4, <2>1, <2>4, <3>1, <3>2 DEF JobPart, PingTypeOK, PingerType
    <2>6. Counted(pinger.count) =>
            /\ left \in 1 .. pinger.count + 1 /\ seq = pinger.sequence + 1 /\ pinger.sequence \in Nat
            /\ seq + left = pinger.count + 1
      <3>1. SUFFICES ASSUME Counted(pinger.count)
                     PROVE  /\ left \in 1 .. pinger.count + 1 /\ seq = pinger.sequence + 1 /\ pinger.sequence \in Nat
                            /\ seq + left = pinger.count + 1
        OBVIOUS
      <3>2. pinger.remaining \in 2 .. pinger.count + 1 /\ pinger.count \in 1 .. SEQ_MOD - 1
        BY <1>1, <1>3, <1>7, <3>1, PingCounts, PingNumbers DEF Counted
      <3>3. pinger.sequence = pinger.count + 1 - pinger.remaining /\ pinger.sequence \in Nat
        BY <1>1, <1>3, <3>1, PingCounts, PingNumbers DEF Seqs
      <3>4. seq = pinger.sequence + 1
        BY <3>2, <3>3, PingNumbers
      <3> QED
        BY <3>2, <3>3, <3>4
    <2>7. PingSoFar' /\ PingEnded' /\ OnlyThePingers'
      <3> HIDE DEF seq, left
      <3>1. pinger.count = 0 => left = 0
        BY <1>1, PingAccount DEF left
      <3>2. pinger'.rc # "none"
        BY <1>1, <2>4, PingAccount DEF OK
      <3>3. Counted(pinger.count) =>
              /\ \A s \in Seqs : IF s \in 1 .. seq /\ s # seq
                                 THEN lost'[s] + answered'[s] = 1
                                 ELSE lost'[s] = 0 /\ answered'[s] = 0 /\ late'[s] = 0
              /\ lost'[seq] = 0 /\ \A a \in net' : a.seq \in 1 .. seq
              /\ pinger.rc = IF \A s \in Seqs : answered'[s] = 0 THEN "ETIMEDOUT" ELSE OK
        <4>1. SUFFICES ASSUME Counted(pinger.count)
                       PROVE  /\ \A s \in Seqs : IF s \in 1 .. seq /\ s # seq
                                                 THEN lost'[s] + answered'[s] = 1
                                                 ELSE lost'[s] = 0 /\ answered'[s] = 0 /\ late'[s] = 0
                              /\ lost'[seq] = 0 /\ \A a \in net' : a.seq \in 1 .. seq
                              /\ pinger.rc = IF \A s \in Seqs : answered'[s] = 0 THEN "ETIMEDOUT" ELSE OK
          OBVIOUS
        <4>2. seq = pinger.sequence + 1 /\ pinger.sequence \in Nat /\ seq \in Seqs
          BY <2>2, <2>6, <4>1
        <4>3. \A s \in Seqs : s \in 1 .. seq /\ s # seq <=> s \in 1 .. pinger.sequence
          BY <4>2, PingNumbers DEF Seqs
        <4>4. \A a \in net' : a.seq \in 1 .. seq
          BY <1>1, <2>3, <4>1, <4>2, PingCounts
        <4>5. pinger.rc = IF \A s \in Seqs : answered'[s] = 0 THEN "ETIMEDOUT" ELSE OK
          BY <1>1, <1>2, <4>1, PingAccount, PingCounts
        <4>6. \A s \in Seqs : IF s \in 1 .. seq /\ s # seq
                              THEN lost'[s] + answered'[s] = 1
                              ELSE lost'[s] = 0 /\ answered'[s] = 0 /\ late'[s] = 0
          BY <1>5, <4>1, <4>3
        <4>7. lost'[seq] = 0
          BY <4>2, <4>6
        <4> QED
          BY <4>4, <4>5, <4>6, <4>7
      <3> QED
        BY <1>1, <1>2, <2>1, <2>4, <2>6, <3>1, <3>2, <3>3, PingGoesOn
    <2> QED
      BY <2>5, <2>7 DEF JobPart
  <1> QED
    BY <1>6, <1>7

\* A reply arrives: the ping it answers is reported, and the pinger may end.
LEMMA PingReplied ==
  ASSUME JobPart, NEW r \in net, PingerDeliver(r)
  PROVE  JobPart'
  <1> DEFINE current == r.seq = pinger.sequence
             ends == IF r.kind = "intact" THEN current /\ pinger.remaining = 1 ELSE pinger.remaining # 0
             heard == [pinger EXCEPT !.pending = StillPending(r), !.rc = IF Good(r) THEN OK ELSE pinger.rc]
  <1>1. Pinging /\ pinger \in PingerType /\ {lost, answered, late} \subseteq [Seqs -> Nat] /\ r \in Replies
    BY PingAccount DEF PingerDeliver
  <1>2. /\ UNCHANGED <<phase, wait, lost>>
        /\ IF current /\ pinger.pending
           THEN answered' = Tell(answered, r.seq) /\ UNCHANGED late
           ELSE late' = Tell(late, r.seq) /\ UNCHANGED answered
    BY DEF PingerDeliver
  <1>3. /\ ends => PingerCloses(IF r.kind = "intact" THEN OK ELSE "EPROTO")
        /\ ~ends => pinger' = heard /\ net' = (net \ {r}) \cup CopiesLeft(r) /\ UNCHANGED <<jobEnd, job>>
    BY DEF PingerDeliver
  <1>4. r.seq \in Seqs
    BY <1>1 DEF Replies
  <1>5. {lost', answered', late'} \subseteq [Seqs -> Nat]
    BY <1>1, <1>2, <1>4, TellCounts
  <1>6. \A a \in net' : ~ends => a \in Replies /\ \E b \in net : a.seq = b.seq
    <2>1. \A a \in CopiesLeft(r) : a \in Replies /\ a.seq = r.seq
      BY <1>1, PingAssumption DEF CopiesLeft, Replies
    <2> QED
      BY <1>1, <1>3, <2>1, PingAccount
  <1>7. Counted(pinger.count) =>
          /\ \A s \in Seqs :
               IF s \in 1 .. pinger.sequence /\ ~(pinger.pending /\ ~current /\ s = pinger.sequence)
               THEN lost'[s] + answered'[s] = 1
               ELSE lost'[s] = 0 /\ answered'[s] = 0 /\ late'[s] = 0
          /\ current => \E s \in Seqs : answered'[s] # 0
          /\ ~current => answered' = answered
    <2>1. SUFFICES ASSUME Counted(pinger.count)
                   PROVE  /\ \A s \in Seqs :
                               IF s \in 1 .. pinger.sequence /\ ~(pinger.pending /\ ~current /\ s = pinger.sequence)
                               THEN lost'[s] + answered'[s] = 1
                               ELSE lost'[s] = 0 /\ answered'[s] = 0 /\ late'[s] = 0
                          /\ current => \E s \in Seqs : answered'[s] # 0
                          /\ ~current => answered' = answered
      OBVIOUS
    <2>2. pinger.count # 0 /\ r.seq \in 1 .. pinger.sequence /\ pinger.sequence \in Nat
      BY <1>1, <1>4, <2>1, PingCounts, PingNumbers DEF Seqs
    <2>3. \A s \in Seqs :
            /\ answered'[s] = IF current /\ pinger.pending /\ s = r.seq THEN answered[s] + 1 ELSE answered[s]
            /\ late'[s] = IF ~(current /\ pinger.pending) /\ s = r.seq THEN late[s] + 1 ELSE late[s]
            /\ lost'[s] = lost[s] /\ lost[s] \in Nat /\ answered[s] \in Nat /\ late[s] \in Nat
      <3>1. CASE current /\ pinger.pending
        BY <1>1, <1>2, <1>4, <2>2, <3>1, TellCounts
      <3>2. CASE ~(current /\ pinger.pending)
        BY <1>1, <1>2, <1>4, <2>2, <3>2, TellCounts
      <3> QED
        BY <3>1, <3>2
    <2>4. \A s \in Seqs :
            IF s \in 1 .. pinger.sequence /\ ~(pinger.pending /\ s = pinger.sequence)
            THEN lost[s] + answered[s] = 1
            ELSE lost[s] = 0 /\ answered[s] = 0 /\ late[s] = 0
      BY <1>1, <2>1, PingCounts
    <2>5. \A s \in Seqs :
            IF s \in 1 .. pinger.sequence /\ ~(pinger.pending /\ ~current /\ s = pinger.sequence)
            THEN lost'[s] + answered'[s] = 1
            ELSE lost'[s] = 0 /\ answered'[s] = 0 /\ late'[s] = 0
      BY <1>4, <2>2, <2>3, <2>4
    <2>6. lost[pinger.sequence] = 0
      BY <1>1, <2>1, PingCounts
    <2>7. current => answered'[r.seq] # 0
      BY <1>4, <2>2, <2>3, <2>5, <2>6
    <2>8. ~current => answered' = answered
      BY <1>2
    <2> QED
      BY <1>4, <2>5, <2>7, <2>8
  <1> HIDE DEF heard
  <1>8. CASE ends
    <2> DEFINE rc == IF r.kind = "intact" THEN OK ELSE "EPROTO"
    <2>1. rc \in Statuses /\ PingerCloses(rc)
      BY <1>3, <1>8, PingAssumption
    <2>2. pinger.count = 0 => rc \notin {OK, "ETIMEDOUT"}
      BY <1>1, <1>8, PingAccount DEF OK
    <2>3. Counted(pinger.count) =>
            /\ rc = OK => \E s \in Seqs : answered'[s] # 0
            /\ rc = "ETIMEDOUT" => \A s \in Seqs : answered'[s] = 0
            /\ rc \in {OK, "ETIMEDOUT"} =>
                 \A s \in Seqs : IF s \in 1 .. pinger.count
                                 THEN lost'[s] + answered'[s] = 1
                                 ELSE lost'[s] = 0 /\ answered'[s] = 0 /\ late'[s] = 0
      <3>1. rc # "ETIMEDOUT"
        BY DEF OK
      <3>2. SUFFICES ASSUME Counted(pinger.count), rc = OK
                     PROVE  /\ \E s \in Seqs : answered'[s] # 0
                            /\ \A s \in Seqs : IF s \in 1 .. pinger.count
                                               THEN lost'[s] + answered'[s] = 1
                                               ELSE lost'[s] = 0 /\ answered'[s] = 0 /\ late'[s] = 0
        BY <3>1
      <3>3. current /\ pinger.remaining = 1
        BY <1>8, <3>2 DEF OK
      <3>4. pinger.sequence = pinger.count
        BY <1>1, <3>2, <3>3, PingCounts, PingNumbers DEF Seqs
      <3> QED
        BY <1>7, <3>2, <3>3, <3>4
    <2> HIDE DEF rc
    <2> QED
      BY <1>1, <1>2, <1>5, <2>1, <2>2, <2>3, PingCloses
  <1>9. CASE ~ends
    <2>1. /\ pinger' \in PingerType
          /\ pinger'.sequence = pinger.sequence /\ pinger'.remaining = pinger.remaining
          /\ pinger'.count = pinger.count /\ pinger'.pending = StillPending(r)
          /\ pinger'.rc = IF Good(r) THEN OK ELSE pinger.rc
      <3>1. pinger' = heard /\ StillPending(r) \in BOOLEAN
        BY <1>1, <1>3, <1>9 DEF StillPending, PingerType
      <3> HIDE DEF current, ends
      <3> QED
        BY <1>1, <3>1 DEF PingerType, heard
    <2>2. PingTypeOK'
      BY <1>1, <1>2, <1>3, <1>5, <1>6, <1>9, <2>1 DEF JobPart, PingTypeOK, PingerType
    <2>3. pinger'.rc # "none"
      BY <1>1, <2>1, PingAccount DEF OK
    <2>4. pinger'.pending <=> pinger.pending /\ ~current
      BY <2>1 DEF StillPending
    <2>5. Counted(pinger.count) =>
            pinger'.rc = IF \A s \in Seqs : answered'[s] = 0 THEN "ETIMEDOUT" ELSE OK
      <3>1. SUFFICES ASSUME Counted(pinger.count)
                     PROVE  pinger'.rc = IF \A s \in Seqs : answered'[s] = 0 THEN "ETIMEDOUT" ELSE OK
        OBVIOUS
      <3>2. pinger.remaining # 0
        BY <1>1, <3>1, PingCounts
      <3>3. Good(r) <=> current
        BY <1>9, <3>2 DEF Good
      <3>4. CASE current
        BY <1>7, <2>1, <3>1, <3>3, <3>4
      <3>5. CASE ~current
        BY <1>1, <1>7, <2>1, <3>1, <3>3, <3>5, PingAccount, PingCounts
      <3> QED
        BY <3>4, <3>5
    <2>6. Counted(pinger.count) =>
            /\ pinger'.remaining \in 1 .. pinger.count + 1
            /\ pinger'.sequence + pinger'.remaining = pinger.count + 1
            /\ pinger'.pending => pinger'.sequence # 0
            /\ lost'[pinger'.sequence] = 0
            /\ \A a \in net' : a.seq \in 1 .. pinger'.sequence
      BY <1>1, <1>2, <1>6, <1>9, <2>1, <2>4, PingCounts
    <2>7. PingSoFar' /\ PingEnded' /\ OnlyThePingers'
      BY <1>1, <1>2, <1>3, <1>7, <1>9, <2>1, <2>3, <2>4, <2>5, <2>6, PingAccount, PingGoesOn
    <2> QED
      BY <2>2, <2>7 DEF JobPart
  <1> QED
    BY <1>8, <1>9

\* Whatever the pinger does, the account of its pings is kept.
LEMMA PingSteps ==
  ASSUME JobPart, PingStep
  PROVE  JobPart'
  BY PingWindow, SocketClosed, PingExpires, PingReplied DEF PingStep

-----------------------------------------------------------------------------
(***************************************************************************)
(* The devices, and the interface commands that wait for them.             *)
(***************************************************************************)
Confs == {"none", "busy", "done", "failed"}
DeviceState == [open : BOOLEAN, link : BOOLEAN, conf : Confs]
DevType == [DevSet -> DeviceState]

\* What the invariant says of a device that is configured, and who waits.
IfPart == IfTypeOK /\ IfconfSoFar /\ Waiting

\* Closing a device changes no other.
LEMMA CloseSet ==
  ASSUME dev \in DevType, NEW d \in DevSet
  PROVE  /\ Closed(d) \in DevType
         /\ ~Closed(d)[d].open
         /\ \A e \in DevSet \ {d} : Closed(d)[e] = dev[e]
  <1>1. [open |-> FALSE, link |-> FALSE, conf |-> "none"] \in DeviceState
    BY DEF DeviceState, Confs
  <1> QED
    BY <1>1 DEF Closed, DevType

\* The devices have their states.
LEMMA DevTyped ==
  ASSUME IfTypeOK
  PROVE  dev \in DevType
  BY DEF IfTypeOK, DevType, DeviceState, Confs

\* While a job runs, the devices change only in their links and configurations.
LEMMA LinkChanged ==
  ASSUME IfPart, LinkChanges, UNCHANGED <<stack, boot>>
  PROVE  IfPart' /\ \A d \in DevSet : dev'[d].open = dev[d].open
  <1> DEFINE up == ~dev[ifc.d].link
  <1>1. ifc.d \in DevSet /\ dev \in DevType
    BY DevTyped DEF IfPart, Waiting, IfconfSoFar, LinkChanges
  <1>2. dev' = [dev EXCEPT ![ifc.d].link = up] /\ up \in BOOLEAN
    BY DEF LinkChanges
  <1>3. dev' \in DevType /\ \A e \in DevSet : dev'[e].open = dev[e].open /\ dev'[e].conf = dev[e].conf
    <2> DEFINE r == [dev[ifc.d] EXCEPT !.link = up]
    <2>1. dev[ifc.d] \in DeviceState
      BY <1>1 DEF DevType
    <2>2. r \in DeviceState
      BY <1>2, <2>1, Zenon DEF DeviceState
    <2>3. r.open = dev[ifc.d].open /\ r.conf = dev[ifc.d].conf
      BY <2>1 DEF DeviceState
    <2>4. dev' = [dev EXCEPT ![ifc.d] = r]
      BY <1>2
    <2> HIDE DEF r
    <2> QED
      BY <1>1, <2>2, <2>3, <2>4 DEF DevType
  <1>4. UNCHANGED <<phase, monojob_rc, result, job, wait, ct, ifc, cmd>>
    BY DEF LinkChanges, jobVars
  <1>5. IfTypeOK'
    BY <1>3, <1>4 DEF IfPart, IfTypeOK, DevType, DeviceState, Confs
  <1>6. IfconfSoFar'
    BY <1>3, <1>4 DEF IfPart, IfconfSoFar
  <1>7. Waiting'
    BY <1>4 DEF IfPart, Waiting, CmdRuns, At, Running, Top
  <1> QED
    BY <1>3, <1>5, <1>6, <1>7 DEF IfPart

\* ... and of the configurations, the one that is waited for.
LEMMA ConfEnded ==
  ASSUME IfPart, NEW ok \in BOOLEAN, ConfEnds(ok), UNCHANGED <<stack, boot>>
  PROVE  IfPart' /\ \A d \in DevSet : dev'[d].open = dev[d].open
  <1> DEFINE c == IF ok THEN "done" ELSE "failed"
  <1>1. ifc.d \in DevSet /\ dev \in DevType
    BY DevTyped DEF IfPart, IfconfSoFar, ConfEnds
  <1>2. dev' = [dev EXCEPT ![ifc.d].conf = c] /\ c \in Confs /\ c # "none"
    BY DEF ConfEnds, Confs
  <1> HIDE DEF c
  <1>3. dev' \in DevType
        /\ \A e \in DevSet : dev'[e].open = dev[e].open /\ dev'[e].conf = IF e = ifc.d THEN c ELSE dev[e].conf
    <2> DEFINE r == [dev[ifc.d] EXCEPT !.conf = c]
    <2>1. dev[ifc.d] \in DeviceState
      BY <1>1 DEF DevType
    <2>2. r \in DeviceState
      BY <1>2, <2>1, Zenon DEF DeviceState
    <2>3. r.open = dev[ifc.d].open /\ r.conf = c
      BY <2>1 DEF DeviceState
    <2>4. dev' = [dev EXCEPT ![ifc.d] = r]
      BY <1>2
    <2> HIDE DEF r
    <2> QED
      BY <1>1, <2>2, <2>3, <2>4 DEF DevType
  <1>4. UNCHANGED <<phase, monojob_rc, result, job, wait, ct, ifc, cmd>>
    BY DEF ConfEnds, jobVars
  <1>5. IfTypeOK'
    BY <1>3, <1>4 DEF IfPart, IfTypeOK, DevType, DeviceState, Confs
  <1>6. phase = "step" /\ ifc.pc = "conf" /\ dev[ifc.d].conf = "busy"
    BY DEF ConfEnds
  <1>7. \A e \in DevSet : dev[e].conf = "done" => dev'[e].conf = "done"
    BY <1>3, <1>6
  <1>8. IfconfSoFar'
    BY <1>2, <1>3, <1>4, <1>6, <1>7 DEF IfPart, IfconfSoFar
  <1>9. Waiting'
    BY <1>4 DEF IfPart, Waiting, CmdRuns, At, Running, Top
  <1> QED
    BY <1>3, <1>5, <1>8, <1>9 DEF IfPart

\* The wait ends, or the pinger goes on: the commands and devices stay.
LEMMA WaitEnds ==
  ASSUME IfPart, phase = "step", NEW rc \in Statuses, Return(rc), UNCHANGED <<ifVars, stack, boot>>,
         ifc.pc = "conf" /\ rc = OK => dev[ifc.d].conf = "done"
  PROVE  IfPart'
  <1>1. phase' = "returned" /\ result' = rc /\ monojob_rc' = rc /\ UNCHANGED <<dev, ct, ifc, cmd, wait>>
    BY DEF Return, ifVars
  <1>2. IfTypeOK'
    BY <1>1 DEF IfPart, IfTypeOK
  <1>3. ifc.pc # "done"
    BY DEF IfPart, Waiting
  <1>4. IfconfSoFar'
    BY <1>1, <1>3 DEF IfPart, IfconfSoFar
  <1>5. Waiting'
    BY <1>1 DEF IfPart, Waiting, CmdRuns, At, Running, Top
  <1> QED
    BY <1>2, <1>4, <1>5 DEF IfPart

\* ... or the wait goes on, whatever becomes of the ping.
LEMMA WaitGoesOn ==
  ASSUME IfPart, phase = "step", UNCHANGED <<phase, result, ifVars, stack, boot, wait>>,
         \/ UNCHANGED <<monojob_rc, job>>
         \/ job = "pinger" /\ job' \in {"pinger", "none"} /\ monojob_rc' \in Statuses
  PROVE  IfPart'
  <1>1. UNCHANGED <<dev, ct, ifc, cmd>>
    BY DEF ifVars
  <1>2. IfTypeOK'
    BY <1>1 DEF IfPart, IfTypeOK
  <1>3. IfconfSoFar'
    BY <1>1 DEF IfPart, IfconfSoFar
  <1>4. Waiting'
    BY <1>1 DEF IfPart, Waiting, CmdRuns, At, Running, Top
  <1> QED
    BY <1>2, <1>3, <1>4 DEF IfPart

\* A tick of the clock: the configuration that has ended is the one reported.
LEMMA Ticks ==
  ASSUME JobPart, IfPart, Tick, UNCHANGED <<stack, boot>>
  PROVE  JobPart' /\ IfPart' /\ UNCHANGED dev
  <1> DEFINE progress == Progress
             timedOut == wait.timeout # 0 /\ wait.elapsed + 1 >= wait.timeout
             ended == IF progress.ends THEN progress.rc ELSE monojob_rc
  <1>1. phase = "step" /\ AfterTick(progress) /\ UNCHANGED ifVars
    BY DEF Tick
  <1>2. job \in {"none", "pinger", "link", "ifconf"} /\ monojob_rc \in Statuses
    BY <1>1 DEF IfPart, Waiting, IfTypeOK
  <1>3. JobPart'
    BY <1>2, JobTicks
  <1>4. progress.rc \in Statuses
    BY PingAssumption, IfAssumption DEF Progress
  <1>5. ifc.pc = "conf" => job = "ifconf" /\ ~timedOut /\ dev[ifc.d].conf \in {"busy", "done", "failed"}
    BY <1>1, DevTyped DEF IfPart, Waiting, IfconfSoFar, DevType, DeviceState, Confs
  <1>6. ifc.pc = "conf" /\ ended = OK => dev[ifc.d].conf = "done"
    BY <1>1, <1>5 DEF Progress, IfPart, Waiting, OK, EINPROGRESS
  <1> HIDE DEF progress
  <1>7. CASE timedOut \/ ended # EINPROGRESS
    <2> DEFINE rc == IF timedOut THEN IF progress.rc # OK THEN progress.rc ELSE "ETIMEDOUT" ELSE ended
    <2>1. Return(rc)
      BY <1>1, <1>7 DEF AfterTick
    <2>2. rc \in Statuses
      BY <1>2, <1>4, PingAssumption
    <2>3. ifc.pc = "conf" /\ rc = OK => dev[ifc.d].conf = "done"
      BY <1>5, <1>6
    <2> HIDE DEF rc
    <2>4. IfPart'
      BY <1>1, <2>1, <2>2, <2>3, WaitEnds
    <2> QED
      BY <1>1, <1>3, <2>4 DEF ifVars
  <1>8. CASE ~timedOut /\ ended = EINPROGRESS
    <2>1. /\ \E n : wait' = [wait EXCEPT !.elapsed = n]
          /\ UNCHANGED <<phase, monojob_rc, result, job>>
      BY <1>1, <1>8 DEF AfterTick
    <2>2. wait'.timeout = wait.timeout
      BY <2>1 DEF JobPart, PingTypeOK
    <2>3. UNCHANGED <<dev, ct, ifc, cmd>>
      BY <1>1 DEF ifVars
    <2>4. IfTypeOK' /\ IfconfSoFar'
      BY <2>1, <2>3 DEF IfPart, IfTypeOK, IfconfSoFar
    <2>5. Waiting'
      BY <2>1, <2>2, <2>3 DEF IfPart, Waiting, CmdRuns, At, Running, Top
    <2> QED
      BY <1>3, <2>3, <2>4, <2>5 DEF IfPart
  <1> QED
    BY <1>7, <1>8

\* While monojob_wait runs, no device opens or closes.
LEMMA JobSteps ==
  ASSUME JobPart, IfPart, JobStep, UNCHANGED <<stack, boot>>
  PROVE  JobPart' /\ IfPart' /\ \A d \in DevSet : dev'[d].open = dev[d].open
  <1>1. CASE LoopEnds /\ UNCHANGED ifVars
    <2>1. phase = "step" /\ Return(monojob_rc) /\ monojob_rc # EINPROGRESS
      BY <1>1 DEF LoopEnds
    <2>2. monojob_rc \in Statuses /\ ifc.pc = "none"
      BY <2>1 DEF IfPart, IfTypeOK, Waiting
    <2> QED
      BY <1>1, <2>1, <2>2, JobReturned, WaitEnds DEF ifVars
  <1>2. CASE CtrlC /\ UNCHANGED ifVars
    <2>1. phase = "step" /\ Return("ECANCELED") /\ "ECANCELED" \in Statuses /\ "ECANCELED" # OK
      BY <1>2, PingAssumption DEF CtrlC, OK
    <2> QED
      BY <1>2, <2>1, JobReturned, WaitEnds DEF ifVars
  <1>3. CASE PingStep /\ UNCHANGED ifVars
    <2>1. JobPart'
      BY <1>3, PingSteps
    <2>2. /\ phase = "step" /\ job = "pinger" /\ UNCHANGED <<phase, result, wait>>
          /\ \/ UNCHANGED <<monojob_rc, job>>
             \/ job' = "none" /\ \E rc \in {pinger.rc, OK, "EPROTO", "ESOCKET"} : monojob_rc' = rc
      BY <1>3 DEF PingStep, PingerWindow, SocketCloses, PingerExpired, PingerDeliver, PingerCloses,
                  JobCloses, Pinging, jobVars
    <2>3. pinger.rc \in Statuses
      BY <2>2, PingAccount DEF Pinging
    <2>4. monojob_rc' \in Statuses
      BY <2>2, <2>3, PingAssumption DEF IfPart, IfTypeOK
    <2>5. IfPart'
      BY <1>3, <2>2, <2>4, WaitGoesOn
    <2> QED
      BY <1>3, <2>1, <2>5 DEF ifVars
  <1>4. CASE Tick
    BY <1>4, Ticks
  <1>5. CASE LinkChanges
    <2>1. JobPart'
      BY <1>5 DEF LinkChanges, jobVars, pingVars, JobPart, PingTypeOK, OnlyThePingers, PingSoFar, PingEnded, Pinging,
      account, AccountFor, Sent, NoneAnswered
    <2> QED
      BY <1>5, <2>1, LinkChanged
  <1>6. ASSUME NEW ok \in BOOLEAN, ConfEnds(ok)
        PROVE  JobPart' /\ IfPart' /\ \A d \in DevSet : dev'[d].open = dev[d].open
    <2>1. JobPart'
      BY <1>6 DEF ConfEnds, jobVars, pingVars, JobPart, PingTypeOK, OnlyThePingers, PingSoFar, PingEnded, Pinging,
      account, AccountFor, Sent, NoneAnswered
    <2> QED
      BY <1>6, <2>1, ConfEnded
  <1> QED
    BY <1>1, <1>2, <1>3, <1>4, <1>5, <1>6 DEF JobStep

\* For whom an ifconf runs: a command, or the boot from a device.
ForWhom(d) ==
  \/ cmd.name = "ifconf" /\ cmd.devs # <<>> /\ d = Head(cmd.devs)
  \/ ~CmdRuns /\ boot.at = "conf" /\ d = boot.d

\* While an ifconf command tries a device, it has not succeeded yet.
LEMMA StillTrying ==
  ASSUME IfPart, cmd.name = "ifconf", cmd.devs # <<>>
  PROVE  /\ ToSet(cmd.devs) \subseteq ToSet(cmd.all)
         /\ cmd.rc # OK
         /\ \A d \in DevSet \cap ToSet(cmd.all) : d \in ToSet(cmd.devs) \/ ~dev[d].open
  BY DEF IfPart, IfconfSoFar

\* What is left to try, and what is tried.
LEMMA HeadAndTail ==
  ASSUME NEW S, NEW s \in Seq(S), s # <<>>
  PROVE  /\ Head(s) \in S /\ Tail(s) \in Seq(S)
         /\ Head(s) \in ToSet(s) /\ ToSet(Tail(s)) \subseteq ToSet(s)
         /\ \A x \in ToSet(s) : x = Head(s) \/ x \in ToSet(Tail(s))
  <1>1. /\ Head(s) \in S /\ Tail(s) \in Seq(S) /\ Len(Tail(s)) = Len(s) - 1
        /\ \A i \in 1 .. Len(Tail(s)) : Tail(s)[i] = s[i + 1]
    BY HeadTailProperties
  <1>2. Head(s) = s[1] /\ Len(s) \in Nat \ {0}
    BY EmptySeq
  <1>3. ToSet(s) = {s[i] : i \in 1 .. Len(s)} /\ ToSet(Tail(s)) = {Tail(s)[i] : i \in 1 .. Len(Tail(s))}
    BY <1>1, LenProperties DEF ToSet
  <1>4. Head(s) \in ToSet(s)
    BY <1>2, <1>3
  <1>5. ToSet(Tail(s)) \subseteq ToSet(s)
    BY <1>1, <1>2, <1>3
  <1>6. ASSUME NEW i \in 1 .. Len(s), i # 1
        PROVE  s[i] \in ToSet(Tail(s))
    <2>1. i - 1 \in 1 .. Len(Tail(s)) /\ Tail(s)[i - 1] = s[i]
      BY <1>1, <1>2, <1>6
    <2> QED
      BY <1>3, <2>1
  <1> QED
    BY <1>1, <1>2, <1>3, <1>4, <1>5, <1>6

\* ifconf begins: only its device may open.
LEMMA IfconfBegins ==
  ASSUME JobPart, IfPart, NEW d \in DevSet, IfIdle, Ifconf(d), ForWhom(d),
         UNCHANGED <<pingVars, cmd, stack, boot>>
  PROVE  JobPart' /\ IfPart' /\ \A e \in DevSet : dev'[e].open => dev[e].open \/ e = d
  <1> DEFINE count == IF d \in Net0 /\ ct < MAXCT THEN ct + 1 ELSE ct
  <1>1. dev \in DevType /\ ct \in 0 .. MAXCT /\ MAXCT \in Nat /\ LINKTIME \in Nat
    BY DevTyped, IfAssumption DEF IfPart, IfTypeOK
  <1>2. phase # "step" /\ phase \in {"idle", "returned"} /\ ifc.pc = "none"
    BY DEF IfIdle, JobPart, PingTypeOK
  <1>3. cmd.name = "ifconf" =>
          /\ cmd.devs # <<>> /\ d \in ToSet(cmd.devs)
          /\ ToSet(cmd.devs) \subseteq ToSet(cmd.all) /\ cmd.rc # OK
          /\ \A e \in DevSet \cap ToSet(cmd.all) : e \in ToSet(cmd.devs) \/ ~dev[e].open
    BY StillTrying, HeadAndTail DEF ForWhom, CmdRuns, IfPart, IfTypeOK
  <1>4. UNCHANGED <<cmd, stack, boot>> /\ (ifc'.pc # "none" /\ ifc'.d = d => ForWhom(ifc'.d))
    OBVIOUS
  <1>5. CmdRuns' = CmdRuns /\ At("run")' = At("run") /\ Running' = Running
    BY DEF CmdRuns, At, Running, Top
  <1>6. ASSUME ~dev[d].open, IfDone(d, "EOPEN"), UNCHANGED <<phase, monojob_rc, job, wait, jobEnd, dev, ct>>
        PROVE  JobPart' /\ IfPart' /\ \A e \in DevSet : dev'[e].open => dev[e].open \/ e = d
    <2>1. JobPart'
      BY <1>2, <1>6, JobRests
    <2>2. ifc' = [pc |-> "done", d |-> d] /\ result' = "EOPEN" /\ "EOPEN" # OK /\ "EOPEN" \in Statuses
      BY <1>6, IfAssumption DEF IfDone, OK
    <2>3. IfTypeOK'
      BY <1>6, <2>2 DEF IfPart, IfTypeOK
    <2>4. IfconfSoFar'
      BY <1>6, <2>2 DEF IfPart, IfconfSoFar
    <2>5. Waiting'
      BY <1>2, <1>5, <1>6, <2>2 DEF IfPart, Waiting, ForWhom
    <2> QED
      BY <1>6, <2>1, <2>3, <2>4, <2>5 DEF IfPart
  <1>7. ASSUME NEW up \in BOOLEAN, dev' = [Opened(d) EXCEPT ![d].link = up],
               IF dev'[d].link
               THEN /\ ifc' = [pc |-> "ready", d |-> d]
                    /\ UNCHANGED <<jobVars, ct>>
               ELSE /\ ct' = count
                    /\ ifc' = [pc |-> "link", d |-> d]
                    /\ BeginWait("link", count * LINKTIME)
        PROVE  JobPart' /\ IfPart' /\ \A e \in DevSet : dev'[e].open => dev[e].open \/ e = d
    <2>1. /\ dev' \in DevType /\ dev'[d].open
          /\ \A e \in DevSet : e # d => dev'[e] = dev[e]
      <3> DEFINE o == [dev[d] EXCEPT !.open = TRUE]
                 r == [o EXCEPT !.link = up]
      <3>1. dev[d] \in DeviceState
        BY <1>1 DEF DevType
      <3>2. o \in DeviceState
        BY <3>1, Zenon DEF DeviceState
      <3>3. o.open
        BY <3>1 DEF DeviceState
      <3>4. Opened(d) = [dev EXCEPT ![d] = o]
        BY DEF Opened
      <3> HIDE DEF o
      <3>5. r \in DeviceState
        BY <3>2, Zenon DEF DeviceState
      <3>6. r.open
        BY <3>2, <3>3 DEF DeviceState
      <3>7. Opened(d)[d] = o /\ DOMAIN Opened(d) = DevSet /\ Opened(d) \in DevType
            /\ \A e \in DevSet : e # d => Opened(d)[e] = dev[e]
        BY <1>1, <3>2, <3>4 DEF DevType
      <3>8. dev' = [Opened(d) EXCEPT ![d] = r]
        BY <1>7, <3>7
      <3> HIDE DEF r
      <3> QED
        BY <3>5, <3>6, <3>7, <3>8 DEF DevType
    <2>2. count \in 0 .. MAXCT /\ count * LINKTIME \in Nat
      <3>1. count \in 0 .. MAXCT
        BY <1>1
      <3> HIDE DEF count
      <3> QED
        BY <1>1, <3>1
    <2> HIDE DEF count
    <2>3. CASE dev'[d].link
      <3>1. ifc' = [pc |-> "ready", d |-> d] /\ UNCHANGED <<phase, monojob_rc, result, job, wait, jobEnd, ct>>
        BY <1>7, <2>3 DEF jobVars
      <3>2. JobPart'
        BY <1>2, <3>1, JobRests
      <3>3. IfTypeOK'
        BY <2>1, <3>1 DEF IfPart, IfTypeOK, DevType, DeviceState, Confs
      <3>4. IfconfSoFar'
        BY <1>3, <1>4, <2>1, <3>1 DEF IfconfSoFar
      <3>5. Waiting'
        BY <1>2, <1>5, <3>1 DEF IfPart, Waiting, ForWhom
      <3> QED
        BY <2>1, <3>2, <3>3, <3>4, <3>5 DEF IfPart
    <2>4. CASE ~dev'[d].link
      <3>1. ct' = count /\ ifc' = [pc |-> "link", d |-> d] /\ BeginWait("link", count * LINKTIME)
        BY <1>7, <2>4
      <3>2. JobPart'
        BY <1>2, <2>2, <3>1, JobBegins
      <3>3. /\ job' = "link" /\ monojob_rc' = EINPROGRESS /\ phase' = "step" /\ result' = result
        BY <3>1 DEF BeginWait
      <3>4. IfTypeOK'
        BY <2>1, <2>2, <3>1, <3>3, PingAssumption DEF IfPart, IfTypeOK, DevType, DeviceState, Confs
      <3>5. IfconfSoFar'
        BY <1>3, <1>4, <2>1, <3>1 DEF IfconfSoFar
      <3>6. Waiting'
        BY <1>5, <3>1, <3>3 DEF IfPart, Waiting, ForWhom, CmdRuns
      <3> QED
        BY <2>1, <3>2, <3>4, <3>5, <3>6 DEF IfPart
    <2> QED
      BY <2>3, <2>4
  <1> QED
    BY <1>6, <1>7 DEF Ifconf

\* The link is up: the configuration starts, or is refused.
LEMMA LinkWaits ==
  ASSUME JobPart, IfPart, LinkWaited, UNCHANGED <<stack, boot>>
  PROVE  JobPart' /\ IfPart' /\ \A d \in DevSet : dev'[d].open = dev[d].open
  <1>1. /\ phase # "step" /\ phase \in {"idle", "returned"} /\ ifc.d \in DevSet /\ dev \in DevType
        /\ ifc.pc \in {"ready", "link"} /\ dev[ifc.d].open
    BY DevTyped DEF LinkWaited, IfPart, IfconfSoFar, Waiting, JobPart, PingTypeOK
  <1>2. UNCHANGED <<pingVars, ct, cmd, stack, boot>>
    BY DEF LinkWaited
  <1>3. cmd.name = "ifconf" =>
          /\ cmd.devs # <<>>
          /\ ToSet(cmd.devs) \subseteq ToSet(cmd.all) /\ cmd.rc # OK
          /\ \A e \in DevSet \cap ToSet(cmd.all) : e \in ToSet(cmd.devs) \/ ~dev[e].open
    BY <1>1, StillTrying DEF IfPart, Waiting, CmdRuns
  <1>4. CmdRuns' = CmdRuns /\ At("run")' = At("run") /\ Running' = Running
    BY <1>2 DEF CmdRuns, At, Running, Top
  <1>5. ASSUME IfDone(ifc.d, "ECONF"), UNCHANGED <<phase, monojob_rc, job, wait, jobEnd, dev>>
        PROVE  JobPart' /\ IfPart' /\ \A d \in DevSet : dev'[d].open = dev[d].open
    <2>1. JobPart'
      BY <1>1, <1>2, <1>5, JobRests
    <2>2. ifc' = [pc |-> "done", d |-> ifc.d] /\ result' = "ECONF" /\ "ECONF" # OK /\ "ECONF" \in Statuses
      BY <1>5, IfAssumption DEF IfDone, OK
    <2>3. IfTypeOK'
      BY <1>2, <1>5, <2>2 DEF IfPart, IfTypeOK
    <2>4. IfconfSoFar'
      BY <1>1, <1>2, <1>5, <2>2 DEF IfPart, IfconfSoFar
    <2>5. Waiting'
      BY <1>1, <1>2, <1>4, <1>5, <2>2 DEF IfPart, Waiting
    <2> QED
      BY <1>5, <2>1, <2>3, <2>4, <2>5 DEF IfPart
  <1>6. ASSUME dev' = [dev EXCEPT ![ifc.d].conf = "busy"], ifc' = [pc |-> "conf", d |-> ifc.d],
               BeginWait("ifconf", 0)
        PROVE  JobPart' /\ IfPart' /\ \A d \in DevSet : dev'[d].open = dev[d].open
    <2>1. dev' \in DevType /\ dev'[ifc.d].conf = "busy" /\ \A e \in DevSet : dev'[e].open = dev[e].open
      <3> DEFINE r == [dev[ifc.d] EXCEPT !.conf = "busy"]
      <3>1. dev[ifc.d] \in DeviceState
        BY <1>1 DEF DevType
      <3>2. r \in DeviceState
        BY <3>1, Zenon DEF DeviceState, Confs
      <3>3. r.open = dev[ifc.d].open /\ r.conf = "busy"
        BY <3>1 DEF DeviceState
      <3>4. dev' = [dev EXCEPT ![ifc.d] = r]
        BY <1>6
      <3> HIDE DEF r
      <3> QED
        BY <1>1, <3>2, <3>3, <3>4 DEF DevType
    <2>2. JobPart'
      BY <1>1, <1>2, <1>6, JobBegins
    <2>3. /\ job' = "ifconf" /\ monojob_rc' = EINPROGRESS /\ phase' = "step" /\ result' = result
          /\ wait'.timeout = 0
      BY <1>6 DEF BeginWait
    <2>4. IfTypeOK'
      BY <1>2, <1>6, <2>1, <2>3, PingAssumption DEF IfPart, IfTypeOK, DevType, DeviceState, Confs
    <2>5. IfconfSoFar'
      BY <1>1, <1>2, <1>3, <1>6, <2>1, <2>3 DEF IfconfSoFar
    <2>6. Waiting'
      BY <1>1, <1>2, <1>4, <1>6, <2>3 DEF IfPart, Waiting, CmdRuns
    <2> QED
      BY <2>1, <2>2, <2>4, <2>5, <2>6 DEF IfPart
  <1>7. ASSUME result # OK, phase = "returned", ifc' = [ifc EXCEPT !.pc = "done"], UNCHANGED <<jobVars, dev>>
        PROVE  JobPart' /\ IfPart' /\ \A d \in DevSet : dev'[d].open = dev[d].open
    <2>1. UNCHANGED <<phase, monojob_rc, result, job, wait, jobEnd, dev>>
      BY <1>7 DEF jobVars
    <2>2. JobPart'
      BY <1>1, <1>2, <2>1, JobRests
    <2>3. ifc'.pc = "done" /\ ifc'.d = ifc.d /\ IfTypeOK'
      BY <1>2, <1>7, <2>1 DEF IfPart, IfTypeOK
    <2>4. IfconfSoFar'
      BY <1>1, <1>2, <1>7, <2>1, <2>3 DEF IfPart, IfconfSoFar
    <2>5. Waiting'
      BY <1>1, <1>2, <1>4, <2>1, <2>3 DEF IfPart, Waiting
    <2> QED
      BY <1>7, <2>2, <2>3, <2>4, <2>5 DEF IfPart
  <1> QED
    BY <1>5, <1>6, <1>7 DEF LinkWaited, Configure

\* The configuration has ended, well or not.
LEMMA ConfWaits ==
  ASSUME JobPart, IfPart, ConfWaited, UNCHANGED <<stack, boot>>
  PROVE  JobPart' /\ IfPart' /\ UNCHANGED dev
  <1>1. /\ UNCHANGED <<phase, monojob_rc, result, job, wait, jobEnd, pingVars, dev, ct, cmd>>
        /\ phase = "returned" /\ ifc.pc = "conf"
    BY DEF ConfWaited, jobVars
  <1>2. JobPart'
    BY <1>1, JobRests
  <1>3. ifc'.pc = "done" /\ ifc'.d = ifc.d /\ IfTypeOK'
    BY <1>1 DEF ConfWaited, IfPart, IfTypeOK
  <1>4. IfconfSoFar'
    BY <1>1, <1>3 DEF IfPart, IfconfSoFar
  <1>5. Waiting'
    BY <1>1, <1>3 DEF IfPart, Waiting, CmdRuns, At, Running, Top
  <1> QED
    BY <1>1, <1>2, <1>3, <1>4, <1>5 DEF IfPart

\* The next device of an interface command.
LEMMA NextDevice ==
  ASSUME JobPart, IfPart, IfNext, UNCHANGED <<stack, boot>>
  PROVE  JobPart' /\ IfPart'
  <1> DEFINE d == Head(cmd.devs)
  <1>1. /\ CmdRuns /\ cmd.devs # <<>> /\ IfIdle /\ cmd.name # "ping" /\ UNCHANGED pingVars
        /\ phase # "step" /\ phase \in {"idle", "returned"} /\ ifc.pc = "none" /\ dev \in DevType
    BY DevTyped DEF IfNext, IfIdle, IfPart, JobPart, PingTypeOK
  <1>2. /\ cmd \in [name : {"none", "ping", "ifopen", "ifclose", "ifstat", "ifconf"},
                    all : Seq(Names), devs : Seq(Names), rc : Statuses]
        /\ cmd.name \in {"ifopen", "ifclose", "ifstat", "ifconf"}
    BY <1>1 DEF IfPart, IfTypeOK, CmdRuns
  <1>3. /\ Tail(cmd.devs) \in Seq(Names) /\ d \in ToSet(cmd.devs)
        /\ ToSet(Tail(cmd.devs)) \subseteq ToSet(cmd.devs)
        /\ \A x \in ToSet(cmd.devs) : x = d \/ x \in ToSet(Tail(cmd.devs))
    BY <1>1, <1>2, HeadAndTail
  <1>4. CASE d \in DevSet /\ cmd.name = "ifconf"
    <2>1. Ifconf(d) /\ UNCHANGED cmd /\ ForWhom(d)
      BY <1>1, <1>4 DEF IfNext, ForWhom
    <2> HIDE DEF d
    <2> QED
      BY <1>1, <1>4, <2>1, IfconfBegins
  <1>5. CASE ~(d \in DevSet /\ cmd.name = "ifconf")
    <2>1. PICK rc \in Statuses :
            /\ cmd' = [cmd EXCEPT !.devs = Tail(@), !.rc = rc]
            /\ cmd.name = "ifconf" => d \notin DevSet /\ rc # OK /\ UNCHANGED dev
            /\ UNCHANGED <<jobVars, ct, ifc>>
            /\ \/ UNCHANGED dev
               \/ d \in DevSet /\ (dev' = Opened(d) \/ dev' = Closed(d))
      <3>1. {OK, "EOPEN", "ENODEV"} \subseteq Statuses /\ "ENODEV" # OK
        BY PingAssumption, IfAssumption DEF OK
      <3>2. CASE d \notin DevSet
        BY <1>2, <3>1, <3>2 DEF IfNext
      <3>3. CASE d \in DevSet /\ cmd.name = "ifopen"
        BY <1>2, <3>1, <3>3 DEF IfNext
      <3>4. CASE d \in DevSet /\ cmd.name = "ifclose"
        BY <1>2, <3>1, <3>4 DEF IfNext
      <3>5. CASE d \in DevSet /\ cmd.name = "ifstat"
        BY <1>2, <3>1, <3>5 DEF IfNext
      <3> QED
        BY <1>2, <1>5, <3>2, <3>3, <3>4, <3>5
    <2> HIDE DEF d
    <2>2. dev' \in DevType
      <3>1. ASSUME d \in DevSet PROVE Opened(d) \in DevType
        <4> DEFINE o == [dev[d] EXCEPT !.open = TRUE]
        <4>1. dev[d] \in DeviceState
          BY <1>1, <3>1 DEF DevType
        <4>2. o \in DeviceState
          BY <4>1, Zenon DEF DeviceState
        <4>3. Opened(d) = [dev EXCEPT ![d] = o]
          BY DEF Opened
        <4> HIDE DEF o
        <4> QED
          BY <1>1, <4>2, <4>3 DEF DevType
      <3> QED
        BY <1>1, <2>1, <3>1, CloseSet
    <2>3. cmd'.name = cmd.name /\ cmd'.all = cmd.all /\ cmd'.devs = Tail(cmd.devs) /\ cmd'.rc = rc
      BY <1>2, <2>1
    <2>4. UNCHANGED <<phase, monojob_rc, result, job, wait, jobEnd, ct, ifc>>
      BY <2>1 DEF jobVars
    <2>5. JobPart'
      BY <1>1, <2>4, JobRests
    <2>6. IfTypeOK'
      <3>1. cmd' \in [name : {"none", "ping", "ifopen", "ifclose", "ifstat", "ifconf"},
                      all : Seq(Names), devs : Seq(Names), rc : Statuses]
        BY <1>2, <1>3, <2>1
      <3> QED
        BY <2>2, <2>4, <3>1 DEF IfPart, IfTypeOK, DevType, DeviceState, Confs
    <2>7. IfconfSoFar'
      <3>1. CASE cmd.name = "ifconf"
        <4>1. /\ ToSet(cmd.devs) \subseteq ToSet(cmd.all)
              /\ \A e \in DevSet \cap ToSet(cmd.all) : e \in ToSet(cmd.devs) \/ ~dev[e].open
          BY <1>1, <3>1, StillTrying
        <4>2. \A e \in DevSet \cap ToSet(cmd.all) : e \in ToSet(Tail(cmd.devs)) \/ ~dev[e].open
          BY <1>3, <2>1, <3>1, <4>1
        <4> QED
          BY <1>1, <1>3, <2>1, <2>3, <2>4, <3>1, <4>1, <4>2 DEF IfconfSoFar
      <3>2. CASE cmd.name # "ifconf"
        BY <1>1, <2>3, <2>4, <3>2 DEF IfconfSoFar
      <3> QED
        BY <3>1, <3>2
    <2>8. Waiting'
      BY <1>1, <2>3, <2>4 DEF IfPart, Waiting, CmdRuns, At, Running, Top
    <2> QED
      BY <2>5, <2>6, <2>7, <2>8 DEF IfPart
  <1> QED
    BY <1>4, <1>5

\* An ifconf command goes on with the next device, or ends.
LEMMA IfconfReturns ==
  ASSUME JobPart, IfPart, IfconfEnds, UNCHANGED <<stack, boot>>
  PROVE  JobPart' /\ IfPart'
  <1>1. /\ ifc.pc = "done" /\ CmdRuns /\ phase # "step"
        /\ cmd.name = "ifconf" /\ cmd.devs # <<>> /\ ifc.d = Head(cmd.devs) /\ ifc.d \in DevSet
        /\ dev \in DevType /\ result \in Statuses
        /\ result = OK => dev[ifc.d].open /\ dev[ifc.d].conf = "done"
    BY DevTyped DEF IfconfEnds, IfPart, Waiting, IfconfSoFar, IfTypeOK
  <1>2. /\ cmd \in [name : {"none", "ping", "ifopen", "ifclose", "ifstat", "ifconf"},
                    all : Seq(Names), devs : Seq(Names), rc : Statuses]
    BY DEF IfPart, IfTypeOK
  <1>3. /\ Tail(cmd.devs) \in Seq(Names) /\ ifc.d \in ToSet(cmd.devs)
        /\ ToSet(Tail(cmd.devs)) \subseteq ToSet(cmd.devs)
        /\ \A x \in ToSet(cmd.devs) : x = ifc.d \/ x \in ToSet(Tail(cmd.devs))
    BY <1>1, <1>2, HeadAndTail
  <1> DEFINE rest == IF result = OK THEN <<>> ELSE Tail(cmd.devs)
  <1>4. rest \in Seq(Names) /\ ToSet(rest) \subseteq ToSet(cmd.devs)
    <2>1. <<>> \in Seq(Names) /\ ToSet(<<>>) = {}
      BY EmptySeq DEF ToSet
    <2> QED
      BY <1>3, <2>1
  <1>5. /\ cmd' = [cmd EXCEPT !.rc = result, !.devs = rest]
        /\ dev' = IF result = OK THEN dev ELSE Closed(ifc.d)
        /\ ifc' = NoIfc /\ phase' = "idle"
        /\ UNCHANGED <<monojob_rc, result, job, wait, jobEnd, pingVars, ct>>
    BY DEF IfconfEnds
  <1>6. dev' \in DevType
    BY <1>1, <1>5, CloseSet
  <1> HIDE DEF rest
  <1>7. JobPart'
    BY <1>1, <1>5, JobRests
  <1>8. /\ cmd' \in [name : {"none", "ping", "ifopen", "ifclose", "ifstat", "ifconf"},
                     all : Seq(Names), devs : Seq(Names), rc : Statuses]
        /\ cmd'.name = cmd.name /\ cmd'.all = cmd.all /\ cmd'.devs = rest /\ cmd'.rc = result
    BY <1>1, <1>2, <1>4, <1>5
  <1>9. IfTypeOK'
    BY <1>5, <1>6, <1>8 DEF IfPart, IfTypeOK, DevType, DeviceState, Confs, NoIfc
  <1>10. IfconfSoFar'
    <2>1. /\ ToSet(cmd.devs) \subseteq ToSet(cmd.all)
          /\ \A e \in DevSet \cap ToSet(cmd.all) : e \in ToSet(cmd.devs) \/ ~dev[e].open
      BY <1>1, StillTrying
    <2>2. CASE result = OK
      <3>1. rest = <<>> /\ dev' = dev /\ ifc.d \in DevSet \cap ToSet(cmd.all)
        BY <1>1, <1>3, <1>5, <2>1, <2>2 DEF rest
      <3> QED
        BY <1>1, <1>4, <1>5, <1>8, <2>1, <2>2, <3>1 DEF IfconfSoFar, NoIfc
    <2>3. CASE result # OK
      <3>1. rest = Tail(cmd.devs) /\ dev' = Closed(ifc.d)
        BY <1>5, <2>3 DEF rest
      <3>2. \A e \in DevSet \cap ToSet(cmd.all) : e \in ToSet(rest) \/ ~dev'[e].open
        BY <1>1, <1>3, <2>1, <3>1, CloseSet
      <3> QED
        BY <1>4, <1>5, <1>8, <2>1, <2>3, <3>2 DEF IfconfSoFar, NoIfc
    <2> QED
      BY <2>2, <2>3
  <1>11. Waiting'
    BY <1>1, <1>5, <1>8 DEF IfPart, Waiting, CmdRuns, At, Running, Top, NoIfc
  <1> QED
    BY <1>7, <1>9, <1>10, <1>11 DEF IfPart

\* A ping command has the status that its wait returned.
LEMMA PingReturns ==
  ASSUME JobPart, IfPart, PingEnds, UNCHANGED <<stack, boot>>
  PROVE  JobPart' /\ IfPart'
  <1>1. /\ cmd.name = "ping" /\ phase = "returned" /\ ifc.pc = "none" /\ phase' = "idle"
        /\ UNCHANGED <<monojob_rc, result, job, wait, jobEnd, pingVars, dev, ct, ifc>>
    BY DEF PingEnds, IfPart, Waiting, CmdRuns
  <1>2. JobPart'
    BY <1>1, JobRests
  <1>3. cmd'.name = "ping" /\ IfTypeOK'
    BY <1>1, EmptySeq DEF PingEnds, IfPart, IfTypeOK
  <1>4. IfconfSoFar'
    BY <1>1, <1>3 DEF IfconfSoFar
  <1>5. Waiting'
    BY <1>1, <1>3 DEF IfPart, Waiting, CmdRuns, At, Running, Top
  <1> QED
    BY <1>2, <1>3, <1>4, <1>5 DEF IfPart

\* No device opens but for a command.
LEMMA IfSteps ==
  ASSUME JobPart, IfPart, IfStep, UNCHANGED <<stack, boot>>
  PROVE  JobPart' /\ IfPart' /\ (~CmdRuns => \A d \in DevSet : dev'[d].open = dev[d].open)
  <1>1. CASE JobStep
    BY <1>1, JobSteps
  <1>2. CASE LinkWaited
    BY <1>2, LinkWaits
  <1>3. CASE ConfWaited
    BY <1>3, ConfWaits
  <1>4. CASE IfNext
    BY <1>4, NextDevice DEF IfNext
  <1>5. CASE IfconfEnds
    BY <1>5, IfconfReturns DEF IfconfEnds
  <1>6. CASE PingEnds
    BY <1>6, PingReturns DEF PingEnds
  <1> QED
    BY <1>1, <1>2, <1>3, <1>4, <1>5, <1>6 DEF IfStep

-----------------------------------------------------------------------------
(***************************************************************************)
(* The interpreter.                                                        *)
(***************************************************************************)
\* What the invariant says of the scripts that run, and of a stop.
ShellPart == ShellTypeOK /\ StopPending

\* There is a command to run, and one that ends the line.
Unfinished(line) == line # <<>> /\ line[Len(line)].next = "end"

\* A sequence and its length.
LEMMA StackDomain ==
  ASSUME NEW S, NEW s \in Seq(S)
  PROVE  DOMAIN s = 1 .. Len(s) /\ Len(s) \in Nat /\ (s = <<>> <=> Len(s) = 0)
  BY LenProperties, EmptySeq

\* The innermost frame and its command.
LEMMA TopFrame ==
  ASSUME ShellPart, Running
  PROVE  /\ stack \in Seq(Frames) /\ Len(stack) \in Nat \ {0} /\ Top = stack[Len(stack)] /\ Top \in Frames
         /\ Top.at \in {"cmd", "run", "ran"} => Unfinished(Top.line)
         /\ Len(stack) # 1 \/ boot.at = "exec" => Top.kind = "script"
         /\ stop_state # 0 => Top.at \in {"ran", "eol"}
  <1>1. stack \in Seq(Frames) /\ Len(stack) \in Nat \ {0}
    BY EmptySeq DEF ShellPart, ShellTypeOK, Running
  <1>2. Len(stack) \in 1 .. Len(stack) /\ DOMAIN stack = 1 .. Len(stack)
    BY <1>1, StackDomain
  <1>3. Top = stack[Len(stack)]
    BY DEF Top, Last
  <1>4. Top \in Frames
    BY <1>1, <1>2, <1>3, ElementOfSeq
  <1>5. Top.at \in {"cmd", "run", "ran"} => Unfinished(Top.line)
    BY <1>2, <1>3 DEF ShellPart, ShellTypeOK, Unfinished
  <1> QED
    BY <1>1, <1>2, <1>3, <1>4, <1>5 DEF ShellPart, StopPending

\* The command to run is one of the script's, or exit typed by the user.
LEMMA CommandTyped ==
  ASSUME ShellPart, Running, Top.at \in {"cmd", "run", "ran"}
  PROVE  /\ Command \in Commands \cup {UserExit} /\ Command.rc \in Statuses
         /\ Command.op = "image" => Command.arg \in Scripts
         /\ Command.op = "goto" => Command.arg \in Nat \ {0}
         /\ Command.op = "ping" => Command.arg \in Nat
         /\ Command.op \in {"ifopen", "ifclose", "ifstat", "ifconf"} => Command.arg \in Seq(Names)
  <1>1. Top.line \in Seq(Commands \cup {UserExit}) /\ Top.line # <<>>
    BY TopFrame DEF Frames, Unfinished
  <1>2. Command \in Commands \cup {UserExit}
    BY <1>1, HeadTailProperties DEF Command
  <1>3. UserExit.op = "exit" /\ UserExit.rc \in Statuses
    BY PingAssumption DEF UserExit
  <1> QED
    BY <1>2, <1>3, CommandsAssumption

\* The frame that a script, a shell or a scriptlet starts with.
LEMMA NewFrame ==
  ASSUME NEW kind \in {"script", "shell", "scriptlet"}, NEW lines \in Scripts
  PROVE  /\ Frame(kind, lines) \in Frames
         /\ Frame(kind, lines).at = "bol" /\ Frame(kind, lines).kind = kind
  <1>1. <<>> \in Seq(Commands \cup {UserExit}) /\ OK \in Statuses
    BY EmptySeq, PingAssumption
  <1> QED
    BY <1>1 DEF Frame, Frames

\* The innermost script goes on.
LEMMA StackTop ==
  ASSUME ShellPart, Running,
         NEW f \in Frames, f.kind = Top.kind, f.at \in {"cmd", "run", "ran"} => Unfinished(f.line),
         SetTop(f), stop_state' \in 0 .. SHELL_STOP_COMMAND_SEQUENCE,
         stop_state' # 0 => f.at \in {"ran", "eol"}, ret' \in Statuses, UNCHANGED boot
  PROVE  ShellPart' /\ Top' = f /\ Running'
  <1>1. /\ stack \in Seq(Frames) /\ Len(stack) \in Nat \ {0} /\ Top = stack[Len(stack)]
        /\ DOMAIN stack = 1 .. Len(stack)
    BY TopFrame, StackDomain
  <1>2. stack' = [stack EXCEPT ![Len(stack)] = f] /\ Len(stack) \in 1 .. Len(stack)
    BY <1>1 DEF SetTop
  <1>3. /\ stack' \in Seq(Frames) /\ Len(stack') = Len(stack)
        /\ \A j \in 1 .. Len(stack) : stack'[j] = IF j = Len(stack) THEN f ELSE stack[j]
    BY <1>1, <1>2, ExceptSeq
  <1>4. DOMAIN stack' = 1 .. Len(stack) /\ stack' # <<>>
    BY <1>1, <1>3, StackDomain
  <1>5. Top' = f /\ Running'
    BY <1>1, <1>2, <1>3, <1>4 DEF Top, Last, Running
  <1>6. ShellTypeOK'
    <2>1. \A i \in 1 .. Len(stack') - 1 : stack'[i].at = "run"
      <3>1. SUFFICES ASSUME NEW i \in 1 .. Len(stack) - 1 PROVE stack'[i].at = "run"
        BY <1>3
      <3>2. Len(stack) \in Nat
        BY <1>1
      <3>3. i \in 1 .. Len(stack) /\ i # Len(stack)
        BY <3>2
      <3>4. stack[i].at = "run"
        BY DEF ShellPart, ShellTypeOK
      <3> QED
        BY <1>3, <3>3, <3>4
    <2>2. \A i \in 1 .. Len(stack') : stack'[i].at \in {"cmd", "run", "ran"} => Unfinished(stack'[i].line)
      BY <1>1, <1>3 DEF ShellPart, ShellTypeOK, Unfinished
    <2> QED
      BY <1>3, <2>1, <2>2 DEF ShellTypeOK, Unfinished
  <1>7. StopPending'
    BY <1>1, <1>3, <1>4, <1>5 DEF ShellPart, StopPending
  <1> QED
    BY <1>5, <1>6, <1>7 DEF ShellPart

\* ... while it runs no job.
LEMMA TopChanges ==
  ASSUME IfPart, ShellPart, Running, Top.at # "run",
         NEW f \in Frames, f.at # "run", f.kind = Top.kind, f.at \in {"cmd", "ran"} => Unfinished(f.line),
         SetTop(f), stop_state' \in 0 .. SHELL_STOP_COMMAND_SEQUENCE,
         stop_state' # 0 => f.at \in {"ran", "eol"}, ret' \in Statuses,
         UNCHANGED <<jobsAndDevs, bootVars>>
  PROVE  ShellPart' /\ IfPart'
  <1>1. ShellPart' /\ Top' = f /\ Running'
    BY StackTop DEF bootVars
  <1>2. IfTypeOK' /\ IfconfSoFar'
    BY DEF IfPart, IfTypeOK, IfconfSoFar, jobsAndDevs, jobVars, ifVars
  <1>3. Waiting'
    BY <1>1 DEF IfPart, Waiting, CmdRuns, At, jobsAndDevs, jobVars, ifVars, bootVars
  <1> QED
    BY <1>1, <1>2, <1>3 DEF IfPart

\* What runs ends, with no job, and the command that ran it has ended.
LEMMA TopReturns ==
  ASSUME IfPart, ShellPart, Running, Top.at # "run", NEW rc \in Statuses, EndFrame(rc),
         stop_state' \in 0 .. SHELL_STOP_COMMAND_SEQUENCE,
         stop_state' # 0 => Len(stack) # 1 \/ boot.at = "last",
         UNCHANGED <<jobsAndDevs, bootVars>>
  PROVE  ShellPart' /\ IfPart'
  <1> DEFINE below == Front(stack)
  <1>1. /\ stack \in Seq(Frames) /\ Len(stack) \in Nat \ {0} /\ Top = stack[Len(stack)]
        /\ DOMAIN stack = 1 .. Len(stack)
    BY TopFrame, StackDomain
  <1>2. /\ below \in Seq(Frames) /\ Len(below) = Len(stack) - 1
        /\ \A j \in 1 .. Len(below) : below[j] = stack[j]
    BY <1>1, SubSeqProperties DEF Front
  <1>3. ret' = rc /\ stack' = IF below = <<>> THEN <<>>
                              ELSE [below EXCEPT ![Len(below)].at = "ran", ![Len(below)].rc = rc]
    BY DEF EndFrame
  <1> HIDE DEF below
  <1>4. below = <<>> <=> Len(stack) = 1
    BY <1>1, <1>2, StackDomain
  <1>5. IfTypeOK' /\ IfconfSoFar'
    BY DEF IfPart, IfTypeOK, IfconfSoFar, jobsAndDevs, jobVars, ifVars
  <1>6. CASE below = <<>>
    <2>1. stack' = <<>> /\ stack' \in Seq(Frames) /\ Len(stack') = 0 /\ DOMAIN stack' = {}
      BY <1>3, <1>6, EmptySeq
    <2>2. ShellTypeOK'
      BY <1>3, <2>1 DEF ShellTypeOK
    <2>3. StopPending'
      BY <1>4, <1>6, <2>1 DEF StopPending, Running, bootVars
    <2>4. Waiting'
      BY <2>1 DEF IfPart, Waiting, CmdRuns, At, Running, jobsAndDevs, jobVars, ifVars, bootVars
    <2> QED
      BY <1>5, <2>2, <2>3, <2>4 DEF ShellPart, IfPart
  <1>7. CASE below # <<>>
    <2> DEFINE n == Len(below)
               f == [stack[n] EXCEPT !.at = "ran", !.rc = rc]
    <2>1. n \in Nat \ {0} /\ n \in 1 .. Len(stack) - 1 /\ n \in 1 .. Len(below)
      BY <1>1, <1>2, <1>7, StackDomain
    <2>2. stack[n] \in Frames /\ below[n] = stack[n]
      BY <1>1, <1>2, <2>1, ElementOfSeq
    <2>3. f \in Frames
      BY <2>2, Zenon DEF Frames
    <2>4. f.at = "ran" /\ f.line = stack[n].line /\ f.kind = stack[n].kind
      BY <2>2 DEF Frames
    <2>5. stack' = [below EXCEPT ![n] = f]
      <3>1. stack' = [below EXCEPT ![n].at = "ran", ![n].rc = rc]
        BY <1>3, <1>7
      <3>2. n \in DOMAIN below
        BY <1>2, <2>1, StackDomain
      <3> HIDE DEF n
      <3> QED
        BY <2>2, <3>1, <3>2
    <2> HIDE DEF f
    <2>6. /\ stack' \in Seq(Frames) /\ Len(stack') = n
          /\ \A j \in 1 .. n : stack'[j] = IF j = n THEN f ELSE below[j]
      BY <1>2, <2>1, <2>3, <2>5, ExceptSeq
    <2>7. DOMAIN stack' = 1 .. n /\ stack' # <<>>
      BY <2>1, <2>6, StackDomain
    <2>8. Top' = f /\ Running'
      BY <2>1, <2>6, <2>7 DEF Top, Last, Running
    <2>9. \A j \in 1 .. n : stack[j].at = "run"
      BY <2>1, <1>1 DEF ShellPart, ShellTypeOK
    <2>10. Unfinished(stack[n].line)
      BY <2>1, <2>9, <1>1 DEF ShellPart, ShellTypeOK, Unfinished
    <2>11. ShellTypeOK'
      <3> HIDE DEF n
      <3>1. \A i \in 1 .. Len(stack') - 1 : stack'[i].at = "run"
        BY <1>2, <2>1, <2>6, <2>9 DEF n
      <3>2. \A i \in 1 .. Len(stack') : stack'[i].at \in {"cmd", "run", "ran"} => Unfinished(stack'[i].line)
        <4>1. SUFFICES ASSUME NEW i \in 1 .. n PROVE Unfinished(stack'[i].line)
          BY <2>6
        <4>2. stack'[i].line = stack[i].line
          BY <1>2, <2>4, <2>6 DEF n
        <4>3. i \in 1 .. Len(stack) /\ stack[i].at = "run"
          BY <2>1, <2>9, <1>1
        <4>4. Unfinished(stack[i].line)
          BY <4>3 DEF ShellPart, ShellTypeOK, Unfinished
        <4> QED
          BY <4>2, <4>4 DEF Unfinished
      <3> QED
        BY <1>3, <2>6, <3>1, <3>2 DEF ShellTypeOK, Unfinished
    <2>12. StopPending'
      <3> HIDE DEF n
      <3>1. \A i \in 1 .. n : stack'[i].kind = stack[i].kind /\ i \in 1 .. Len(stack)
        <4>1. SUFFICES ASSUME NEW i \in 1 .. n
                       PROVE  stack'[i].kind = stack[i].kind /\ i \in 1 .. Len(stack)
          OBVIOUS
        <4>2. i \in 1 .. Len(stack) /\ i \in 1 .. Len(below)
          BY <1>1, <2>1 DEF n
        <4>3. below[i] = stack[i]
          BY <1>2, <4>2
        <4> QED
          BY <2>4, <2>6, <4>2, <4>3
      <3>2. UNCHANGED boot
        BY DEF bootVars
      <3> QED
        BY <1>1, <2>4, <2>7, <2>8, <3>1, <3>2 DEF ShellPart, StopPending
    <2>13. Waiting'
      BY <2>4, <2>8 DEF IfPart, Waiting, CmdRuns, At, jobsAndDevs, jobVars, ifVars, bootVars
    <2> QED
      BY <1>5, <2>11, <2>12, <2>13 DEF ShellPart, IfPart
  <1> QED
    BY <1>6, <1>7

\* No job runs while the interpreter is at a command or between two.
LEMMA NobodyWaits ==
  ASSUME IfPart, Running, Top.at # "run"
  PROVE  ~CmdRuns /\ phase # "step" /\ ifc.pc = "none"
  BY DEF IfPart, Waiting, CmdRuns, At

\* The steps of the interpreter within a line, and from one line to the next.
LEMMA LineSteps ==
  ASSUME IfPart, ShellPart, UNCHANGED bootVars,
         Skip \/ Simple \/ NoMemory \/ Exit \/ Goto \/ Sleep \/ AfterCommand \/ StartLine \/ LeaveShell
  PROVE  ShellPart' /\ IfPart' /\ UNCHANGED jobsAndDevs
  <1>1. Running /\ Top.at \in {"cmd", "ran", "bol"} /\ Top.at # "run"
    BY DEF Skip, Simple, NoMemory, Exit, Goto, Sleep, AfterCommand, StartLine, LeaveShell, At
  <1>2. Top \in Frames /\ (Top.at \in {"cmd", "run", "ran"} => Unfinished(Top.line))
    BY <1>1, TopFrame
  <1>3. stop_state \in 0 .. SHELL_STOP_COMMAND_SEQUENCE /\ ret \in Statuses
        /\ (Top.at \in {"cmd", "bol"} => stop_state = 0)
    BY <1>1 DEF ShellPart, ShellTypeOK, StopPending
  <1>4. 0 \in 0 .. SHELL_STOP_COMMAND_SEQUENCE /\ SHELL_STOP_COMMAND \in 0 .. SHELL_STOP_COMMAND_SEQUENCE
        /\ SHELL_STOP_COMMAND_SEQUENCE \in 0 .. SHELL_STOP_COMMAND_SEQUENCE
    BY DEF SHELL_STOP_COMMAND, SHELL_STOP_COMMAND_SEQUENCE
  <1>5. \A rc \in Statuses :
          /\ [Top EXCEPT !.at = "ran", !.rc = rc] \in Frames
          /\ [Top EXCEPT !.at = "ran", !.rc = rc].at = "ran"
          /\ [Top EXCEPT !.at = "ran", !.rc = rc].kind = Top.kind
          /\ [Top EXCEPT !.at = "ran", !.rc = rc].line = Top.line
    <2>1. \A rc \in Statuses : [Top EXCEPT !.at = "ran", !.rc = rc] \in Frames
      BY <1>2, Zenon DEF Frames
    <2> QED
      BY <1>2, <2>1 DEF Frames
  <1>6. ASSUME NEW rc \in Statuses, Ran(rc), Top.at = "cmd",
               stop_state' \in 0 .. SHELL_STOP_COMMAND_SEQUENCE, ret' = ret, UNCHANGED jobsAndDevs
        PROVE  ShellPart' /\ IfPart' /\ UNCHANGED jobsAndDevs
    <2> DEFINE f == [Top EXCEPT !.at = "ran", !.rc = rc]
    <2>1. f \in Frames /\ f.at = "ran" /\ f.kind = Top.kind /\ f.line = Top.line /\ SetTop(f)
      BY <1>5, <1>6 DEF Ran
    <2> HIDE DEF f
    <2> QED
      BY <1>1, <1>2, <1>3, <1>6, <2>1, TopChanges DEF Unfinished
  <1>7. CASE Skip
    <2> DEFINE f == [Top EXCEPT !.at = "ran"]
    <2>1. f \in Frames
      BY <1>2, Zenon DEF Frames
    <2>2. f.at = "ran" /\ f.kind = Top.kind /\ f.line = Top.line
      BY <1>2 DEF Frames
    <2>3. Top.at = "cmd" /\ SetTop(f) /\ UNCHANGED <<stop_state, ret, jobsAndDevs>>
      BY <1>7 DEF Skip, At
    <2> HIDE DEF f
    <2> QED
      BY <1>1, <1>2, <1>3, <2>1, <2>2, <2>3, TopChanges DEF Unfinished
  <1>8. CASE Simple
    BY <1>1, <1>3, <1>6, <1>8, CommandTyped DEF Simple, At
  <1>9. CASE NoMemory
    <2> DEFINE f == [Top EXCEPT !.at = "eol", !.rc = "ENOMEM"]
    <2>1. f \in Frames
      BY <1>2, CommandsAssumption, Zenon DEF Frames
    <2>2. f.at = "eol" /\ f.kind = Top.kind
      BY <1>2 DEF Frames
    <2>3. SetTop(f) /\ UNCHANGED <<stop_state, ret, jobsAndDevs>>
      BY <1>9 DEF NoMemory
    <2> HIDE DEF f
    <2> QED
      BY <1>1, <1>2, <1>3, <2>1, <2>2, <2>3, TopChanges
  <1>10. CASE Exit
    BY <1>1, <1>3, <1>4, <1>6, <1>10, CommandTyped DEF Exit, At
  <1>11. CASE Goto
    <2> DEFINE f == [Top EXCEPT !.at = "ran", !.rc = OK, !.n = Command.arg]
    <2>1. Command.arg \in Nat \ {0} /\ OK \in Statuses
      BY <1>1, <1>11, CommandTyped, PingAssumption DEF Goto, At
    <2>2. f \in Frames
      BY <1>2, <2>1, Zenon DEF Frames
    <2>3. f.at = "ran" /\ f.kind = Top.kind /\ f.line = Top.line
      BY <1>2 DEF Frames
    <2>4. Top.at = "cmd" /\ SetTop(f) /\ stop_state' = SHELL_STOP_COMMAND /\ UNCHANGED <<ret, jobsAndDevs>>
      BY <1>11 DEF Goto, At
    <2> HIDE DEF f
    <2> QED
      BY <1>1, <1>2, <1>3, <1>4, <2>2, <2>3, <2>4, TopChanges DEF Unfinished
  <1>12. CASE Sleep
    BY <1>1, <1>3, <1>6, <1>12, PingAssumption DEF Sleep, At
  <1>13. CASE AfterCommand
    <2>1. Top.at = "ran" /\ UNCHANGED <<ret, jobsAndDevs>> /\ Consume(SHELL_STOP_COMMAND)
      BY <1>13 DEF AfterCommand, At
    <2>2. stop_state' \in 0 .. SHELL_STOP_COMMAND_SEQUENCE /\ (~Stopped(SHELL_STOP_COMMAND) => stop_state' = 0)
      BY <1>3, <1>4, <2>1 DEF Consume, Stopped, SHELL_STOP_COMMAND, SHELL_STOP_COMMAND_SEQUENCE
    <2>3. CASE Stopped(SHELL_STOP_COMMAND) \/ Command.next = "end"
      <3> DEFINE f == [Top EXCEPT !.at = "eol"]
      <3>1. f \in Frames
        BY <1>2, Zenon DEF Frames
      <3>2. f.at = "eol" /\ f.kind = Top.kind
        BY <1>2 DEF Frames
      <3>3. SetTop(f)
        BY <1>13, <2>3 DEF AfterCommand
      <3> HIDE DEF f
      <3> QED
        BY <1>1, <1>3, <2>1, <2>2, <3>1, <3>2, <3>3, TopChanges
    <2>4. CASE ~(Stopped(SHELL_STOP_COMMAND) \/ Command.next = "end")
      <3> DEFINE f == [Top EXCEPT !.at = "cmd", !.line = Tail(Top.line), !.process = Process(Command.next, Top.rc)]
      <3>1. /\ Top.line \in Seq(Commands \cup {UserExit}) /\ Top.line # <<>>
            /\ Top.line[Len(Top.line)].next = "end"
        BY <1>2, <2>1 DEF Frames, Unfinished
      <3>2. /\ Tail(Top.line) \in Seq(Commands \cup {UserExit}) /\ Len(Tail(Top.line)) = Len(Top.line) - 1
            /\ \A i \in 1 .. Len(Tail(Top.line)) : Tail(Top.line)[i] = Top.line[i + 1]
            /\ Len(Top.line) \in Nat \ {0}
        BY <3>1, HeadTailProperties, EmptySeq
      <3>3. Len(Top.line) # 1
        BY <2>4, <3>1 DEF Command
      <3>4. Unfinished(Tail(Top.line))
        <4> DEFINE n == Len(Top.line)
                   m == Len(Tail(Top.line))
        <4>1. n \in Nat \ {0} /\ n # 1 /\ m = n - 1
          BY <3>2, <3>3
        <4>2. m \in 1 .. m /\ m + 1 = n /\ m # 0
          <5> HIDE DEF n, m
          <5> QED
            BY <4>1
        <4>3. Tail(Top.line)[Len(Tail(Top.line))] = Top.line[Len(Top.line)]
          BY <3>2, <4>2
        <4>4. Tail(Top.line) # <<>>
          BY <4>2, EmptySeq
        <4> QED
          BY <3>1, <4>3, <4>4 DEF Unfinished
      <3>5. Process(Command.next, Top.rc) \in BOOLEAN
        BY DEF Process
      <3>6. f \in Frames
        BY <1>2, <3>2, <3>5, Zenon DEF Frames
      <3>7. f.at = "cmd" /\ f.kind = Top.kind /\ f.line = Tail(Top.line)
        BY <1>2 DEF Frames
      <3>8. SetTop(f)
        BY <1>13, <2>4 DEF AfterCommand
      <3> HIDE DEF f
      <3> QED
        BY <1>1, <1>3, <2>1, <2>2, <2>4, <3>4, <3>6, <3>7, <3>8, TopChanges
    <2> QED
      BY <2>3, <2>4
  <1>14. CASE StartLine
    <2> DEFINE l == Top.lines[Top.n]
               f == [Top EXCEPT !.at = "cmd", !.line = l, !.n = Top.n + 1, !.process = TRUE, !.rc = OK]
    <2>1. Top.lines \in Seq(Lines) /\ Top.n \in 1 .. Len(Top.lines) /\ Top.n + 1 \in Nat \ {0}
      BY <1>2, <1>14 DEF StartLine, Frames, Scripts
    <2>2. l \in Lines
      BY <2>1, ElementOfSeq
    <2>3. l \in Seq(Commands) /\ Unfinished(l)
      BY <2>2 DEF Lines, Unfinished
    <2>4. l \in Seq(Commands \cup {UserExit})
      BY <2>3, SeqMonotonic
    <2>5. OK \in Statuses
      BY PingAssumption
    <2>6. SetTop(f) /\ Top.at = "bol" /\ UNCHANGED <<stop_state, ret, jobsAndDevs>>
      BY <1>14 DEF StartLine, At
    <2> HIDE DEF l
    <2>7. f \in Frames
      BY <1>2, <2>1, <2>4, <2>5, Zenon DEF Frames
    <2>8. f.at = "cmd" /\ f.kind = Top.kind /\ f.line = l
      BY <1>2 DEF Frames
    <2> HIDE DEF f
    <2> QED
      BY <1>1, <1>3, <2>3, <2>6, <2>7, <2>8, TopChanges
  <1>15. CASE LeaveShell
    <2> DEFINE f == [Top EXCEPT !.at = "cmd", !.process = TRUE, !.line = <<UserExit>>]
    <2>1. <<UserExit>> \in Seq(Commands \cup {UserExit}) /\ Len(<<UserExit>>) = 1
      OBVIOUS
    <2>2. Unfinished(<<UserExit>>)
      BY DEF Unfinished, UserExit
    <2>3. f \in Frames
      BY <1>2, <2>1, Zenon DEF Frames
    <2>4. f.at = "cmd" /\ f.kind = Top.kind /\ f.line = <<UserExit>>
      BY <1>2 DEF Frames
    <2>5. SetTop(f) /\ Top.at = "bol" /\ UNCHANGED <<stop_state, ret, jobsAndDevs>>
      BY <1>15 DEF LeaveShell, At
    <2> HIDE DEF f
    <2> QED
      BY <1>1, <1>3, <2>2, <2>3, <2>4, <2>5, TopChanges
  <1> QED
    BY <1>7, <1>8, <1>9, <1>10, <1>11, <1>12, <1>13, <1>14, <1>15

\* A script, a shell or a scriptlet ends, or goes on with its next line.
LEMMA EndSteps ==
  ASSUME IfPart, ShellPart, EndScript \/ EndLine, UNCHANGED bootVars
  PROVE  ShellPart' /\ IfPart' /\ UNCHANGED jobsAndDevs
  <1>1. Running /\ Top.at \in {"bol", "eol"} /\ Top.at # "run" /\ UNCHANGED jobsAndDevs
    BY DEF EndScript, EndLine, At
  <1>2. /\ Top \in Frames /\ Top.rc \in Statuses
        /\ Len(stack) # 1 \/ boot.at = "exec" => Top.kind = "script"
        /\ boot.at \in {"last", "exec"}
    BY <1>1, TopFrame DEF Frames, IfPart, Waiting
  <1>3. stop_state \in 0 .. SHELL_STOP_COMMAND_SEQUENCE /\ ret \in Statuses
        /\ (Top.at = "bol" => stop_state = 0)
    BY <1>1 DEF ShellPart, ShellTypeOK, StopPending
  <1>4. CASE EndScript
    BY <1>1, <1>2, <1>3, <1>4, TopReturns DEF EndScript, At
  <1>5. CASE EndLine /\ Top.kind = "scriptlet"
    BY <1>1, <1>2, <1>3, <1>5, TopReturns DEF EndLine
  <1>6. CASE EndLine /\ Top.kind # "scriptlet"
    <2>1. stop_state' = 0
      BY <1>3, <1>6 DEF EndLine, Consume, SHELL_STOP_COMMAND_SEQUENCE
    <2>2. CASE EndFrame(Top.rc)
      BY <1>1, <1>2, <2>1, <2>2, TopReturns DEF SHELL_STOP_COMMAND_SEQUENCE
    <2>3. CASE SetTop([Top EXCEPT !.at = "bol"]) /\ UNCHANGED ret
      <3> DEFINE f == [Top EXCEPT !.at = "bol"]
      <3>1. f \in Frames
        BY <1>2, Zenon DEF Frames
      <3>2. f.at = "bol" /\ f.kind = Top.kind
        BY <1>2 DEF Frames
      <3>3. SetTop(f) /\ ret' = ret
        BY <2>3
      <3> HIDE DEF f
      <3> QED
        BY <1>1, <1>3, <2>1, <3>1, <3>2, <3>3, TopChanges DEF SHELL_STOP_COMMAND_SEQUENCE
    <2> QED
      BY <1>6, <2>2, <2>3 DEF EndLine
  <1> QED
    BY <1>4, <1>5, <1>6

\* A script runs another one.
LEMMA ImageRuns ==
  ASSUME IfPart, ShellPart, RunImage, UNCHANGED bootVars
  PROVE  ShellPart' /\ IfPart' /\ UNCHANGED jobsAndDevs
  <1> DEFINE n == Len(stack)
             f == [stack[n] EXCEPT !.at = "run"]
             g == Frame("script", Command.arg)
             s == [stack EXCEPT ![n] = f]
  <1>1. Running /\ Top.at = "cmd" /\ Command.op = "image" /\ UNCHANGED <<stop_state, ret, jobsAndDevs>>
    BY DEF RunImage, At
  <1>2. /\ stack \in Seq(Frames) /\ n \in Nat \ {0} /\ Top = stack[n] /\ Top \in Frames
        /\ DOMAIN stack = 1 .. n /\ n \in 1 .. n /\ Unfinished(Top.line) /\ stop_state = 0
    BY <1>1, TopFrame, StackDomain
  <1>3. f \in Frames
    BY <1>2, Zenon DEF Frames
  <1>4. f.at = "run" /\ f.kind = stack[n].kind /\ f.line = stack[n].line
    BY <1>2 DEF Frames
  <1>5. g \in Frames /\ g.at = "bol" /\ g.kind = "script"
    BY <1>1, CommandTyped, NewFrame
  <1>6. stack' = Append(s, g)
    BY DEF RunImage
  <1> HIDE DEF f, g
  <1>7. s \in Seq(Frames) /\ Len(s) = n /\ \A j \in 1 .. n : s[j] = IF j = n THEN f ELSE stack[j]
    BY <1>2, <1>3, ExceptSeq
  <1> HIDE DEF s
  <1>8. /\ stack' \in Seq(Frames) /\ Len(stack') = n + 1 /\ stack'[n + 1] = g /\ stack' # <<>>
        /\ \A j \in 1 .. n : stack'[j] = IF j = n THEN f ELSE stack[j]
    BY <1>5, <1>6, <1>7, AppendProperties
  <1> DEFINE m == n + 1
  <1>9. m \in Nat \ {0} /\ DOMAIN stack' = 1 .. m /\ Top' = stack'[m] /\ Running'
        /\ \A i \in 1 .. m : i = m \/ i \in 1 .. n
    <2>1. n \in Nat \ {0} /\ Len(stack') = n + 1 /\ stack' \in Seq(Frames) /\ stack' # <<>>
      BY <1>2, <1>8
    <2>2. Len(stack') = m /\ Top' = stack'[m] /\ Running'
      BY <2>1 DEF Top, Last, Running
    <2>3. DOMAIN stack' = 1 .. m
      BY <2>1, <2>2, StackDomain
    <2> HIDE DEF n
    <2>4. m \in Nat \ {0} /\ \A i \in 1 .. m : i = m \/ i \in 1 .. n
      BY <2>1
    <2> QED
      BY <2>2, <2>3, <2>4
  <1>10. \A i \in 1 .. n : stack'[i].at = "run" /\ stack'[i].kind = stack[i].kind /\ Unfinished(stack'[i].line)
    <2>1. SUFFICES ASSUME NEW i \in 1 .. n
                   PROVE  stack'[i].at = "run" /\ stack'[i].kind = stack[i].kind /\ Unfinished(stack'[i].line)
      OBVIOUS
    <2>2. CASE i = n
      BY <1>2, <1>4, <1>8, <2>2
    <2>3. CASE i # n
      <3>1. i \in 1 .. n - 1
        <4>1. n \in Nat \ {0}
          BY <1>2
        <4> HIDE DEF n
        <4> QED
          BY <2>3, <4>1
      <3>2. stack[i].at = "run" /\ Unfinished(stack[i].line)
        BY <1>2, <3>1 DEF ShellPart, ShellTypeOK, Unfinished
      <3> QED
        BY <1>8, <2>3, <3>2
    <2> QED
      BY <2>2, <2>3
  <1>11. stack'[m] = g /\ Len(stack') = m /\ m - 1 = n
    <2>1. n \in Nat \ {0}
      BY <1>2
    <2>2. m - 1 = n
      <3> HIDE DEF n
      <3> QED
        BY <2>1
    <2> QED
      BY <1>8, <2>2
  <1> HIDE DEF m, n
  <1>12. ShellTypeOK'
    <2>1. \A i \in 1 .. Len(stack') - 1 : stack'[i].at = "run"
      BY <1>10, <1>11
    <2>2. \A i \in 1 .. Len(stack') : stack'[i].at \in {"cmd", "run", "ran"} => Unfinished(stack'[i].line)
      BY <1>5, <1>9, <1>10, <1>11
    <2> QED
      BY <1>1, <1>8, <2>1, <2>2 DEF ShellPart, ShellTypeOK, Unfinished
  <1>13. StopPending'
    BY <1>1, <1>2, <1>5, <1>9, <1>10, <1>11 DEF ShellPart, StopPending, bootVars
  <1>14. IfTypeOK' /\ IfconfSoFar'
    BY <1>1 DEF IfPart, IfTypeOK, IfconfSoFar, jobsAndDevs, jobVars, ifVars
  <1>15. Waiting'
    BY <1>1, <1>5, <1>9, <1>11 DEF IfPart, Waiting, CmdRuns, At, jobsAndDevs, jobVars, ifVars, bootVars
  <1> QED
    BY <1>1, <1>12, <1>13, <1>14, <1>15 DEF ShellPart, IfPart

\* A ping or an interface command begins, ...
LEMMA JobRuns ==
  ASSUME JobPart, IfPart, ShellPart, RunJob, UNCHANGED bootVars
  PROVE  JobPart' /\ IfPart' /\ ShellPart' /\ UNCHANGED dev
  <1> DEFINE f == [Top EXCEPT !.at = "run"]
  <1>1. Running /\ Top.at = "cmd" /\ Top.at # "run" /\ Command.op \in JobCommands
        /\ UNCHANGED <<stop_state, ret, dev, ct, ifc, boot>> /\ SetTop(f)
    BY DEF RunJob, At, bootVars
  <1>2. Top \in Frames /\ Unfinished(Top.line) /\ stop_state = 0 /\ ret \in Statuses
    BY <1>1, TopFrame DEF ShellPart, ShellTypeOK
  <1>3. f \in Frames
    BY <1>2, Zenon DEF Frames
  <1>4. f.at = "run" /\ f.kind = Top.kind /\ f.line = Top.line
    BY <1>2 DEF Frames
  <1> HIDE DEF f
  <1>5. ShellPart' /\ Top' = f /\ Running'
    BY <1>1, <1>2, <1>3, <1>4, StackTop DEF SHELL_STOP_COMMAND_SEQUENCE
  <1>6. ~CmdRuns /\ phase # "step" /\ ifc.pc = "none" /\ phase \in {"idle", "returned"}
    BY <1>1, NobodyWaits DEF JobPart, PingTypeOK
  <1>7. boot.at \in {"last", "exec"}
    BY <1>1 DEF IfPart, Waiting
  <1>8. /\ OK \in Statuses /\ "ENODEV" \in Statuses /\ "ENODEV" # OK /\ "EPING" \in Statuses
        /\ EINPROGRESS \in Statuses /\ <<>> \in Seq(Names) /\ <<"host">> \in Seq(Names)
        /\ Devs \in Seq(Names) /\ <<"host">> # <<>>
    BY PingAssumption, IfAssumption, EmptySeq DEF OK
  <1>9. CASE Command.op = "ping"
    <2>1. cmd' = [name |-> "ping", all |-> <<>>, devs |-> <<"host">>, rc |-> OK]
      BY <1>9 DEF RunJob
    <2>2. CASE CreatePinger(Command.arg)
      <3>1. Command.arg \in Nat
        BY <1>1, <1>9, CommandTyped
      <3>2. JobPart'
        BY <2>2, <3>1, PingBegins
      <3>3. job' = "pinger" /\ monojob_rc' = EINPROGRESS /\ phase' = "step" /\ result' = result
        BY <2>2 DEF CreatePinger, BeginWait
      <3>4. IfTypeOK'
        BY <1>1, <1>8, <2>1, <3>3 DEF IfPart, IfTypeOK
      <3>5. IfconfSoFar'
        BY <1>1, <1>6, <2>1 DEF IfconfSoFar
      <3>6. Waiting'
        BY <1>1, <1>4, <1>5, <1>6, <1>7, <1>8, <2>1, <3>3 DEF Waiting, CmdRuns, At
      <3> QED
        BY <1>1, <1>5, <3>2, <3>4, <3>5, <3>6 DEF IfPart
    <2>3. CASE PingFails
      <3>1. /\ phase' = "returned" /\ result' = "EPING"
            /\ UNCHANGED <<monojob_rc, job, wait, jobEnd, pingVars>>
        BY <2>3 DEF PingFails
      <3>2. JobPart'
        BY <1>6, <3>1, JobRests
      <3>3. IfTypeOK'
        BY <1>1, <1>8, <2>1, <3>1 DEF IfPart, IfTypeOK
      <3>4. IfconfSoFar'
        BY <1>1, <1>6, <2>1 DEF IfconfSoFar
      <3>5. Waiting'
        BY <1>1, <1>4, <1>5, <1>6, <1>7, <2>1, <3>1 DEF Waiting, CmdRuns, At
      <3> QED
        BY <1>1, <1>5, <3>2, <3>3, <3>4, <3>5 DEF IfPart
    <2> QED
      BY <1>9, <2>2, <2>3 DEF RunJob
  <1>10. CASE Command.op # "ping"
    <2> DEFINE all == IF Command.arg = <<>> THEN Devs ELSE Command.arg
    <2>1. /\ cmd' = [name |-> Command.op, all |-> all, devs |-> all, rc |-> "ENODEV"]
          /\ UNCHANGED <<jobVars, pingVars>>
      BY <1>10 DEF RunJob, StartIf
    <2>2. all \in Seq(Names) /\ Command.op \in {"ifopen", "ifclose", "ifstat", "ifconf"}
      BY <1>1, <1>8, <1>10, CommandTyped DEF JobCommands
    <2> HIDE DEF all
    <2>3. UNCHANGED <<phase, monojob_rc, result, job, wait, jobEnd, pingVars>>
      BY <2>1 DEF jobVars
    <2>4. JobPart'
      BY <1>6, <2>3, JobRests
    <2>5. IfTypeOK'
      BY <1>1, <1>8, <2>1, <2>2, <2>3 DEF IfPart, IfTypeOK
    <2>6. /\ cmd'.devs = cmd'.all /\ cmd'.rc # OK /\ ifc'.pc = "none"
          /\ cmd'.name \in {"ifopen", "ifclose", "ifstat", "ifconf"}
      BY <1>1, <1>6, <1>8, <2>1, <2>2
    <2>7. IfconfSoFar'
      BY <2>6 DEF IfconfSoFar
    <2>8. Waiting'
      BY <1>1, <1>4, <1>5, <1>6, <1>7, <2>3, <2>6 DEF Waiting, CmdRuns, At
    <2> QED
      BY <1>1, <1>5, <2>4, <2>5, <2>7, <2>8 DEF IfPart
  <1> QED
    BY <1>9, <1>10

\* ... and ends.
LEMMA JobsEnd ==
  ASSUME JobPart, IfPart, ShellPart, JobEnded, UNCHANGED bootVars
  PROVE  JobPart' /\ IfPart' /\ ShellPart' /\ UNCHANGED dev
  <1> DEFINE f == [Top EXCEPT !.at = "ran", !.rc = cmd.rc]
  <1>1. /\ Running /\ Top.at = "run" /\ CmdRuns /\ cmd.devs = <<>> /\ cmd' = NoCmd /\ SetTop(f)
        /\ UNCHANGED <<stop_state, ret, jobVars, pingVars, dev, ct, ifc, boot>>
    BY DEF JobEnded, At, Ran, bootVars
  <1>2. Top \in Frames /\ Unfinished(Top.line) /\ stop_state = 0 /\ ret \in Statuses /\ cmd.rc \in Statuses
    BY <1>1, TopFrame DEF ShellPart, ShellTypeOK, IfPart, IfTypeOK
  <1>3. f \in Frames
    BY <1>2, Zenon DEF Frames
  <1>4. f.at = "ran" /\ f.kind = Top.kind /\ f.line = Top.line
    BY <1>2 DEF Frames
  <1> HIDE DEF f
  <1>5. ShellPart' /\ Top' = f /\ Running'
    BY <1>1, <1>2, <1>3, <1>4, StackTop DEF SHELL_STOP_COMMAND_SEQUENCE
  <1>6. phase # "step" /\ ifc.pc = "none" /\ phase \in {"idle", "returned"} /\ boot.at \in {"last", "exec"}
    BY <1>1 DEF IfPart, Waiting, JobPart, PingTypeOK
  <1>7. UNCHANGED <<phase, monojob_rc, result, job, wait, jobEnd, pingVars>>
    BY <1>1 DEF jobVars
  <1>8. JobPart'
    BY <1>6, <1>7, JobRests
  <1>9. cmd' = [name |-> "none", all |-> <<>>, devs |-> <<>>, rc |-> OK] /\ <<>> \in Seq(Names) /\ OK \in Statuses
    BY <1>1, EmptySeq, PingAssumption DEF NoCmd
  <1>10. IfTypeOK'
    BY <1>1, <1>7, <1>9 DEF IfPart, IfTypeOK
  <1>11. IfconfSoFar'
    BY <1>1, <1>6, <1>9 DEF IfconfSoFar
  <1>12. Waiting'
    BY <1>1, <1>4, <1>5, <1>6, <1>7, <1>9 DEF Waiting, CmdRuns, At
  <1> QED
    BY <1>1, <1>5, <1>8, <1>10, <1>11, <1>12 DEF IfPart

\* What does not touch the job keeps the account of it.
LEMMA JobStays ==
  ASSUME JobPart, UNCHANGED <<jobVars, pingVars>>
  PROVE  JobPart'
  BY DEF jobVars, pingVars, JobPart, PingTypeOK, OnlyThePingers, PingSoFar, PingEnded, Pinging,
      account, AccountFor, Sent, NoneAnswered

\* Every step of the interpreter; none is taken while a device is tried.
LEMMA ShellSteps ==
  ASSUME JobPart, IfPart, ShellPart, ShellStep, UNCHANGED bootVars
  PROVE  JobPart' /\ IfPart' /\ ShellPart' /\ UNCHANGED dev /\ boot.at \in {"last", "exec"}
  <1>1. Running /\ boot.at \in {"last", "exec"}
    BY DEF ShellStep, Skip, Simple, NoMemory, Exit, Goto, Sleep, RunImage, RunJob, JobEnded, AfterCommand,
           StartLine, EndScript, LeaveShell, EndLine, At, IfPart, Waiting
  <1>2. CASE Skip \/ Simple \/ NoMemory \/ Exit \/ Goto \/ Sleep \/ AfterCommand \/ StartLine \/ LeaveShell
    BY <1>1, <1>2, LineSteps, JobStays DEF jobsAndDevs, ifVars
  <1>3. CASE EndScript \/ EndLine
    BY <1>1, <1>3, EndSteps, JobStays DEF jobsAndDevs, ifVars
  <1>4. CASE RunImage
    BY <1>1, <1>4, ImageRuns, JobStays DEF jobsAndDevs, ifVars
  <1>5. CASE RunJob
    BY <1>1, <1>5, JobRuns
  <1>6. CASE JobEnded
    BY <1>1, <1>6, JobsEnd
  <1> QED
    BY <1>2, <1>3, <1>4, <1>5, <1>6 DEF ShellStep

-----------------------------------------------------------------------------
(***************************************************************************)
(* Booting.                                                                *)
(***************************************************************************)
\* What the invariant says of the boots, and of the SAN device and the devices.
BootPart == BootTypeOK /\ SanHooked /\ OneDeviceOpen

BootType ==
  [at : {"start", "next", "conf", "choose", "hook", "describe", "load", "exec", "san",
         "unhook", "last", "done"},
   runs : {"none", "script", "scriptlet", "shell"}, d : DevSet \cup {"none"},
   devs : Seq(DevSet), rc : Statuses]

\* The devices are listed in the order they are tried.
LEMMA DevicesListed == Devs \in Seq(DevSet)
  <1>1. Devs \in Seq(Names) /\ DOMAIN Devs = 1 .. Len(Devs) /\ Len(Devs) \in Nat
    BY IfAssumption, LenProperties
  <1>2. \A i \in 1 .. Len(Devs) : Devs[i] \in DevSet
    BY <1>1 DEF DevSet, ToSet
  <1>3. Devs = [i \in 1 .. Len(Devs) |-> Devs[i]]
    BY <1>1
  <1>4. [i \in 1 .. Len(Devs) |-> Devs[i]] \in Seq(DevSet)
    BY <1>1, <1>2, IsASeq
  <1> QED
    BY <1>3, <1>4

\* Between two things to run: no command runs, and nothing that is configured.
LEMMA NothingRuns ==
  ASSUME IfPart, ShellPart, ~Running
  PROVE  /\ ~CmdRuns /\ (boot.at # "conf" => ifc.pc = "none" /\ phase # "step")
         /\ stack = <<>> /\ (stop_state # 0 => boot.at \in {"last", "done"}) /\ ret \in Statuses
  BY DEF IfPart, ShellPart, Waiting, StopPending, ShellTypeOK, CmdRuns, At, Running

\* The boot goes on, and runs nothing, ...
LEMMA BootGoes ==
  ASSUME IfPart, ShellPart, ~Running, UNCHANGED <<stack, stop_state, ret, jobsAndDevs>>,
         boot.at # "conf", boot.at \in {"last", "done"} => boot'.at \in {"last", "done"}
  PROVE  IfPart' /\ ShellPart'
  <1>1. ~CmdRuns /\ ifc.pc = "none" /\ phase # "step" /\ stack = <<>>
        /\ (stop_state # 0 => boot.at \in {"last", "done"})
    BY NothingRuns
  <1>2. ShellTypeOK'
    BY DEF ShellPart, ShellTypeOK
  <1>3. StopPending'
    BY <1>1 DEF StopPending, Running
  <1>4. IfTypeOK' /\ IfconfSoFar'
    BY DEF IfPart, IfTypeOK, IfconfSoFar, jobsAndDevs, jobVars, ifVars
  <1>5. Waiting'
    BY <1>1 DEF Waiting, CmdRuns, At, Running, jobsAndDevs, jobVars, ifVars
  <1> QED
    BY <1>2, <1>3, <1>4, <1>5 DEF IfPart, ShellPart

\* ... or something.
LEMMA BootRuns ==
  ASSUME IfPart, ShellPart, ~Running, UNCHANGED <<stop_state, ret, jobsAndDevs>>,
         NEW kind \in {"script", "shell", "scriptlet"}, NEW lines \in Scripts, Run(kind, lines),
         boot.at \notin {"conf", "last", "done"}, boot'.at \in {"last", "exec"},
         boot'.at = "exec" => kind = "script"
  PROVE  IfPart' /\ ShellPart'
  <1> DEFINE g == Frame(kind, lines)
  <1>1. /\ ~CmdRuns /\ ifc.pc = "none" /\ phase # "step" /\ stack = <<>> /\ stop_state = 0
        /\ ret \in Statuses
    BY NothingRuns
  <1>2. g \in Frames /\ g.at = "bol" /\ g.kind = kind
    BY NewFrame
  <1>3. stack' = Append(stack, g)
    BY DEF Run
  <1> HIDE DEF g
  <1>4. /\ stack' \in Seq(Frames) /\ Len(stack') = 1 /\ stack'[1] = g /\ stack' # <<>>
        /\ DOMAIN stack' = 1 .. 1
    <2>1. <<>> \in Seq(Frames) /\ Len(<<>>) = 0
      BY EmptySeq
    <2>2. Append(<<>>, g) \in Seq(Frames) /\ Len(Append(<<>>, g)) = 1 /\ Append(<<>>, g)[1] = g
          /\ Append(<<>>, g) # <<>>
      BY <1>2, <2>1, AppendProperties
    <2> QED
      BY <1>1, <1>3, <2>2, StackDomain
  <1>5. Top' = g /\ Running'
    BY <1>4 DEF Top, Last, Running
  <1>6. ShellTypeOK'
    BY <1>1, <1>2, <1>4 DEF ShellPart, ShellTypeOK, SHELL_STOP_COMMAND_SEQUENCE
  <1>7. StopPending'
    BY <1>1, <1>2, <1>4, <1>5 DEF StopPending
  <1>8. IfTypeOK' /\ IfconfSoFar'
    BY DEF IfPart, IfTypeOK, IfconfSoFar, jobsAndDevs, jobVars, ifVars
  <1>9. Waiting'
    BY <1>1, <1>2, <1>5 DEF Waiting, CmdRuns, At, jobsAndDevs, jobVars, ifVars
  <1> QED
    BY <1>6, <1>7, <1>8, <1>9 DEF IfPart, ShellPart

\* The boot of one device after the other.
LEMMA BootFields ==
  ASSUME BootPart
  PROVE  /\ boot \in BootType
         /\ {env.image, env.typed, env.scriptlet, env.file} \subseteq Scripts
         /\ san \in BOOLEAN /\ OK \in Statuses /\ OK # "EOPEN"
  BY PingAssumption DEF BootPart, BootTypeOK, BootType, OK

\* What a step that keeps env and the devices has to keep besides.
LEMMA BootKept ==
  ASSUME BootPart, UNCHANGED <<env, dev>>, boot' \in BootType, san' \in BOOLEAN,
         san' => env.root,
         boot'.at \in {"hook", "describe"} => env.root,
         san' /\ boot'.at \in {"start", "next", "conf", "choose", "hook", "last", "done"} => env.keep,
         boot'.at # "conf",
         boot'.at \in {"choose", "hook", "describe", "load"} =>
           boot.at \in {"conf", "choose", "hook", "describe", "load"} /\ boot'.d = boot.d
  PROVE  BootPart'
  <1>1. BootTypeOK'
    BY DEF BootPart, BootTypeOK, BootType
  <1>2. SanHooked'
    BY DEF SanHooked
  <1>3. OneDeviceOpen'
    BY DEF BootPart, OneDeviceOpen
  <1> QED
    BY <1>1, <1>2, <1>3 DEF BootPart

\* Where the boot goes.
LEMMA Gone ==
  ASSUME NEW at \in {"start", "next", "conf", "choose", "hook", "describe", "load", "exec", "san",
                     "unhook", "last", "done"},
         boot \in BootType
  PROVE  /\ Go(at) => boot' \in BootType /\ boot'.at = at /\ boot'.d = boot.d
         /\ \A rc \in Statuses : GoWith(at, rc) => boot' \in BootType /\ boot'.at = at /\ boot'.d = boot.d
         /\ \A kind \in {"script", "shell", "scriptlet"} : \A lines :
              RunLast(kind, lines) => boot' \in BootType /\ boot'.at = "last" /\ Run(kind, lines)
  BY DEF Go, GoWith, RunLast, BootType

\* Every step of a boot.
LEMMA BootSteps ==
  ASSUME JobPart, IfPart, ShellPart, BootPart, BootStep
  PROVE  JobPart' /\ IfPart' /\ ShellPart' /\ BootPart'
  <1>1. /\ boot \in BootType /\ {env.image, env.typed, env.scriptlet, env.file} \subseteq Scripts
        /\ san \in BOOLEAN /\ OK \in Statuses
    BY BootFields
  <1>2. {"EOPEN", "ENOTSUP", "ENOENT", "ESAN", "EDESCRIBE", "EDOWNLOAD", "ESANBOOT"} \subseteq Statuses
    BY IfAssumption, SetupsAssumption
  <1>3. ~Running
    BY DEF BootStep, Main, NoMoreDevices, MainEnds, SkipDevice, OpenNext, ConfigureDevice, DeviceConfigured, Choose, Hook,
           Describe, Download, ImageEnds, SanBoot, Unhook, BootAt
  <1>4. stack = <<>> /\ ret \in Statuses
    BY <1>3, NothingRuns
  <1>5. ASSUME UNCHANGED <<env, shellVars, jobsAndDevs>>, boot' \in BootType,
               boot.at # "conf", boot.at \in {"last", "done"} => boot'.at \in {"last", "done"},
               san' \in BOOLEAN, san' => env.root,
               boot'.at \in {"hook", "describe"} => env.root,
               san' /\ boot'.at \in {"start", "next", "conf", "choose", "hook", "last", "done"} => env.keep,
               boot'.at # "conf",
               boot'.at \in {"choose", "hook", "describe", "load"} =>
                 boot.at \in {"conf", "choose", "hook", "describe", "load"} /\ boot'.d = boot.d
        PROVE  JobPart' /\ IfPart' /\ ShellPart' /\ BootPart'
    <2>1. UNCHANGED <<stack, stop_state, ret, jobVars, pingVars, dev>>
      BY <1>5 DEF shellVars, jobsAndDevs, ifVars
    <2> QED
      BY <1>3, <1>5, <2>1, BootGoes, BootKept, JobStays
  <1>6. ASSUME NEW kind \in {"script", "shell", "scriptlet"}, NEW lines \in Scripts, Run(kind, lines),
               UNCHANGED <<env, san, stop_state, ret, jobsAndDevs>>, boot' \in BootType,
               boot.at \in {"start", "next", "load"}, boot'.at \in {"last", "exec"},
               boot'.at = "exec" => kind = "script" /\ boot.at = "load", boot'.at = "last" => boot.at # "load"
        PROVE  JobPart' /\ IfPart' /\ ShellPart' /\ BootPart'
    <2>1. JobPart' /\ UNCHANGED dev
      BY <1>6, JobStays DEF jobsAndDevs, ifVars
    <2>2. IfPart' /\ ShellPart'
      BY <1>3, <1>6, BootRuns
    <2>3. BootPart'
      BY <1>1, <1>6, <2>1, BootKept DEF BootPart, SanHooked
    <2> QED
      BY <2>1, <2>2, <2>3
  <1>7. CASE Main
    <2>1. boot.at = "start" /\ UNCHANGED <<env, san, stop_state, ret, ran, jobsAndDevs>>
      BY <1>7 DEF Main, BootAt
    <2>2. ASSUME NEW kind \in {"script", "shell", "scriptlet"}, NEW lines \in Scripts, RunLast(kind, lines)
          PROVE  JobPart' /\ IfPart' /\ ShellPart' /\ BootPart'
      BY <1>1, <1>6, <2>1, <2>2, Gone
    <2>3. CASE boot' = [boot EXCEPT !.at = "next", !.devs = Devs] /\ UNCHANGED stack
      <3>1. boot' \in BootType /\ boot'.at = "next"
        BY <1>1, <2>3, DevicesListed DEF BootType
      <3> QED
        BY <1>1, <1>5, <2>1, <2>3, <3>1 DEF shellVars, BootPart, SanHooked, Main
    <2> QED
      BY <1>1, <1>7, <2>2, <2>3 DEF Main
  <1>8. CASE NoMoreDevices
    <2>1. boot.at = "next" /\ UNCHANGED <<env, san, stop_state, ret, ran, jobsAndDevs>>
      BY <1>8 DEF NoMoreDevices, BootAt
    <2>2. CASE RunLast("shell", env.typed)
      BY <1>1, <1>6, <2>1, <2>2, Gone
    <2>3. CASE Go("done") /\ UNCHANGED stack
      <3>1. boot' \in BootType /\ boot'.at = "done" /\ boot'.d = boot.d
        BY <1>1, <2>3, Gone
      <3> QED
        BY <1>1, <1>5, <2>1, <2>3, <3>1 DEF shellVars, BootPart, SanHooked
    <2> QED
      BY <1>8, <2>2, <2>3 DEF NoMoreDevices
  <1>9. CASE MainEnds
    <2>1. boot.at = "last" /\ GoWith("done", ret) /\ UNCHANGED <<env, san, shellVars, jobsAndDevs>>
      BY <1>9 DEF MainEnds, BootAt
    <2>2. boot' \in BootType /\ boot'.at = "done" /\ boot'.d = boot.d
      BY <1>1, <1>4, <2>1, Gone
    <2> QED
      BY <1>1, <1>5, <2>1, <2>2 DEF BootPart, SanHooked
  <1>10. CASE Choose
    <2>1. boot.at = "choose" /\ UNCHANGED <<env, san, shellVars, jobsAndDevs>>
      BY <1>10 DEF Choose, BootAt
    <2>2. boot' \in BootType /\ boot'.d = boot.d /\ boot'.at \in {"next", "hook", "load"}
          /\ (boot'.at = "hook" => env.root)
      BY <1>1, <1>2, <1>10, Gone DEF Choose
    <2> QED
      BY <1>1, <1>5, <2>1, <2>2 DEF BootPart, SanHooked
  <1>11. CASE Hook
    <2>1. boot.at = "hook" /\ UNCHANGED <<env, shellVars, jobsAndDevs>>
      BY <1>11 DEF Hook, BootAt
    <2>2. CASE san' = TRUE /\ Go("describe")
      <3>1. boot' \in BootType /\ boot'.d = boot.d /\ boot'.at = "describe"
        BY <1>1, <2>2, Gone
      <3> QED
        BY <1>5, <2>1, <2>2, <3>1 DEF BootPart, SanHooked
    <2>3. CASE GoWith("next", "ESAN") /\ UNCHANGED san
      <3>1. boot' \in BootType /\ boot'.d = boot.d /\ boot'.at = "next"
        BY <1>1, <1>2, <2>3, Gone
      <3> QED
        BY <1>1, <1>5, <2>1, <2>3, <3>1 DEF BootPart, SanHooked
    <2> QED
      BY <1>11, <2>2, <2>3 DEF Hook
  <1>12. CASE Describe
    <2>1. boot.at = "describe" /\ UNCHANGED <<env, san, shellVars, jobsAndDevs>>
      BY <1>12 DEF Describe, BootAt
    <2>2. boot' \in BootType /\ boot'.d = boot.d /\ boot'.at \in {"load", "unhook"}
      BY <1>1, <1>2, <1>12, Gone DEF Describe, DescribeFails
    <2> QED
      BY <1>1, <1>5, <2>1, <2>2 DEF BootPart, SanHooked
  <1>13. CASE Download
    <2>1. boot.at = "load" /\ UNCHANGED <<env, san, stop_state, ret, ran, jobsAndDevs>>
      BY <1>13 DEF Download, BootAt
    <2>2. ASSUME UNCHANGED stack, boot' \in BootType, boot'.at \in {"san", "unhook"}
          PROVE  JobPart' /\ IfPart' /\ ShellPart' /\ BootPart'
      BY <1>1, <1>5, <2>1, <2>2 DEF shellVars, BootPart, SanHooked, Download
    <2>3. CASE GoWith("san", OK) /\ UNCHANGED stack
      BY <1>1, <2>2, <2>3, Gone
    <2>4. CASE GoWith("unhook", "EDOWNLOAD") /\ UNCHANGED stack
      BY <1>1, <1>2, <2>2, <2>4, Gone
    <2>5. CASE Run("script", env.file) /\ Go("exec")
      BY <1>1, <1>6, <2>1, <2>5, Gone
    <2> QED
      BY <1>13, <2>3, <2>4, <2>5 DEF Download
  <1>14. CASE ImageEnds
    <2>1. boot.at = "exec" /\ GoWith("san", ret) /\ UNCHANGED <<env, san, shellVars, jobsAndDevs>>
      BY <1>14 DEF ImageEnds, BootAt
    <2>2. boot' \in BootType /\ boot'.at = "san" /\ boot'.d = boot.d
      BY <1>1, <1>4, <2>1, Gone
    <2> QED
      BY <1>1, <1>5, <2>1, <2>2 DEF BootPart, SanHooked
  <1>15. CASE SanBoot
    <2>1. boot.at = "san" /\ UNCHANGED <<env, san, shellVars, jobsAndDevs>>
      BY <1>15 DEF SanBoot, BootAt
    <2>2. boot' \in BootType /\ boot'.d = boot.d /\ boot'.at = "unhook"
      BY <1>1, <1>2, <1>15, Gone DEF SanBoot
    <2> QED
      BY <1>1, <1>5, <2>1, <2>2 DEF BootPart, SanHooked
  <1>16. CASE Unhook
    <2>1. boot.at = "unhook" /\ san' = (san /\ (~env.root \/ env.keep)) /\ UNCHANGED <<env, shellVars, jobsAndDevs>>
      BY <1>16 DEF Unhook, BootAt
    <2>2. boot' \in BootType /\ boot'.d = boot.d /\ boot'.at = "next"
      BY <1>1, <1>16, Gone DEF Unhook
    <2>3. san' \in BOOLEAN /\ (san' => env.root /\ env.keep)
      BY <1>1, <2>1 DEF BootPart, SanHooked
    <2> QED
      BY <1>5, <2>1, <2>2, <2>3
  <1>17. CASE OpenNext
    <2> DEFINE d == Head(boot.devs)
               c == [e \in DevSet |-> [open |-> FALSE, link |-> FALSE, conf |-> "none"]]
    <2>1. /\ boot.at = "next" /\ boot.devs # <<>>
          /\ UNCHANGED <<env, san, stack, stop_state, ret, jobVars, pingVars, ct, ifc, cmd>>
      BY <1>17 DEF OpenNext, BootAt, shellVars
    <2>2. d \in DevSet /\ Tail(boot.devs) \in Seq(DevSet)
      BY <1>1, <2>1, HeadTailProperties DEF BootType
    <2>3. /\ boot'.at \in {"next", "conf"} /\ boot'.d = d /\ boot' \in BootType
          /\ dev' \in {c, [c EXCEPT ![d].open = TRUE]}
          /\ boot'.at = "next" => dev' = c
      <3>1. CASE /\ boot' = [boot EXCEPT !.at = "next", !.d = d, !.devs = Tail(@), !.rc = "EOPEN"]
                 /\ dev' = c
        BY <1>1, <1>2, <2>2, <3>1 DEF BootType
      <3>2. CASE /\ boot' = [boot EXCEPT !.at = "conf", !.d = d, !.devs = Tail(@), !.rc = OK]
                 /\ dev' = [c EXCEPT ![d].open = TRUE]
        BY <1>1, <2>2, <3>2 DEF BootType
      <3> QED
        BY <1>17, <3>1, <3>2 DEF OpenNext, CloseAll
    <2>4. dev' \in DevType /\ \A e \in DevSet : dev'[e].open => e = d
      <3> DEFINE z == [open |-> FALSE, link |-> FALSE, conf |-> "none"]
                 o == [z EXCEPT !.open = TRUE]
      <3>1. z \in DeviceState /\ o \in DeviceState /\ ~z.open
        BY DEF DeviceState, Confs
      <3>2. c = [e \in DevSet |-> z] /\ [c EXCEPT ![d].open = TRUE] = [c EXCEPT ![d] = o]
        BY <2>2
      <3> HIDE DEF z, o, c, d
      <3>3. c \in DevType /\ \A e \in DevSet : c[e] = z
        BY <3>1, <3>2 DEF DevType
      <3>4. [c EXCEPT ![d] = o] \in DevType /\ \A e \in DevSet : e # d => [c EXCEPT ![d] = o][e] = z
        BY <2>2, <3>1, <3>3 DEF DevType
      <3>5. CASE dev' = c
        BY <3>1, <3>3, <3>5
      <3>6. CASE dev' = [c EXCEPT ![d] = o]
        BY <3>1, <3>4, <3>6
      <3> QED
        BY <2>3, <3>2, <3>5, <3>6
    <2>5. ~CmdRuns /\ ifc.pc = "none" /\ phase # "step"
      BY <1>3, <2>1, NothingRuns
    <2>6. UNCHANGED <<phase, monojob_rc, result, job, wait, jobEnd>>
      BY <2>1 DEF jobVars
    <2> HIDE DEF d, c
    <2>7. JobPart'
      BY <2>1, JobStays
    <2>8. IfTypeOK'
      BY <2>1, <2>4, <2>6 DEF IfPart, IfTypeOK, DevType, DeviceState, Confs
    <2>9. IfconfSoFar'
      BY <2>1, <2>5 DEF IfconfSoFar, CmdRuns
    <2>10. Waiting'
      BY <1>3, <2>1, <2>5, <2>6 DEF IfPart, Waiting, CmdRuns, At, Running
    <2>11. ShellPart'
      BY <1>3, <1>4, <2>1 DEF ShellPart, ShellTypeOK, StopPending, Running
    <2>12. BootTypeOK'
      BY <1>1, <2>1, <2>2, <2>3 DEF BootPart, BootTypeOK, BootType
    <2>13. SanHooked' /\ OneDeviceOpen'
      BY <2>1, <2>3, <2>4 DEF BootPart, SanHooked, OneDeviceOpen
    <2> QED
      BY <2>7, <2>8, <2>9, <2>10, <2>11, <2>12, <2>13 DEF IfPart, BootPart
  <1>18. CASE ConfigureDevice
    <2>1. /\ boot.at = "conf" /\ IfIdle /\ Ifconf(boot.d)
          /\ UNCHANGED <<env, boot, san, stack, stop_state, ret, pingVars, cmd>>
      BY <1>18 DEF ConfigureDevice, BootAt, bootVars, shellVars
    <2>2. boot.d \in DevSet /\ ForWhom(boot.d)
      BY <1>3, <2>1, NothingRuns DEF BootPart, BootTypeOK, ForWhom
    <2>3. JobPart' /\ IfPart' /\ \A e \in DevSet : dev'[e].open => dev[e].open \/ e = boot.d
      BY <2>1, <2>2, IfconfBegins
    <2>4. ShellPart'
      BY <2>1 DEF ShellPart, ShellTypeOK, StopPending, Running, Top
    <2>5. BootPart'
      BY <2>1, <2>3 DEF BootPart, BootTypeOK, SanHooked, OneDeviceOpen
    <2> QED
      BY <2>3, <2>4, <2>5
  <1>19. CASE DeviceConfigured
    <2>1. /\ boot.at = "conf" /\ ifc.pc = "done" /\ ifc' = NoIfc /\ phase' = "idle"
          /\ UNCHANGED <<env, san, stack, stop_state, ret, monojob_rc, result, job, wait, jobEnd, pingVars,
                         dev, ct, cmd>>
      BY <1>19 DEF DeviceConfigured, BootAt, shellVars
    <2>2. phase # "step" /\ ~CmdRuns /\ result \in Statuses
      BY <1>3, <2>1, NothingRuns DEF IfPart, Waiting, IfTypeOK
    <2>3. boot' \in BootType /\ boot'.d = boot.d /\ boot'.at \in {"choose", "next"}
      BY <1>1, <1>19, <2>2, Gone DEF DeviceConfigured
    <2>4. JobPart'
      BY <2>1, <2>2, JobRests
    <2>5. IfTypeOK'
      BY <2>1 DEF IfPart, IfTypeOK, NoIfc
    <2>6. IfconfSoFar'
      BY <2>1, <2>2 DEF IfconfSoFar, CmdRuns, NoIfc
    <2>7. Waiting'
      BY <1>3, <2>1, <2>2 DEF IfPart, Waiting, CmdRuns, At, Running, NoIfc
    <2>8. ShellPart'
      BY <1>3, <1>4, <2>1 DEF ShellPart, ShellTypeOK, StopPending, Running
    <2>9. BootPart'
      BY <1>1, <2>1, <2>3, BootKept DEF BootPart, SanHooked
    <2> QED
      BY <2>4, <2>5, <2>6, <2>7, <2>8, <2>9 DEF IfPart
  <1>20. CASE SkipDevice
    <2>1. boot.at = "next" /\ boot.devs # <<>> /\ UNCHANGED <<env, san, shellVars, jobsAndDevs>>
      BY <1>20 DEF SkipDevice, BootAt
    <2>2. Tail(boot.devs) \in Seq(DevSet)
      BY <1>1, <2>1, HeadTailProperties DEF BootType
    <2>3. boot' \in BootType /\ boot'.at = "next" /\ boot'.d = boot.d
      BY <1>1, <1>20, <2>1, <2>2 DEF SkipDevice, BootType
    <2>4. san => env.root /\ env.keep
      BY <2>1 DEF BootPart, SanHooked
    <2> QED
      BY <1>1, <1>5, <2>1, <2>3, <2>4
  <1> QED
    BY <1>7, <1>8, <1>9, <1>10, <1>11, <1>12, <1>13, <1>14, <1>15, <1>16, <1>17, <1>18, <1>19, <1>20 DEF BootStep

-----------------------------------------------------------------------------
(***************************************************************************)
(* The whole program.                                                      *)
(***************************************************************************)
\* The inductive invariant is what it says of each part.
LEMMA Parts == IInv <=> JobPart /\ IfPart /\ ShellPart /\ BootPart
  BY DEF IInv, TypeOK, JobPart, IfPart, ShellPart, BootPart

\* The invariant holds to begin with, ...
LEMMA InitIInv == Init => IInv
  <1> SUFFICES ASSUME Init PROVE IInv
    OBVIOUS
  <1>1. OK \in Statuses /\ "ENODEV" \in Statuses /\ EINPROGRESS \in Statuses /\ OK # EINPROGRESS
    BY PingAssumption, IfAssumption DEF OK, EINPROGRESS
  <1>2. JobPart
    BY <1>1, PingNumbers DEF Init, JobInit, PingInit, JobPart, PingTypeOK, OnlyThePingers, PingSoFar, PingEnded,
       Pinging, NotEnded, PingerType, NoPinger, NoReports
  <1>3. IfTypeOK
    BY <1>1, IfAssumption, EmptySeq DEF Init, IfInit, JobInit, IfTypeOK, NoIfc, NoCmd
  <1>4. IfconfSoFar
    BY DEF Init, IfInit, IfconfSoFar, NoIfc, NoCmd
  <1>5. Waiting
    BY DEF Init, IfInit, JobInit, ShellInit, Waiting, NoIfc, NoCmd, CmdRuns, At, Running
  <1>6. ShellPart
    <2>1. stack \in Seq(Frames) /\ Len(stack) = 0 /\ DOMAIN stack = {}
      BY EmptySeq DEF Init, ShellInit
    <2> QED
      BY <1>1, <2>1 DEF Init, ShellInit, ShellPart, ShellTypeOK, StopPending, SHELL_STOP_COMMAND_SEQUENCE
  <1>7. BootPart
    BY <1>1, SetupsAssumption, EmptySeq DEF Init, BootPart, BootTypeOK, SanHooked, OneDeviceOpen
  <1> QED
    BY <1>2, <1>3, <1>4, <1>5, <1>6, <1>7, Parts DEF IfPart

\* ... and after every step.
LEMMA StepIInv == IInv /\ [Next]_vars => IInv'
  <1> SUFFICES ASSUME JobPart, IfPart, ShellPart, BootPart, [Next]_vars
               PROVE  JobPart' /\ IfPart' /\ ShellPart' /\ BootPart'
    BY Parts, ZenonT(40) DEF IInv, TypeOK, JobPart, IfPart, ShellPart, BootPart, PingTypeOK, OnlyThePingers, PingSoFar,
       PingEnded, IfTypeOK, IfconfSoFar, Waiting, ShellTypeOK, StopPending, BootTypeOK, SanHooked, OneDeviceOpen
  <1>1. CASE BootStep
    BY <1>1, BootSteps
  <1>2. CASE ShellStep /\ UNCHANGED bootVars
    <2>1. JobPart' /\ IfPart' /\ ShellPart' /\ UNCHANGED dev
      BY <1>2, ShellSteps
    <2>2. BootPart'
      BY <1>2, <2>1 DEF BootPart, BootTypeOK, SanHooked, OneDeviceOpen, bootVars
    <2> QED
      BY <2>1, <2>2
  <1>3. CASE IfStep /\ Others
    <2>1. UNCHANGED <<stack, stop_state, ret, env, boot, san>>
      BY <1>3 DEF Others, shellVars, bootVars
    <2>2. JobPart' /\ IfPart' /\ (~CmdRuns => \A d \in DevSet : dev'[d].open = dev[d].open)
      BY <1>3, <2>1, IfSteps
    <2>3. ShellPart'
      BY <2>1 DEF ShellPart, ShellTypeOK, StopPending, Running, Top
    <2>4. OneDeviceOpen'
      BY <2>1, <2>2 DEF BootPart, OneDeviceOpen, IfPart, Waiting, At
    <2>5. BootPart'
      BY <2>1, <2>4 DEF BootPart, BootTypeOK, SanHooked
    <2> QED
      BY <2>2, <2>3, <2>5
  <1>4. CASE UNCHANGED vars
    <2>1. UNCHANGED <<stack, stop_state, ret, env, boot, san, jobVars, pingVars, dev, ct, ifc, cmd>>
      BY <1>4 DEF vars, shellVars, bootVars, ifVars
    <2>2. JobPart'
      BY <2>1, JobStays
    <2>3. IfPart'
      BY <2>1 DEF IfPart, IfTypeOK, IfconfSoFar, Waiting, CmdRuns, At, Running, Top, jobVars
    <2>4. ShellPart' /\ BootPart'
      BY <2>1 DEF ShellPart, ShellTypeOK, StopPending, Running, Top, BootPart, BootTypeOK, SanHooked, OneDeviceOpen
    <2> QED
      BY <2>2, <2>3, <2>4
  <1> QED
    BY <1>1, <1>2, <1>3, <1>4 DEF Next, Terminated

\* Whatever is booted, and whatever it runs, every wait belongs to who asked for
\* it, and the account of the pings, the devices and the SAN device is right.
THEOREM Invariance == Spec => []IInv
  BY InitIInv, StepIInv, PTL DEF Spec

\* Nothing of a job outlives the wait for it (monojob_wait closes it): no timer
\* and no reply gets into the next job.
THEOREM NoJobLeft == Spec => []JobInv
  <1>1. IInv => JobInv
    BY DEF JobInv, IInv, NoStrayJob, OnlyThePingers
  <1> QED
    BY <1>1, Invariance, PTL

\* An ifconf command (ifcommon_exec, ifconf_payload) that says OK leaves a device
\* open and configured, and one that fails leaves none open of those it tried.
THEOREM IfconfKeepsItsWord == Spec => []IfconfOutcome
  <1>1. IInv => IfconfOutcome
    BY DEF IInv, IfconfSoFar, IfconfOutcome, ToSet
  <1> QED
    BY <1>1, Invariance, PTL

\* autoboot opens one device at a time, and releases the SAN device of a boot
\* before the next one (netboot, uriboot).
THEOREM CleanBoots == Spec => []NothingLeftOpen
  <1>1. IInv => NothingLeftOpen
    BY DEF IInv, NothingLeftOpen, SanReleased, SanHooked
  <1> QED
    BY <1>1, Invariance, PTL

\* No request to stop outlives the line or script it was made for (shell_stopped).
THEOREM StopsConsumed == Spec => []StopConsumed
  <1>1. IInv => StopConsumed
    BY DEF IInv, StopPending, StopConsumed, At
  <1> QED
    BY <1>1, Invariance, PTL

\* Of the pings (pinger.c) of a count that the sequence numbers can count, each
\* is settled once before the next is sent, as lost or as answered and never as
\* both, however late, often or broken the replies come; and OK is the verdict
\* exactly when one was answered in time.
THEOREM PingsExact == Spec => []PingExact
  <1>1. IInv => PingExact
    BY DEF IInv, PingSoFar, PingEnded, PingExact, PingVerdict, NoPingForgotten
  <1> QED
    BY <1>1, Invariance, PTL

-----------------------------------------------------------------------------
(***************************************************************************)
(* What a fold comes to, one element after the other.                      *)
(***************************************************************************)

\* Every nonempty set of numbers has a least element.
LEMMA LeastNat ==
  ASSUME NEW S \in SUBSET Nat, S # {}
  PROVE  \E m \in S : \A k \in S : m <= k
  <1>1. PICK m \in S : \A k \in S : ~(<<k, m>> \in OpToRel(<, Nat))
    BY NatLessThanWellFounded, WFMin
  <1>2. \A k \in S : ~(k < m)
    BY <1>1 DEF OpToRel
  <1> QED
    BY <1>2

\* The greatest of some indices, and where the others are.
LEMMA MaxIndex ==
  ASSUME NEW n \in Nat, NEW s \in SUBSET (1 .. n), s # {}
  PROVE  /\ Max(s) \in s
         /\ \A i \in s : i <= Max(s)
         /\ s \ {Max(s)} \in SUBSET (1 .. Max(s) - 1)
  <1>1. PICK m \in {k \in Nat : \A i \in s : i <= k} :
              \A k \in {k \in Nat : \A i \in s : i <= k} : m <= k
    <2>1. n \in {k \in Nat : \A i \in s : i <= k}
      OBVIOUS
    <2> QED
      BY <2>1, LeastNat
  <1>2. m \in s
    <2> SUFFICES ASSUME m \notin s PROVE FALSE
      OBVIOUS
    <2>1. PICK i \in s : TRUE
      OBVIOUS
    <2>2. m - 1 \in Nat /\ \A k \in s : k <= m - 1
      BY <1>1, <2>1
    <2> QED
      BY <2>2, <1>1
  <1>3. \A x \in s : (\A y \in s : x >= y) => x = m
    BY <1>2
  <1>4. \A y \in s : m >= y
    OBVIOUS
  <1>5. Max(s) = m
    BY <1>2, <1>3, <1>4 DEF Max
  <1> QED
    BY <1>2, <1>5

\* A fold over a sequence of n elements, as SequencesExt defines it: folded maps
\* every set of indices to what the elements at them have made of the base.
IsFold(folded, n, base, step) ==
  \A s \in SUBSET (1 .. n) :
    folded[s] = IF s = {} THEN base ELSE step[Max(s)][folded[s \ {Max(s)}]]

\* A fold over the entries 1 to n has a value, by induction on n: there is no
\* least n without.
LEMMA FoldExists ==
  ASSUME NEW T, NEW base \in T, NEW n \in Nat, NEW step \in [1 .. n -> [T -> T]]
  PROVE  \E folded \in [SUBSET (1 .. n) -> T] : IsFold(folded, n, base, step)
  <1> DEFINE Has(k) == \E folded \in [SUBSET (1 .. k) -> T] : IsFold(folded, k, base, step)
             Missing == {k \in 0 .. n : ~Has(k)}
  <1> SUFFICES ASSUME ~Has(n) PROVE FALSE
    OBVIOUS
  <1> HIDE DEF Has
  <1>1. PICK k \in Missing : \A j \in Missing : k <= j
    <2>1. n \in Missing /\ Missing \in SUBSET Nat
      OBVIOUS
    <2> QED
      BY <2>1, LeastNat
  <1>2. CASE k = 0
    <2>1. SUBSET (1 .. k) = {{}}
      BY <1>2
    <2> DEFINE folded == [s \in SUBSET (1 .. k) |-> base]
    <2>2. folded \in [SUBSET (1 .. k) -> T]
      OBVIOUS
    <2>3. IsFold(folded, k, base, step)
      BY <2>1 DEF IsFold
    <2> QED
      BY <1>1, <2>2, <2>3 DEF Has
  <1>3. CASE k # 0
    <2>1. k - 1 \in 0 .. n /\ k - 1 \notin Missing
      BY <1>1, <1>3
    <2>2. PICK before \in [SUBSET (1 .. k - 1) -> T] : IsFold(before, k - 1, base, step)
      BY <2>1 DEF Has
    <2> DEFINE folded == [s \in SUBSET (1 .. k) |->
                            IF k \in s THEN step[k][before[s \ {k}]] ELSE before[s]]
    <2>3. \A s \in SUBSET (1 .. k) : IF k \in s THEN s \ {k} \in SUBSET (1 .. k - 1)
                                     ELSE s \in SUBSET (1 .. k - 1)
      BY <2>1
    <2>4. folded \in [SUBSET (1 .. k) -> T]
      BY <2>1, <2>2, <2>3, <1>3
    <2>5. ASSUME NEW s \in SUBSET (1 .. k)
          PROVE  folded[s] = IF s = {} THEN base ELSE step[Max(s)][folded[s \ {Max(s)}]]
      <3>1. CASE s = {}
        BY <2>2, <2>3, <3>1 DEF IsFold
      <3>2. CASE k \in s
        <4>1. Max(s) = k
          <5>1. Max(s) \in s /\ \A i \in s : i <= Max(s)
            BY <3>2, MaxIndex, k \in Nat
          <5>2. Max(s) \in 1 .. k /\ k <= Max(s)
            BY <3>2, <5>1
          <5> QED
            BY <5>2
        <4>2. s \ {k} \in SUBSET (1 .. k) /\ folded[s \ {k}] = before[s \ {k}]
          BY <2>3, <3>2
        <4> QED
          BY <3>2, <4>1, <4>2
      <3>3. CASE s # {} /\ k \notin s
        <4>1. Max(s) \in s
          BY <3>3, MaxIndex, k \in Nat
        <4>2. before[s] = step[Max(s)][before[s \ {Max(s)}]]
          BY <2>2, <2>3, <3>3 DEF IsFold
        <4>3. /\ folded[s] = before[s]
              /\ folded[s \ {Max(s)}] = before[s \ {Max(s)}]
          BY <3>3
        <4> QED
          BY <3>3, <4>2, <4>3
      <3> QED
        BY <3>1, <3>2, <3>3
    <2>6. IsFold(folded, k, base, step)
      BY <2>5 DEF IsFold
    <2> QED
      BY <1>1, <2>4, <2>6 DEF Has
  <1> QED
    BY <1>2, <1>3

\* Induction up to n: the numbers for which something holds are all.
LEMMA UpTo ==
  ASSUME NEW n \in Nat, NEW Fine, 0 \in Fine,
         \A k \in 1 .. n : k - 1 \in Fine => k \in Fine
  PROVE  \A k \in 0 .. n : k \in Fine
  <1> DEFINE Bad == (0 .. n) \ Fine
  <1> SUFFICES ASSUME Bad # {} PROVE FALSE
    OBVIOUS
  <1>1. PICK k \in Bad : \A j \in Bad : k <= j
    <2>1. Bad \in SUBSET Nat
      OBVIOUS
    <2> QED
      BY <2>1, LeastNat
  <1>2. k \in 1 .. n /\ k - 1 \in 0 .. n /\ k - 1 \notin Bad
    BY <1>1
  <1> QED
    BY <1>2

\* The last element of a prefix.
LEMMA PrefixMax ==
  ASSUME NEW k \in Nat, k > 0
  PROVE  /\ Max(1 .. k) = k
         /\ (1 .. k) \ {k} = 1 .. k - 1
         /\ 1 .. k # {}
  <1>1. 1 .. k \in SUBSET (1 .. k) /\ k \in 1 .. k
    OBVIOUS
  <1>2. Max(1 .. k) \in 1 .. k /\ \A i \in 1 .. k : i <= Max(1 .. k)
    BY <1>1, MaxIndex
  <1>3. Max(1 .. k) = k
    BY <1>1, <1>2
  <1> QED
    BY <1>1, <1>3

\* r[i] is what the first i of n steps have made of the base.
IsRun(r, n, base, step) == r[0] = base /\ \A i \in 1 .. n : r[i] = step[i][r[i - 1]]

\* Steps that are functions of one set have a folded.
LEMMA StepsExist ==
  ASSUME NEW T, NEW base \in T, NEW n \in Nat, NEW step \in [1 .. n -> [T -> T]]
  PROVE  \E r \in [0 .. n -> T] : IsRun(r, n, base, step)
  <1> DEFINE Has(k) == \E r \in [0 .. k -> T] : IsRun(r, k, base, step)
             Fine == {k \in 0 .. n : Has(k)}
  <1> HIDE DEF Has
  <1>1. 0 \in Fine
    <2> DEFINE r == [i \in 0 .. 0 |-> base]
    <2>1. r \in [0 .. 0 -> T] /\ r[0] = base /\ 1 .. 0 = {}
      OBVIOUS
    <2> HIDE DEF r
    <2>2. Has(0)
      BY <2>1 DEF Has, IsRun
    <2> QED
      BY <2>2
  <1>2. ASSUME NEW k \in 1 .. n, k - 1 \in Fine
        PROVE  k \in Fine
    <2>1. PICK r \in [0 .. k - 1 -> T] :
            r[0] = base /\ \A i \in 1 .. k - 1 : r[i] = step[i][r[i - 1]]
      BY <1>2 DEF Has, IsRun
    <2> DEFINE s == [i \in 0 .. k |-> IF i = k THEN step[k][r[k - 1]] ELSE r[i]]
    <2>2. k \in Nat /\ k - 1 \in 0 .. k - 1 /\ r[k - 1] \in T
      BY <2>1
    <2>3. step[k] \in [T -> T]
      OBVIOUS
    <2>4. step[k][r[k - 1]] \in T
      BY <2>2, <2>3
    <2>5. s \in [0 .. k -> T] /\ s[0] = base /\ s[k] = step[k][r[k - 1]] /\ s[k - 1] = r[k - 1]
      BY <2>1, <2>2, <2>4
    <2>6. \A i \in 1 .. k - 1 : s[i] = r[i] /\ s[i - 1] = r[i - 1]
      BY <2>2
    <2>7. 1 .. k = (1 .. k - 1) \cup {k}
      BY <2>2
    <2> HIDE DEF s
    <2>8. \A i \in 1 .. k : s[i] = step[i][s[i - 1]]
      BY <2>1, <2>5, <2>6, <2>7
    <2>9. Has(k)
      BY <2>5, <2>8 DEF Has, IsRun
    <2> QED
      BY <2>9
  <1> HIDE DEF Fine
  <1>3. \A k \in 1 .. n : k - 1 \in Fine => k \in Fine
    BY <1>2
  <1>4. \A k \in 0 .. n : k \in Fine
    BY <1>1, <1>3, UpTo
  <1>5. n \in Fine
    BY <1>4
  <1> QED
    BY <1>5 DEF Fine, Has

-----------------------------------------------------------------------------
(***************************************************************************)
(* What a script means.                                                    *)
(***************************************************************************)

\* What is executed, and what comes of it.
Executed == Commands \cup {UserExit}
Results ==
  [ran : Seq({c.arg : c \in Executed}), rc : Statuses,
   next : {c.next : c \in Executed} \cup {"end", "&&", "||"}, over : BOOLEAN]

\* A command makes one result of another.
LEMMA MeaningTyped ==
  ASSUME NEW kind, NEW b \in Results, NEW c \in Executed
  PROVE  Meaning(kind, b, c) \in Results
  <1>1. c.rc \in Statuses /\ c.arg \in {d.arg : d \in Executed} /\ c.next \in {d.next : d \in Executed}
    BY CommandsAssumption, PingAssumption DEF Executed, UserExit
  <1>2. b.ran \in Seq({d.arg : d \in Executed}) /\ b.rc \in Statuses /\ b.over \in BOOLEAN
    BY DEF Results
  <1>3. Append(b.ran, c.arg) \in Seq({d.arg : d \in Executed})
    BY <1>1, <1>2
  <1> QED
    BY <1>1, <1>2, <1>3 DEF Meaning, Results

\* r[k] is what the first k of n commands have come to.
IsMeant(r, n, kind, base, cs) ==
  /\ r \in [0 .. n -> Results]
  /\ r[0] = base
  /\ \A k \in 1 .. n : r[k] = Meaning(kind, r[k - 1], cs[k])
  /\ MeantAfter(kind, base, cs) = r[n]

\* The commands are taken one after the other.
LEMMA MeantRun ==
  ASSUME NEW kind, NEW base \in Results, NEW cs \in Seq(Executed)
  PROVE  \E r : IsMeant(r, Len(cs), kind, base, cs)
  <1> DEFINE n == Len(cs)
             step == [i \in 1 .. n |-> [b \in Results |-> Meaning(kind, b, cs[i])]]
             Folded(folded) == [s \in SUBSET (1 .. n) |->
                        IF s = {} THEN base
                        ELSE Meaning(kind, folded[s \ {Max(s)}], cs[Max(s)])]
             folded == CHOOSE folded : folded = Folded(folded)
             r == [k \in 0 .. n |-> folded[1 .. k]]
             Fine == {k \in 0 .. n : r[k] \in Results}
  <1>1. n \in Nat /\ DOMAIN cs = 1 .. n /\ \A i \in 1 .. n : cs[i] \in Executed
    OBVIOUS
  <1>2. MeantAfter(kind, base, cs) = folded[1 .. n]
    BY <1>1 DEF MeantAfter, FoldLeft, MapThenFoldSet
  <1> HIDE DEF folded
  <1>3. folded = Folded(folded)
    <2>1. step \in [1 .. n -> [Results -> Results]]
      BY <1>1, MeaningTyped
    <2>2. PICK fold \in [SUBSET (1 .. n) -> Results] : IsFold(fold, n, base, step)
      BY <1>1, <2>1, FoldExists
    <2>3. ASSUME NEW s \in SUBSET (1 .. n), s # {}
          PROVE  fold[s] = Meaning(kind, fold[s \ {Max(s)}], cs[Max(s)])
      <3>1. Max(s) \in 1 .. n
        BY <1>1, <2>3, MaxIndex
      <3>2. fold[s \ {Max(s)}] \in Results
        BY <2>2
      <3> QED
        BY <2>2, <2>3, <3>1, <3>2 DEF IsFold
    <2>4. fold = Folded(fold)
      BY <2>2, <2>3 DEF IsFold
    <2> QED
      BY <2>4 DEF folded
  <1>4. r[0] = base
    <2>1. 1 .. 0 = {}
      OBVIOUS
    <2> QED
      BY <1>1, <1>3, <2>1
  <1>5. ASSUME NEW k \in 1 .. n
        PROVE  r[k] = Meaning(kind, r[k - 1], cs[k])
    <2>1. /\ Max(1 .. k) = k /\ (1 .. k) \ {k} = 1 .. k - 1 /\ 1 .. k # {}
          /\ 1 .. k \in SUBSET (1 .. n)
      BY PrefixMax, SMTT(30)
    <2>2. r[k] = folded[1 .. k] /\ r[k - 1] = folded[1 .. k - 1]
      BY <1>1
    <2>3. folded[1 .. k] = Meaning(kind, folded[1 .. k - 1], cs[k])
      BY <1>3, <2>1
    <2> QED
      BY <2>2, <2>3
  <1> HIDE DEF r, n
  <1>6. 0 \in Fine /\ \A k \in 1 .. n : k - 1 \in Fine => k \in Fine
    BY <1>1, <1>4, <1>5, MeaningTyped
  <1>7. \A k \in 0 .. n : k \in Fine
    BY <1>1, <1>6, UpTo
  <1>8. r \in [0 .. n -> Results]
    BY <1>7 DEF r
  <1>9. MeantAfter(kind, base, cs) = r[n]
    BY <1>1, <1>2 DEF r
  <1> QED
    BY <1>4, <1>5, <1>8, <1>9 DEF n, IsMeant

\* No commands change nothing.
LEMMA MeantNone ==
  ASSUME NEW kind, NEW base \in Results
  PROVE  MeantAfter(kind, base, <<>>) = base
  <1>1. <<>> \in Seq(Executed) /\ Len(<<>>) = 0
    BY EmptySeq
  <1>2. PICK r : IsMeant(r, 0, kind, base, <<>>)
    BY <1>1, MeantRun
  <1> QED
    BY <1>2 DEF IsMeant

\* The first command first.
LEMMA MeantNext ==
  ASSUME NEW kind, NEW base \in Results, NEW c \in Executed, NEW s \in Seq(Executed)
  PROVE  MeantAfter(kind, base, <<c>> \o s) = MeantAfter(kind, Meaning(kind, base, c), s)
  <1> DEFINE n == Len(s)
             cs == <<c>> \o s
             next == Meaning(kind, base, c)
  <1>1. /\ n \in Nat /\ cs \in Seq(Executed) /\ Len(cs) = n + 1 /\ cs[1] = c
        /\ \A k \in 1 .. n : cs[k + 1] = s[k]
    <2>1. <<c>> \in Seq(Executed) /\ Len(<<c>>) = 1 /\ <<c>>[1] = c
      OBVIOUS
    <2>2. n \in Nat
      OBVIOUS
    <2> QED
      BY <2>1, <2>2, ConcatProperties
  <1>2. next \in Results
    BY MeaningTyped
  <1> HIDE DEF cs, next, n
  <1>3. PICK r : IsMeant(r, n + 1, kind, base, cs)
    BY <1>1, MeantRun
  <1>4. PICK q : IsMeant(q, n, kind, next, s)
    BY <1>2, MeantRun DEF n
  <1> DEFINE Fine == {k \in 0 .. n : r[k + 1] = q[k]}
  <1>5. 0 \in Fine
    <2>1. 1 \in 1 .. n + 1 /\ 1 - 1 = 0 /\ 0 + 1 = 1
      BY <1>1
    <2>2. r[1] = Meaning(kind, r[1 - 1], cs[1])
      BY <1>3, <2>1 DEF IsMeant
    <2> QED
      BY <1>1, <1>3, <1>4, <2>1, <2>2 DEF next, IsMeant
  <1>6. ASSUME NEW k \in 1 .. n, k - 1 \in Fine
        PROVE  k \in Fine
    <2>1. k + 1 \in 1 .. n + 1 /\ (k + 1) - 1 = k /\ (k - 1) + 1 = k
      BY <1>1
    <2>2. r[k + 1] = Meaning(kind, r[(k + 1) - 1], cs[k + 1])
      BY <1>3, <2>1 DEF IsMeant
    <2>3. q[k] = Meaning(kind, q[k - 1], s[k]) /\ cs[k + 1] = s[k]
      BY <1>1, <1>4 DEF IsMeant
    <2>4. r[(k - 1) + 1] = q[k - 1]
      BY <1>6
    <2> QED
      BY <2>1, <2>2, <2>3, <2>4
  <1> HIDE DEF Fine
  <1>7. \A k \in 1 .. n : k - 1 \in Fine => k \in Fine
    BY <1>6
  <1>8. \A k \in 0 .. n : k \in Fine
    BY <1>1, <1>5, <1>7, UpTo
  <1>9. r[n + 1] = q[n]
    BY <1>1, <1>8 DEF Fine
  <1> QED
    BY <1>3, <1>4, <1>9 DEF IsMeant, cs, next

\* After the end nothing is executed.
LEMMA MeantOver ==
  ASSUME NEW kind, NEW base \in Results, base.over, NEW s \in Seq(Executed)
  PROVE  /\ MeantAfter(kind, base, s).ran = base.ran
         /\ MeantAfter(kind, base, s).rc = base.rc
  <1> DEFINE n == Len(s)
  <1>1. n \in Nat
    OBVIOUS
  <1>2. PICK r : IsMeant(r, n, kind, base, s)
    BY MeantRun
  <1> HIDE DEF n
  <1> DEFINE Fine == {k \in 0 .. n : r[k].over /\ r[k].ran = base.ran /\ r[k].rc = base.rc}
  <1>3. 0 \in Fine
    BY <1>1, <1>2 DEF IsMeant
  <1>4. ASSUME NEW k \in 1 .. n, k - 1 \in Fine
        PROVE  k \in Fine
    <2>1. r[k] = Meaning(kind, r[k - 1], s[k])
      BY <1>2 DEF IsMeant
    <2>2. r[k - 1].over /\ r[k - 1].ran = base.ran /\ r[k - 1].rc = base.rc
      BY <1>4
    <2>3. \A b, c : b.over => /\ Meaning(kind, b, c).over
                              /\ Meaning(kind, b, c).ran = b.ran /\ Meaning(kind, b, c).rc = b.rc
      BY ZenonT(40) DEF Meaning
    <2>4. r[k].over /\ r[k].ran = base.ran /\ r[k].rc = base.rc
      BY <2>1, <2>2, <2>3
    <2> QED
      BY <1>1, <2>4
  <1> HIDE DEF Fine
  <1>5. \A k \in 1 .. n : k - 1 \in Fine => k \in Fine
    BY <1>4
  <1>6. \A k \in 0 .. n : k \in Fine
    BY <1>1, <1>3, <1>5, UpTo
  <1>7. r[n].ran = base.ran /\ r[n].rc = base.rc
    BY <1>1, <1>6 DEF Fine
  <1> QED
    BY <1>2, <1>7 DEF IsMeant

\* p[i] is the first i of n lines, as one sequence of commands.
IsFlat(p, n, ls) ==
  /\ p \in [0 .. n -> Seq(Executed)]
  /\ p[0] = <<>>
  /\ \A i \in 1 .. n : p[i] = p[i - 1] \o ls[i]
  /\ FlattenSeq(ls) = p[n]

\* Lines are put together one after the other.
LEMMA FlatRun ==
  ASSUME NEW ls \in Seq(Seq(Executed))
  PROVE  \E p : IsFlat(p, Len(ls), ls)
  <1> DEFINE n == Len(ls)
             step == [i \in 1 .. n |-> [t \in Seq(Executed) |-> t \o ls[i]]]
  <1>1. n \in Nat /\ DOMAIN ls = 1 .. n /\ \A i \in 1 .. n : ls[i] \in Seq(Executed)
    OBVIOUS
  <1>2. <<>> \in Seq(Executed) /\ \A t \in Seq(Executed) : <<>> \o t = t
    OBVIOUS
  <1>3. step \in [1 .. n -> [Seq(Executed) -> Seq(Executed)]]
    BY <1>1
  <1> HIDE DEF step
  <1>4. PICK p \in [0 .. n -> Seq(Executed)] : IsRun(p, n, <<>>, step)
    BY <1>1, <1>2, <1>3, StepsExist
  <1>5. \A i \in 1 .. n : p[i] = p[i - 1] \o ls[i]
    <2> SUFFICES ASSUME NEW i \in 1 .. n PROVE p[i] = p[i - 1] \o ls[i]
      OBVIOUS
    <2>1. i - 1 \in 0 .. n
      BY <1>1
    <2> QED
      BY <1>4, <2>1 DEF step, IsRun
  <1>6. p[0] = <<>>
    BY <1>4 DEF IsRun
  <1>7. FlattenSeq(ls) = p[n]
    <2> DEFINE flat(f) == [i \in 1 .. n |-> IF i = 1 THEN ls[i] ELSE f[i - 1] \o ls[i]]
               flatten == CHOOSE f : f = flat(f)
               g == [i \in 1 .. n |-> p[i]]
    <2>1. CASE n = 0
      <3>1. ls = <<>>
        BY <2>1, EmptySeq
      <3> QED
        BY <1>6, <2>1, <3>1 DEF FlattenSeq
    <2>2. CASE n # 0
      <3>1. FlattenSeq(ls) = flatten[n]
        BY <2>2 DEF FlattenSeq
      <3> HIDE DEF flatten, n
      <3>2. ASSUME NEW i \in 1 .. n
            PROVE  g[i] = IF i = 1 THEN ls[i] ELSE g[i - 1] \o ls[i]
        <4>1. p[i] = p[i - 1] \o ls[i]
          BY <1>5
        <4>2. CASE i = 1
          <5>1. i - 1 = 0
            BY <4>2
          <5> QED
            BY <1>1, <1>2, <1>6, <4>1, <4>2, <5>1
        <4>3. CASE i # 1
          <5>1. i - 1 \in 1 .. n
            BY <1>1, <4>3
          <5> QED
            BY <4>1, <4>3, <5>1
        <4> QED
          BY <4>2, <4>3
      <3>3. g = flat(g)
        BY <3>2
      <3>4. flatten = flat(flatten)
        BY <3>3 DEF flatten
      <3> DEFINE Fine == {0} \cup {i \in 1 .. n : flatten[i] = p[i]}
      <3>5. ASSUME NEW k \in 1 .. n, k - 1 \in Fine
            PROVE  k \in Fine
        <4>1. flatten[k] = IF k = 1 THEN ls[k] ELSE flatten[k - 1] \o ls[k]
          BY <3>4
        <4>2. g[k] = IF k = 1 THEN ls[k] ELSE g[k - 1] \o ls[k]
          BY <3>2
        <4>3. k # 1 => k - 1 \in 1 .. n /\ flatten[k - 1] = p[k - 1] /\ g[k - 1] = p[k - 1]
          BY <1>1, <3>5
        <4> QED
          BY <4>1, <4>2, <4>3
      <3> HIDE DEF Fine
      <3>6. \A k \in 1 .. n : k - 1 \in Fine => k \in Fine
        BY <3>5
      <3>7. 0 \in Fine
        BY DEF Fine
      <3>8. \A k \in 0 .. n : k \in Fine
        BY <1>1, <3>6, <3>7, UpTo
      <3>9. n \in Fine /\ n # 0
        BY <1>1, <2>2, <3>8
      <3> QED
        BY <3>1, <3>9 DEF Fine
    <2> QED
      BY <2>1, <2>2
  <1> QED
    BY <1>4, <1>5, <1>6, <1>7 DEF IsFlat

\* Commands can be put together in any order of steps.
LEMMA Associative ==
  \A s, t, u \in Seq(Executed) : (s \o t) \o u = s \o (t \o u)
  <1> SUFFICES ASSUME NEW s \in Seq(Executed), NEW t \in Seq(Executed), NEW u \in Seq(Executed)
               PROVE  (s \o t) \o u = s \o (t \o u)
    OBVIOUS
  <1> QED
    BY ConcatAssociative

\* All lines are commands.
LEMMA FlatTyped ==
  ASSUME NEW ls \in Seq(Seq(Executed))
  PROVE  FlattenSeq(ls) \in Seq(Executed)
  <1>1. PICK p : IsFlat(p, Len(ls), ls)
    BY FlatRun
  <1> QED
    BY <1>1 DEF IsFlat

\* The first line first.
LEMMA FlatNext ==
  ASSUME NEW l \in Seq(Executed), NEW ls \in Seq(Seq(Executed))
  PROVE  FlattenSeq(<<l>> \o ls) = l \o FlattenSeq(ls)
  <1> DEFINE n == Len(ls)
             all == <<l>> \o ls
  <1>1. /\ n \in Nat /\ all \in Seq(Seq(Executed)) /\ Len(all) = n + 1 /\ all[1] = l
        /\ \A k \in 1 .. n : all[k + 1] = ls[k] /\ ls[k] \in Seq(Executed)
    <2>1. <<l>> \in Seq(Seq(Executed)) /\ Len(<<l>>) = 1 /\ <<l>>[1] = l
      OBVIOUS
    <2>2. n \in Nat /\ \A k \in 1 .. n : ls[k] \in Seq(Executed)
      OBVIOUS
    <2> QED
      BY <2>1, <2>2, ConcatProperties
  <1> HIDE DEF all, n
  <1>2. PICK p : IsFlat(p, n + 1, all)
    BY <1>1, FlatRun
  <1>3. PICK q : IsFlat(q, n, ls)
    BY FlatRun DEF n
  <1> DEFINE Fine == {k \in 0 .. n : p[k + 1] = l \o q[k]}
  <1>4. 0 \in Fine
    <2>1. 1 \in 1 .. n + 1 /\ 1 - 1 = 0 /\ 0 + 1 = 1
      BY <1>1
    <2>2. p[1] = p[1 - 1] \o all[1]
      BY <1>2, <2>1 DEF IsFlat
    <2>3. p[0] = <<>> /\ q[0] = <<>>
      BY <1>2, <1>3 DEF IsFlat
    <2>4. <<>> \o l = l /\ l \o <<>> = l
      BY ConcatEmptySeq
    <2>5. p[1] = l
      BY <1>1, <2>1, <2>2, <2>3, <2>4
    <2>6. p[0 + 1] = l \o q[0]
      BY <2>1, <2>3, <2>4, <2>5
    <2>7. 0 \in 0 .. n
      BY <1>1
    <2> QED
      BY <2>6, <2>7
  <1>5. ASSUME NEW k \in 1 .. n, k - 1 \in Fine
        PROVE  k \in Fine
    <2>1. k + 1 \in 1 .. n + 1 /\ (k + 1) - 1 = k /\ (k - 1) + 1 = k /\ k - 1 \in 0 .. n
      BY <1>1
    <2>2. p[k + 1] = p[(k + 1) - 1] \o all[k + 1]
      BY <1>2, <2>1 DEF IsFlat
    <2>3. q[k] = q[k - 1] \o ls[k] /\ all[k + 1] = ls[k] /\ ls[k] \in Seq(Executed)
      BY <1>1, <1>3 DEF IsFlat
    <2>4. p[(k - 1) + 1] = l \o q[k - 1] /\ q[k - 1] \in Seq(Executed)
      BY <1>3, <1>5, <2>1 DEF IsFlat
    <2>5. (l \o q[k - 1]) \o ls[k] = l \o (q[k - 1] \o ls[k])
      BY <2>3, <2>4, Associative
    <2>6. p[k + 1] = (l \o q[k - 1]) \o ls[k]
      BY <2>1, <2>2, <2>3, <2>4
    <2>7. p[k + 1] = l \o q[k]
      BY <2>3, <2>5, <2>6
    <2> QED
      BY <1>1, <2>7
  <1> HIDE DEF Fine
  <1>6. \A k \in 1 .. n : k - 1 \in Fine => k \in Fine
    BY <1>5
  <1>7. \A k \in 0 .. n : k \in Fine
    BY <1>1, <1>4, <1>6, UpTo
  <1>8. p[n + 1] = l \o q[n]
    BY <1>1, <1>7 DEF Fine
  <1> QED
    BY <1>2, <1>3, <1>8 DEF IsFlat, all

\* The commands from a line on: those of the line, and those from the next on.
LEMMA CommandsLeft ==
  ASSUME NEW kind, NEW lines \in Scripts, NEW n \in Nat \ {0}
  PROVE  /\ CommandsFrom(kind, lines, n) \in Seq(Executed)
         /\ n > Len(lines) =>
              CommandsFrom(kind, lines, n) = IF kind = "shell" THEN <<UserExit>> ELSE <<>>
         /\ n <= Len(lines) =>
              /\ lines[n] \in Seq(Executed)
              /\ CommandsFrom(kind, lines, n) = lines[n] \o CommandsFrom(kind, lines, n + 1)
  <1> DEFINE last == IF kind = "shell" THEN <<UserExit>> ELSE <<>>
             From(k) == SubSeq(lines, k, Len(lines))
  <1>1. last \in Seq(Executed)
    <2>1. \A c \in Executed : <<c>> \in Seq(Executed)
      OBVIOUS
    <2> QED
      BY <2>1, EmptySeq DEF Executed
  <1>2. lines \in Seq(Seq(Executed)) /\ Len(lines) \in Nat
    <2>1. Lines \subseteq Seq(Executed)
      <3>1. Commands \subseteq Executed
        BY DEF Executed
      <3>2. Seq(Commands) \subseteq Seq(Executed)
        BY <3>1, SeqMonotonic
      <3> QED
        BY <3>2 DEF Lines
    <2>2. Seq(Lines) \subseteq Seq(Seq(Executed))
      BY <2>1, SeqMonotonic
    <2> QED
      BY <2>2 DEF Scripts
  <1>3. \A k \in Nat \ {0} : From(k) \in Seq(Seq(Executed)) /\ FlattenSeq(From(k)) \in Seq(Executed)
    <2> SUFFICES ASSUME NEW k \in Nat \ {0}
                 PROVE  From(k) \in Seq(Seq(Executed)) /\ FlattenSeq(From(k)) \in Seq(Executed)
      OBVIOUS
    <2>1. From(k) \in Seq(Seq(Executed))
      BY <1>2
    <2> HIDE DEF From
    <2> QED
      BY <2>1, FlatTyped
  <1>4. CommandsFrom(kind, lines, n) \in Seq(Executed)
    BY <1>1, <1>3, ConcatProperties DEF CommandsFrom
  <1>5. ASSUME n > Len(lines)
        PROVE  CommandsFrom(kind, lines, n) = last
    <2>1. From(n) = <<>>
      BY <1>2, <1>5
    <2>2. FlattenSeq(<<>>) = <<>>
      BY DEF FlattenSeq
    <2> QED
      BY <1>1, <2>1, <2>2, ConcatEmptySeq DEF CommandsFrom
  <1>6. ASSUME n <= Len(lines)
        PROVE  /\ lines[n] \in Seq(Executed)
               /\ CommandsFrom(kind, lines, n) = lines[n] \o CommandsFrom(kind, lines, n + 1)
    <2>1. lines[n] \in Seq(Executed)
      BY <1>2, <1>6
    <2>2. From(n) = <<lines[n]>> \o From(n + 1)
      BY <1>2, <1>6, SubSeqRecursiveFirst
    <2>3. From(n + 1) \in Seq(Seq(Executed)) /\ FlattenSeq(From(n + 1)) \in Seq(Executed)
      BY <1>3
    <2> HIDE DEF From
    <2>4. FlattenSeq(From(n)) = lines[n] \o FlattenSeq(From(n + 1))
      BY <2>1, <2>2, <2>3, FlatNext
    <2>5. (lines[n] \o FlattenSeq(From(n + 1))) \o last = lines[n] \o (FlattenSeq(From(n + 1)) \o last)
      BY <1>1, <2>1, <2>3, Associative
    <2> QED
      BY <2>1, <2>4, <2>5 DEF CommandsFrom, From
  <1> QED
    BY <1>4, <1>5, <1>6

-----------------------------------------------------------------------------
(***************************************************************************)
(* A script of simple commands does what it means.                         *)
(***************************************************************************)
Arguments == {c.arg : c \in Executed}

\* SoFar of a frame, when r is what was executed and stop the stop state.
NextOf(f) ==
  IF f.at \in {"ran", "eol"} THEN Head(f.line).next
  ELSE IF f.at = "cmd" /\ ~f.process THEN (IF f.rc = OK THEN "||" ELSE "&&")
  ELSE "end"

OverOf(f, stop) ==
  f.at \in {"ran", "eol"} /\ \/ stop # 0
                             \/ f.kind = "script" /\ Head(f.line).next = "end" /\ f.rc # OK

ResultOf(f, r, stop) == [ran |-> r, rc |-> f.rc, next |-> NextOf(f), over |-> OverOf(f, stop)]

Account(f, r, stop) == MeantAfter(f.kind, ResultOf(f, r, stop), LeftOf(f))

LineIsSimple(line) ==
  \A i \in DOMAIN line : /\ line[i].op \in {"simple", "exit"}
                         /\ line[i].next = "end" <=> i = Len(line)

Shape(f, stop) ==
  /\ f.at # "run"
  /\ LineIsSimple(f.line)
  /\ stop \in {0, SHELL_STOP_COMMAND_SEQUENCE}
  /\ f.at = "eol" => f.line # <<>> /\ (stop = 0 => Len(f.line) = 1)
  /\ f.kind = "scriptlet" /\ f.at # "bol" => f.n > Len(f.lines)

\* The fields of a frame.
LEMMA FrameTyped ==
  ASSUME NEW f \in Frames
  PROVE  /\ f.line \in Seq(Executed) /\ f.lines \in Scripts /\ f.n \in Nat \ {0} /\ f.rc \in Statuses
         /\ f.process \in BOOLEAN /\ f.kind \in {"script", "shell", "scriptlet"}
         /\ f.at \in {"bol", "cmd", "run", "ran", "eol"}
         /\ CommandsFrom(f.kind, f.lines, f.n) \in Seq(Executed)
  <1>1. /\ f.line \in Seq(Executed) /\ f.lines \in Scripts /\ f.n \in Nat \ {0} /\ f.rc \in Statuses
        /\ f.process \in BOOLEAN /\ f.kind \in {"script", "shell", "scriptlet"}
        /\ f.at \in {"bol", "cmd", "run", "ran", "eol"}
    BY DEF Frames, Executed
  <1> QED
    BY <1>1, CommandsLeft

\* What a frame has come to is a result.
LEMMA ResultTyped ==
  ASSUME NEW f \in Frames, NEW r \in Seq(Arguments), NEW stop, f.at \in {"ran", "eol"} => f.line # <<>>
  PROVE  ResultOf(f, r, stop) \in Results
  <1>1. f.rc \in Statuses /\ f.line \in Seq(Executed)
    BY FrameTyped
  <1>2. NextOf(f) \in {c.next : c \in Executed} \cup {"end", "&&", "||"}
    <2>1. f.line # <<>> => Head(f.line) \in Executed
      BY <1>1, HeadTailProperties
    <2> QED
      BY <2>1 DEF NextOf
  <1>3. OverOf(f, stop) \in BOOLEAN
    BY DEF OverOf
  <1> QED
    BY <1>1, <1>2, <1>3 DEF ResultOf, Results, Arguments

\* The first command of those that are left.
LEMMA MeantHead ==
  ASSUME NEW kind, NEW b \in Results, NEW line \in Seq(Executed), line # <<>>, NEW rest \in Seq(Executed)
  PROVE  /\ Head(line) \in Executed /\ Tail(line) \o rest \in Seq(Executed)
         /\ MeantAfter(kind, b, line \o rest)
              = MeantAfter(kind, Meaning(kind, b, Head(line)), Tail(line) \o rest)
  <1>1. Head(line) \in Executed /\ Tail(line) \in Seq(Executed) /\ line = <<Head(line)>> \o Tail(line)
    OBVIOUS
  <1>2. <<Head(line)>> \in Seq(Executed)
    BY <1>1
  <1>3. (<<Head(line)>> \o Tail(line)) \o rest = <<Head(line)>> \o (Tail(line) \o rest)
    BY <1>1, <1>2, Associative
  <1>4. Tail(line) \o rest \in Seq(Executed)
    BY <1>1, ConcatProperties
  <1>5. line \o rest = <<Head(line)>> \o (Tail(line) \o rest)
    BY <1>1, <1>3
  <1>6. MeantAfter(kind, b, <<Head(line)>> \o (Tail(line) \o rest))
          = MeantAfter(kind, Meaning(kind, b, Head(line)), Tail(line) \o rest)
    BY <1>1, <1>4, MeantNext
  <1> QED
    BY <1>1, <1>4, <1>5, <1>6

\* Results that let the next command run, or that do not, go on in the same way.
LEMMA SameNext ==
  ASSUME NEW kind, NEW a \in Results, NEW b \in Results, ~a.over, ~b.over, a.ran = b.ran,
         Lets(a.next, a.rc) <=> Lets(b.next, b.rc), Lets(a.next, a.rc) \/ a.rc = b.rc,
         NEW line \in Seq(Executed), line # <<>>, NEW rest \in Seq(Executed)
  PROVE  MeantAfter(kind, a, line \o rest) = MeantAfter(kind, b, line \o rest)
  <1>1. Meaning(kind, a, Head(line)) = Meaning(kind, b, Head(line))
    BY DEF Meaning
  <1> QED
    BY <1>1, MeantHead

\* StartLine: the commands of the next line are those that were left.
LEMMA StartKeeps ==
  ASSUME NEW f \in Frames, NEW g \in Frames, g.kind = f.kind, g.lines = f.lines,
         f.at = "bol", g.at = "cmd", f.n <= Len(f.lines), g.n = f.n + 1, g.line = f.lines[f.n],
         g.process, NEW r \in Seq(Arguments),
         IsSimple(f.lines), f.kind = "scriptlet" => Len(f.lines) <= 1
  PROVE  Account(g, r, 0) = Account(f, r, 0) /\ Shape(g, 0)
  <1> DEFINE rest == CommandsFrom(f.kind, f.lines, f.n + 1)
  <1>1. f.lines \in Scripts /\ f.n \in Nat \ {0} /\ Len(f.lines) \in Nat /\ f.n \in DOMAIN f.lines
    BY FrameTyped DEF Scripts
  <1>2. g.line \in Lines
    BY <1>1 DEF Scripts
  <1>3. g.line # <<>> /\ g.line \in Seq(Executed) /\ LineIsSimple(g.line)
    BY <1>1, <1>2, FrameTyped DEF Lines, LineIsSimple, IsSimple
  <1>4. rest \in Seq(Executed) /\ CommandsFrom(f.kind, f.lines, f.n) = g.line \o rest
    <2>1. f.n + 1 \in Nat \ {0}
      BY <1>1
    <2>2. rest \in Seq(Executed)
      BY <1>1, <2>1, CommandsLeft
    <2>3. CommandsFrom(f.kind, f.lines, f.n) = f.lines[f.n] \o rest
      BY <1>1, CommandsLeft
    <2> QED
      BY <2>2, <2>3
  <1> HIDE DEF rest
  <1>5. LeftOf(g) = g.line \o rest
    BY DEF LeftOf, rest
  <1>6. LeftOf(f) = g.line \o rest
    <2>1. g.line \o rest \in Seq(Executed)
      BY <1>3, <1>4, ConcatProperties
    <2>2. <<>> \o (g.line \o rest) = g.line \o rest
      BY <2>1, ConcatEmptySeq
    <2> QED
      BY <1>4, <2>2 DEF LeftOf
  <1>7. /\ ResultOf(f, r, 0) \in Results /\ ResultOf(g, r, 0) \in Results
        /\ ResultOf(f, r, 0).ran = r /\ ResultOf(g, r, 0).ran = r
        /\ ~ResultOf(f, r, 0).over /\ ~ResultOf(g, r, 0).over
        /\ ResultOf(f, r, 0).next = "end" /\ ResultOf(g, r, 0).next = "end"
    BY ResultTyped DEF ResultOf, NextOf, OverOf
  <1>8. \A rc : Lets("end", rc)
    BY DEF Lets
  <1>9. MeantAfter(f.kind, ResultOf(g, r, 0), g.line \o rest) = MeantAfter(f.kind, ResultOf(f, r, 0), g.line \o rest)
    BY <1>3, <1>4, <1>7, <1>8, SameNext, SMTT(30)
  <1>10. Shape(g, 0)
    BY <1>1, <1>3 DEF Shape
  <1> QED
    BY <1>5, <1>6, <1>9, <1>10 DEF Account

\* What Skip, Simple and Exit do: the status, what is executed and the stop.
Counts(f, g, r, s, stop) ==
  LET c == Head(f.line)
  IN /\ g.rc = IF f.process THEN c.rc ELSE f.rc
     /\ s = IF f.process /\ c.op = "simple" THEN Append(r, c.arg) ELSE r
     /\ stop = IF f.process /\ c.op = "exit" THEN SHELL_STOP_COMMAND_SEQUENCE ELSE 0

\* Skip, Simple and Exit: the command counts as it is meant to.
LEMMA CommandKeeps ==
  ASSUME NEW f \in Frames, NEW g \in Frames, g.kind = f.kind, g.lines = f.lines, g.n = f.n, g.line = f.line,
         f.at = "cmd", g.at = "ran", f.line # <<>>, Shape(f, 0), NEW r \in Seq(Arguments), NEW s, NEW stop,
         Counts(f, g, r, s, stop)
  PROVE  Account(g, s, stop) = Account(f, r, 0) /\ Shape(g, stop) /\ s \in Seq(Arguments)
  <1> DEFINE c == Head(f.line)
             rest == CommandsFrom(f.kind, f.lines, f.n)
             b == ResultOf(f, r, 0)
  <1>0. /\ g.rc = IF f.process THEN Head(f.line).rc ELSE f.rc
        /\ s = IF f.process /\ Head(f.line).op = "simple" THEN Append(r, Head(f.line).arg) ELSE r
        /\ stop = IF f.process /\ Head(f.line).op = "exit" THEN SHELL_STOP_COMMAND_SEQUENCE ELSE 0
    BY DEF Counts
  <1>1. f.line \in Seq(Executed) /\ rest \in Seq(Executed) /\ f.process \in BOOLEAN
    BY FrameTyped
  <1>2. b \in Results /\ b.ran = r /\ b.rc = f.rc /\ b.next = NextOf(f) /\ ~b.over
    BY ResultTyped DEF ResultOf, OverOf
  <1>3. c \in Executed /\ MeantAfter(f.kind, b, f.line \o rest)
                            = MeantAfter(f.kind, Meaning(f.kind, b, c), Tail(f.line) \o rest)
    BY <1>1, <1>2, MeantHead
  <1>4. Lets(b.next, b.rc) <=> f.process
    BY <1>1, <1>2 DEF NextOf, Lets
  <1>5. LeftOf(f) = f.line \o rest /\ LeftOf(g) = Tail(f.line) \o rest
    BY DEF LeftOf
  <1> HIDE DEF b, c, rest
  <1>6. SHELL_STOP_COMMAND_SEQUENCE # 0
    BY DEF SHELL_STOP_COMMAND_SEQUENCE
  <1>7. Meaning(f.kind, b, c) = ResultOf(g, s, stop)
    <2>1. NextOf(g) = c.next
      BY DEF NextOf, c
    <2>2. OverOf(g, stop) <=> (f.process /\ c.op = "exit") \/ (f.kind = "script" /\ c.next = "end" /\ g.rc # OK)
      BY <1>0, <1>6 DEF OverOf, c
    <2>3. OverOf(g, stop) \in BOOLEAN
      BY DEF OverOf
    <2>4. g.rc = (IF f.process THEN c.rc ELSE f.rc)
          /\ s = (IF f.process /\ c.op = "simple" THEN Append(r, c.arg) ELSE r)
      BY <1>0 DEF c
    <2>5. Meaning(f.kind, b, c) =
            [ran |-> s, rc |-> g.rc, next |-> c.next,
             over |-> (f.process /\ c.op = "exit") \/ (f.kind = "script" /\ c.next = "end" /\ g.rc # OK)]
      BY <1>1, <1>2, <1>4, <2>4 DEF Meaning
    <2> QED
      BY <2>1, <2>2, <2>3, <2>5 DEF ResultOf
  <1>8. s \in Seq(Arguments)
    BY <1>0, <1>3 DEF Arguments, c
  <1>9. Shape(g, stop)
    BY <1>0 DEF Shape
  <1> QED
    BY <1>3, <1>5, <1>7, <1>8, <1>9 DEF Account, b

\* AfterCommand, at the end of the line or of everything: nothing has changed.
LEMMA EolKeeps ==
  ASSUME NEW f \in Frames, NEW g \in Frames, g.kind = f.kind, g.lines = f.lines, g.n = f.n, g.line = f.line,
         g.rc = f.rc, f.at = "ran", g.at = "eol", f.line # <<>>, NEW r, NEW stop, Shape(f, stop),
         stop = 0 => Head(f.line).next = "end"
  PROVE  Account(g, r, stop) = Account(f, r, stop) /\ Shape(g, stop)
  <1>1. ResultOf(g, r, stop) = ResultOf(f, r, stop) /\ LeftOf(g) = LeftOf(f)
    BY DEF ResultOf, NextOf, OverOf, LeftOf
  <1>2. stop = 0 => Len(f.line) = 1
    <2>1. f.line \in Seq(Executed)
      BY FrameTyped
    <2>2. 1 \in DOMAIN f.line /\ Head(f.line) = f.line[1]
      BY <2>1
    <2> QED
      BY <2>2 DEF Shape, LineIsSimple
  <1> QED
    BY <1>1, <1>2 DEF Account, Shape

\* AfterCommand: the next command is run when its terminator lets it.
LEMMA AfterKeeps ==
  ASSUME NEW f \in Frames, NEW g \in Frames, g.kind = f.kind, g.lines = f.lines, g.n = f.n,
         g.line = Tail(f.line), g.rc = f.rc, g.process = Process(Head(f.line).next, f.rc),
         f.at = "ran", g.at = "cmd", f.line # <<>>, NEW r \in Seq(Arguments), Shape(f, 0),
         Head(f.line).next # "end"
  PROVE  Account(g, r, 0) = Account(f, r, 0) /\ Shape(g, 0)
  <1> DEFINE rest == CommandsFrom(f.kind, f.lines, f.n)
             a == ResultOf(f, r, 0)
             b == ResultOf(g, r, 0)
             next == Head(f.line).next
  <1>1. /\ f.line \in Seq(Executed) /\ g.line \in Seq(Executed) /\ rest \in Seq(Executed)
        /\ g.process \in BOOLEAN
    BY FrameTyped
  <1>2. f.line[Len(f.line)].next = "end" /\ Head(f.line) = f.line[1] /\ Len(f.line) \in Nat \ {0}
    BY <1>1 DEF Shape, LineIsSimple
  <1>3. /\ Len(g.line) = Len(f.line) - 1 /\ DOMAIN g.line = 1 .. Len(f.line) - 1
        /\ \A i \in 1 .. Len(f.line) - 1 : g.line[i] = f.line[i + 1]
    BY <1>1
  <1>4. g.line # <<>>
    <2>1. Len(f.line) # 1
      BY <1>2
    <2>2. Len(g.line) # 0
      BY <1>2, <1>3, <2>1
    <2> QED
      BY <2>2, EmptySeq
  <1>5. LineIsSimple(g.line)
    <2> SUFFICES ASSUME NEW i \in 1 .. Len(f.line) - 1
                 PROVE  /\ g.line[i].op \in {"simple", "exit"}
                        /\ g.line[i].next = "end" <=> i = Len(g.line)
      BY <1>3 DEF LineIsSimple
    <2>1. i + 1 \in DOMAIN f.line /\ (i + 1 = Len(f.line) <=> i = Len(f.line) - 1)
      BY <1>1, <1>2
    <2> QED
      BY <1>3, <2>1 DEF Shape, LineIsSimple
  <1>6. /\ a \in Results /\ b \in Results /\ a.ran = r /\ b.ran = r /\ ~a.over /\ ~b.over
        /\ a.rc = f.rc /\ b.rc = f.rc /\ a.next = next
        /\ b.next = IF g.process THEN "end" ELSE IF f.rc = OK THEN "||" ELSE "&&"
    BY ResultTyped DEF ResultOf, NextOf, OverOf
  <1>7. Lets(a.next, a.rc) <=> Lets(b.next, b.rc)
    BY <1>1, <1>6 DEF Lets, Process
  <1>8. LeftOf(f) = g.line \o rest /\ LeftOf(g) = g.line \o rest
    BY DEF LeftOf
  <1> HIDE DEF a, b, rest
  <1>9. MeantAfter(f.kind, b, g.line \o rest) = MeantAfter(f.kind, a, g.line \o rest)
    <2>1. Lets(a.next, a.rc) \/ a.rc = b.rc
      BY <1>6
    <2>2. a.ran = b.ran
      BY <1>6
    <2>3. a \in Results /\ b \in Results /\ ~a.over /\ ~b.over
      BY <1>6
    <2>4. MeantAfter(f.kind, a, g.line \o rest) = MeantAfter(f.kind, b, g.line \o rest)
      BY <1>1, <1>4, <1>7, <2>1, <2>2, <2>3, SameNext, ZenonT(40)
    <2> QED
      BY <2>4
  <1>10. Shape(g, 0)
    BY <1>5 DEF Shape
  <1> QED
    BY <1>8, <1>9, <1>10 DEF Account, a, b

\* EndLine: on to the next line.
LEMMA LineKeeps ==
  ASSUME NEW f \in Frames, NEW g \in Frames, g.kind = f.kind, g.lines = f.lines, g.n = f.n,
         g.line = f.line, g.rc = f.rc, f.at = "eol", g.at = "bol", f.line # <<>>,
         NEW r, Shape(f, 0), f.kind = "script" => f.rc = OK
  PROVE  Account(g, r, 0) = Account(f, r, 0) /\ Shape(g, 0)
  <1>1. f.line \in Seq(Executed) /\ Len(f.line) = 1 /\ Head(f.line) = f.line[1]
    BY FrameTyped DEF Shape
  <1>2. Head(f.line).next = "end" /\ Tail(f.line) = <<>>
    BY <1>1 DEF Shape, LineIsSimple
  <1>3. ResultOf(g, r, 0) = ResultOf(f, r, 0)
    BY <1>2 DEF ResultOf, NextOf, OverOf
  <1>4. LeftOf(g) = LeftOf(f)
    BY <1>2 DEF LeftOf
  <1> QED
    BY <1>3, <1>4 DEF Account, Shape

\* LeaveShell: the user leaves.
LEMMA LeaveKeeps ==
  ASSUME NEW f \in Frames, NEW g \in Frames, g.kind = f.kind, g.lines = f.lines, g.n = f.n,
         g.line = <<UserExit>>, g.process, g.rc = f.rc, f.at = "bol", g.at = "cmd",
         f.kind = "shell", f.n > Len(f.lines), NEW r \in Seq(Arguments)
  PROVE  Account(g, r, 0) = Account(f, r, 0) /\ Shape(g, 0)
  <1> DEFINE last == <<UserExit>>
             a == ResultOf(f, r, 0)
             left == [ran |-> r, rc |-> UserExit.rc, next |-> UserExit.next, over |-> TRUE]
  <1>1. /\ last \in Seq(Executed) /\ last # <<>> /\ Head(last) = UserExit /\ Tail(last) = <<>>
        /\ DOMAIN last = {1} /\ Len(last) = 1 /\ last[1] = UserExit
    BY DEF Executed
  <1>2. CommandsFrom(f.kind, f.lines, f.n) = last
    BY FrameTyped, CommandsLeft
  <1>3. UserExit.op = "exit" /\ UserExit.next = "end"
    BY DEF UserExit
  <1>4. <<>> \in Seq(Executed) /\ \A t \in Seq(Executed) : <<>> \o t = t /\ t \o <<>> = t
    BY EmptySeq, ConcatEmptySeq
  <1>5. LeftOf(f) = last /\ LeftOf(g) = last \o last
    BY <1>1, <1>2, <1>4 DEF LeftOf
  <1>6. /\ a \in Results /\ a.ran = r /\ a.next = "end" /\ ~a.over
        /\ ResultOf(g, r, 0) = a
    BY ResultTyped DEF ResultOf, NextOf, OverOf
  <1> HIDE DEF last, a
  <1>7. \A b : b.next = "end" /\ ~b.over /\ b.ran = r => Meaning(f.kind, b, UserExit) = left
    <2> SUFFICES ASSUME NEW b, b.next = "end", ~b.over, b.ran = r
                 PROVE  Meaning(f.kind, b, UserExit) = left
      OBVIOUS
    <2>1. Lets(b.next, b.rc)
      BY DEF Lets
    <2> QED
      BY <1>3, <2>1 DEF Meaning
  <1>8. \A b : b.over /\ b.ran = r /\ b.rc = UserExit.rc => Meaning(f.kind, b, UserExit) = left
    BY <1>3 DEF Meaning
  <1>9. UserExit \in Executed /\ left = Meaning(f.kind, a, UserExit) /\ left \in Results
    <2>1. UserExit \in Executed
      BY DEF Executed
    <2>2. left = Meaning(f.kind, a, UserExit)
      BY <1>6, <1>7
    <2> HIDE DEF left
    <2> QED
      BY <1>6, <2>1, <2>2, MeaningTyped
  <1>10. ASSUME NEW b \in Results, NEW s \in Seq(Executed), Meaning(f.kind, b, UserExit) = left
         PROVE  MeantAfter(f.kind, b, last \o s) = MeantAfter(f.kind, left, s)
    <2>1. MeantAfter(f.kind, b, <<UserExit>> \o s) = MeantAfter(f.kind, Meaning(f.kind, b, UserExit), s)
      BY <1>9, MeantNext
    <2> QED
      BY <1>10, <2>1 DEF last
  <1>11. MeantAfter(f.kind, a, last \o <<>>) = MeantAfter(f.kind, left, <<>>)
    BY <1>4, <1>6, <1>7, <1>10
  <1>12. MeantAfter(f.kind, a, last \o last) = MeantAfter(f.kind, left, <<>>)
    <2>1. Meaning(f.kind, left, UserExit) = left
      BY <1>8
    <2>2. MeantAfter(f.kind, a, last \o last) = MeantAfter(f.kind, left, last)
      BY <1>1, <1>6, <1>9, <1>10
    <2>3. MeantAfter(f.kind, left, last \o <<>>) = MeantAfter(f.kind, left, <<>>)
      BY <1>4, <1>9, <1>10, <2>1
    <2> QED
      BY <1>1, <1>4, <2>2, <2>3
  <1>13. last \o <<>> = last
    BY <1>1, <1>4
  <1>14. Shape(g, 0)
    BY <1>1, <1>3 DEF Shape, LineIsSimple, last
  <1> QED
    BY <1>5, <1>6, <1>11, <1>12, <1>13, <1>14 DEF Account, a

\* EndLine and EndScript: a frame that ends has come to what it means.
LEMMA EndKeeps ==
  ASSUME NEW f \in Frames, NEW r \in Seq(Arguments), NEW stop, Shape(f, stop),
         \/ f.at = "bol" /\ f.n > Len(f.lines) /\ f.kind = "script" /\ stop = 0
         \/ /\ f.at = "eol" /\ f.line # <<>>
            /\ f.kind = "scriptlet" \/ stop # 0 \/ (f.kind = "script" /\ f.rc # OK)
  PROVE  Account(f, r, stop).ran = r /\ Account(f, r, stop).rc = f.rc
  <1> DEFINE a == ResultOf(f, r, stop)
  <1>1. f.line \in Seq(Executed) /\ CommandsFrom(f.kind, f.lines, f.n) \in Seq(Executed)
    BY FrameTyped
  <1>2. a \in Results /\ a.ran = r /\ a.rc = f.rc
    BY ResultTyped DEF ResultOf
  <1>3. f.n > Len(f.lines) /\ f.kind # "shell" => CommandsFrom(f.kind, f.lines, f.n) = <<>>
    BY FrameTyped, CommandsLeft, ZenonT(40)
  <1>4. <<>> \o <<>> = <<>>
    BY EmptySeq, ConcatEmptySeq
  <1>5. f.at = "eol" => Tail(f.line) \in Seq(Executed) /\ LeftOf(f) \in Seq(Executed)
    <2>1. SUFFICES ASSUME f.at = "eol" PROVE Tail(f.line) \in Seq(Executed) /\ LeftOf(f) \in Seq(Executed)
      OBVIOUS
    <2>2. f.line # <<>>
      BY <2>1
    <2>3. Tail(f.line) \in Seq(Executed)
      BY <1>1, <2>2
    <2> QED
      BY <1>1, <2>1, <2>3, ConcatProperties DEF LeftOf
  <1>6. f.at = "eol" /\ stop = 0 => Head(f.line).next = "end" /\ Tail(f.line) = <<>>
    <2>1. SUFFICES ASSUME f.at = "eol", stop = 0 PROVE Head(f.line).next = "end" /\ Tail(f.line) = <<>>
      OBVIOUS
    <2>2. Len(f.line) = 1 /\ Head(f.line) = f.line[1]
      BY <1>1, <2>1 DEF Shape
    <2> QED
      BY <1>1, <2>2 DEF Shape, LineIsSimple
  <1>7. CASE f.at = "bol"
    <2>1. LeftOf(f) = <<>>
      BY <1>3, <1>4, <1>7 DEF LeftOf
    <2> QED
      BY <1>2, <2>1, MeantNone DEF Account
  <1>8. CASE f.at = "eol" /\ a.over
    BY <1>2, <1>5, <1>8, MeantOver DEF Account
  <1>9. CASE f.at = "eol" /\ ~a.over
    <2>1. stop = 0
      BY <1>9 DEF ResultOf, OverOf
    <2>2. f.kind = "scriptlet"
      BY <1>6, <1>9, <2>1 DEF ResultOf, OverOf
    <2>3. LeftOf(f) = <<>>
      BY <1>3, <1>4, <1>6, <1>9, <2>1, <2>2 DEF LeftOf, Shape
    <2> QED
      BY <1>2, <2>3, MeantNone DEF Account
  <1> QED
    BY <1>7, <1>8, <1>9

\* Plays of a frame, when r is what was executed and stop the stop state.
LEMMA PlaysMeans ==
  ASSUME NEW f
  PROVE  Plays(f) <=> /\ f.kind = boot.runs /\ f.lines = Played /\ Shape(f, stop_state)
                      /\ Account(f, ran, stop_state) = Meant(f.kind, f.lines)
  <1>1. SoFar(f) = ResultOf(f, ran, stop_state)
    BY DEF SoFar, ResultOf, NextOf, OverOf
  <1> QED
    BY <1>1 DEF Plays, Account, Shape, LineIsSimple

\* The only frame is replaced ...
LEMMA OneReplaced ==
  ASSUME ShellPart, Len(stack) = 1, NEW g \in Frames, SetTop(g)
  PROVE  Running' /\ Len(stack') = 1 /\ Top' = g
  <1>1. stack \in Seq(Frames) /\ 1 \in 1 .. Len(stack)
    BY DEF ShellPart, ShellTypeOK
  <1>2. stack' = [stack EXCEPT ![1] = g]
    BY DEF SetTop
  <1>3. stack' \in Seq(Frames) /\ Len(stack') = 1 /\ stack'[1] = g
    BY <1>1, <1>2, ExceptSeq
  <1>4. stack' # <<>>
    BY <1>3, StackDomain
  <1> QED
    BY <1>3, <1>4 DEF Running, Top, Last

\* ... or ends.
LEMMA OneEnds ==
  ASSUME ShellPart, Len(stack) = 1, NEW rc, EndFrame(rc)
  PROVE  ~Running' /\ ret' = rc
  <1>1. stack \in Seq(Frames)
    BY DEF ShellPart, ShellTypeOK
  <1>2. Front(stack) = <<>>
    BY <1>1, SubSeqEmpty DEF Front
  <1> QED
    BY <1>2 DEF EndFrame, Running

\* It has come so far when s is what was executed and stop the stop state.
LEMMA OneKeeps ==
  ASSUME ShellPart, Len(stack) = 1, UNCHANGED bootVars, NEW g \in Frames, SetTop(g),
         g.kind = boot.runs, g.lines = Played, NEW s, NEW stop, ran' = s, stop_state' = stop,
         Shape(g, stop), Account(g, s, stop) = Meant(g.kind, g.lines)
  PROVE  Running' /\ Len(stack') = 1 /\ Plays(Top)'
  <1>1. Running' /\ Len(stack') = 1 /\ Top' = g
    BY OneReplaced
  <1>2. boot' = boot /\ Played' = Played
    BY DEF bootVars, Played
  <1>3. SoFar(Top)' = ResultOf(g, s, stop)
    BY <1>1 DEF SoFar, ResultOf, NextOf, OverOf
  <1>4. MeantAfter(Top.kind, SoFar(Top), LeftOf(Top))' = Meant(g.kind, g.lines)
    BY <1>1, <1>3 DEF Account
  <1>5. /\ g.at # "run"
        /\ \A i \in DOMAIN g.line : /\ g.line[i].op \in {"simple", "exit"}
                                    /\ g.line[i].next = "end" <=> i = Len(g.line)
        /\ stop \in {0, SHELL_STOP_COMMAND_SEQUENCE}
        /\ g.at = "eol" => g.line # <<>> /\ (stop = 0 => Len(g.line) = 1)
        /\ g.kind = "scriptlet" /\ g.at # "bol" => g.n > Len(g.lines)
    BY DEF Shape, LineIsSimple
  <1>6. Plays(Top)'
    BY <1>1, <1>2, <1>4, <1>5 DEF Plays
  <1> QED
    BY <1>1, <1>6

\* Every step of the interpreter within a script of simple commands.
LEMMA SimpleSteps ==
  ASSUME IfPart, ShellPart, Running, Len(stack) = 1, Plays(Top), ran \in Seq(Arguments),
         IsSimple(Played), Len(env.scriptlet) <= 1, ShellStep, UNCHANGED bootVars
  PROVE  /\ ran' \in Seq(Arguments)
         /\ IF Running' THEN Len(stack') = 1 /\ Plays(Top)'
            ELSE /\ ran' = Meant(boot.runs, Played).ran
                 /\ ret' = Meant(boot.runs, Played).rc
  <1> DEFINE m == Meant(boot.runs, Played)
             Goal == /\ ran' \in Seq(Arguments)
                     /\ IF Running' THEN Len(stack') = 1 /\ Plays(Top)'
                        ELSE ran' = m.ran /\ ret' = m.rc
  <1> SUFFICES Goal
    OBVIOUS
  <1>1. PICK f, r, stop : f = Top /\ r = ran /\ stop = stop_state
    OBVIOUS
  <1>2. /\ f \in Frames /\ f.kind = boot.runs /\ f.lines = Played /\ Shape(f, stop)
        /\ Account(f, r, stop) = m /\ r \in Seq(Arguments)
        /\ f.at \in {"cmd", "ran", "eol"} => f.line # <<>>
        /\ f.at \in {"bol", "cmd"} => stop = 0
    <2>1. Top \in Frames /\ (Top.at \in {"cmd", "run", "ran"} => Unfinished(Top.line))
      BY TopFrame
    <2>2. Top.at \in {"bol", "cmd"} => stop_state = 0
      BY DEF ShellPart, StopPending
    <2>3. Shape(f, stop) /\ Account(f, r, stop) = m /\ f.kind = boot.runs /\ f.lines = Played
      BY <1>1, PlaysMeans
    <2>4. f.at = "eol" => f.line # <<>>
      BY <2>3 DEF Shape
    <2> QED
      BY <1>1, <2>1, <2>2, <2>3, <2>4 DEF Unfinished
  <1>3. f.kind = "scriptlet" => Len(f.lines) <= 1
    BY <1>2 DEF Played
  <1>4. IsSimple(f.lines)
    BY <1>2
  <1>5. /\ f.line \in Seq(Executed) /\ f.rc \in Statuses /\ f.n \in Nat \ {0} /\ f.lines \in Scripts
        /\ f.line # <<>> => /\ Head(f.line) \in Executed /\ Tail(f.line) \in Seq(Executed)
                            /\ 1 \in DOMAIN f.line /\ Head(f.line) = f.line[1]
    <2>1. f.line \in Seq(Executed) /\ f.rc \in Statuses /\ f.n \in Nat \ {0} /\ f.lines \in Scripts
      BY <1>2, FrameTyped
    <2> QED
      BY <2>1
  <1>6. ASSUME NEW g \in Frames, SetTop(g), g.kind = f.kind, g.lines = f.lines,
               NEW s, NEW halt, ran' = s, stop_state' = halt, s \in Seq(Arguments),
               Shape(g, halt), Account(g, s, halt) = Account(f, r, stop)
        PROVE  Goal
    <2>1. Account(g, s, halt) = Meant(g.kind, g.lines) /\ g.kind = boot.runs /\ g.lines = Played
      BY <1>2, <1>6
    <2>2. Running' /\ Len(stack') = 1 /\ Plays(Top)'
      BY <1>6, <2>1, OneKeeps
    <2> QED
      BY <1>6, <2>2
  <1>7. ASSUME EndFrame(f.rc), ran' = ran,
               \/ f.at = "bol" /\ f.n > Len(f.lines) /\ f.kind = "script" /\ stop = 0
               \/ /\ f.at = "eol" /\ f.line # <<>>
                  /\ f.kind = "scriptlet" \/ stop # 0 \/ (f.kind = "script" /\ f.rc # OK)
        PROVE  Goal
    <2>1. ~Running' /\ ret' = f.rc
      BY <1>7, OneEnds
    <2>2. Account(f, r, stop).ran = r /\ Account(f, r, stop).rc = f.rc
      BY <1>2, <1>7, EndKeeps
    <2> QED
      BY <1>1, <1>2, <1>7, <2>1, <2>2
  <1> HIDE DEF Goal, m
  <1>8. CASE Skip \/ Simple \/ Exit
    <2> DEFINE c == Head(f.line)
    <2>1. f.at = "cmd" /\ f.line # <<>> /\ stop = 0 /\ Command = c
      BY <1>1, <1>2, <1>8 DEF Skip, Simple, Exit, At, Command
    <2>2. c.rc \in Statuses
      BY <1>1, <2>1, CommandTyped
    <2> HIDE DEF c
    <2>3. PICK g : g = [f EXCEPT !.at = "ran", !.rc = IF f.process THEN c.rc ELSE f.rc]
      OBVIOUS
    <2>4. PICK s : s = IF f.process /\ c.op = "simple" THEN Append(r, c.arg) ELSE r
      OBVIOUS
    <2>5. PICK halt : halt = IF f.process /\ c.op = "exit" THEN SHELL_STOP_COMMAND_SEQUENCE ELSE 0
      OBVIOUS
    <2>6. SetTop(g) /\ ran' = s /\ stop_state' = halt
      <3>1. CASE Skip
        <4>1. ~f.process /\ ran' = ran /\ stop_state' = stop_state /\ SetTop([f EXCEPT !.at = "ran"])
          BY <1>1, <3>1 DEF Skip
        <4>2. [f EXCEPT !.at = "ran"] = [f EXCEPT !.at = "ran", !.rc = f.rc]
          BY <1>2 DEF Frames
        <4> QED
          BY <1>1, <2>1, <2>3, <2>4, <2>5, <4>1, <4>2
      <3>2. CASE Simple
        <4>1. f.process /\ c.op = "simple" /\ ran' = Append(ran, c.arg) /\ stop_state' = stop_state
              /\ SetTop([f EXCEPT !.at = "ran", !.rc = c.rc])
          BY <1>1, <2>1, <3>2 DEF Simple, Ran
        <4> QED
          BY <1>1, <2>1, <2>3, <2>4, <2>5, <4>1
      <3>3. CASE Exit
        <4>1. f.process /\ c.op = "exit" /\ ran' = ran /\ stop_state' = SHELL_STOP_COMMAND_SEQUENCE
              /\ SetTop([f EXCEPT !.at = "ran", !.rc = c.rc])
          BY <1>1, <2>1, <3>3 DEF Exit, Ran
        <4> QED
          BY <1>1, <2>1, <2>3, <2>4, <2>5, <4>1
      <3> QED
        BY <1>8, <3>1, <3>2, <3>3
    <2>7. /\ g \in Frames /\ g.kind = f.kind /\ g.lines = f.lines /\ g.n = f.n /\ g.line = f.line
          /\ g.at = "ran" /\ g.rc = IF f.process THEN c.rc ELSE f.rc
      BY <1>2, <2>2, <2>3 DEF Frames
    <2>8. Account(g, s, halt) = Account(f, r, 0) /\ Shape(g, halt) /\ s \in Seq(Arguments)
      <3>1. Counts(f, g, r, s, halt)
        BY <2>4, <2>5, <2>7 DEF c, Counts
      <3>2. f \in Frames /\ f.at = "cmd" /\ f.line # <<>> /\ Shape(f, 0) /\ r \in Seq(Arguments)
        BY <1>2, <2>1
      <3> QED
        BY <2>7, <3>1, <3>2, CommandKeeps
    <2> QED
      BY <1>6, <2>1, <2>6, <2>7, <2>8
  <1>9. CASE AfterCommand
    <2>1. f.at = "ran" /\ f.line # <<>> /\ Command = Head(f.line) /\ ran' = r
      BY <1>1, <1>2, <1>9 DEF AfterCommand, At, Command
    <2>2. stop \in {0, 2} /\ SHELL_STOP_COMMAND = 1
      BY <1>2 DEF Shape, SHELL_STOP_COMMAND, SHELL_STOP_COMMAND_SEQUENCE
    <2>3. stop_state' = stop /\ (Stopped(SHELL_STOP_COMMAND) <=> stop # 0)
      BY <1>1, <1>9, <2>2 DEF AfterCommand, Consume, Stopped
    <2>4. CASE stop # 0 \/ Head(f.line).next = "end"
      <3>1. PICK g : g = [f EXCEPT !.at = "eol"]
        OBVIOUS
      <3>2. /\ g \in Frames /\ g.kind = f.kind /\ g.lines = f.lines /\ g.n = f.n /\ g.line = f.line
            /\ g.at = "eol" /\ g.rc = f.rc
        BY <1>2, <3>1 DEF Frames
      <3>3. SetTop(g)
        BY <1>1, <1>9, <2>1, <2>3, <2>4, <3>1 DEF AfterCommand
      <3>4. Account(g, r, stop) = Account(f, r, stop) /\ Shape(g, stop)
        BY <1>2, <2>1, <2>4, <3>2, EolKeeps
      <3> QED
        BY <1>2, <1>6, <2>1, <2>3, <3>2, <3>3, <3>4
    <2>5. CASE stop = 0 /\ Head(f.line).next # "end"
      <3>1. PICK g : g = [f EXCEPT !.at = "cmd", !.line = Tail(f.line),
                                   !.process = Process(Head(f.line).next, f.rc)]
        OBVIOUS
      <3>2. Tail(f.line) \in Seq(Commands \cup {UserExit})
        BY <1>5, <2>1 DEF Executed
      <3>3. Process(Head(f.line).next, f.rc) \in BOOLEAN
        BY DEF Process
      <3>4. /\ g \in Frames /\ g.kind = f.kind /\ g.lines = f.lines /\ g.n = f.n /\ g.line = Tail(f.line)
            /\ g.at = "cmd" /\ g.rc = f.rc /\ g.process = Process(Head(f.line).next, f.rc)
        BY <1>2, <3>1, <3>2, <3>3 DEF Frames
      <3>5. SetTop(g)
        BY <1>1, <1>9, <2>1, <2>3, <2>5, <3>1 DEF AfterCommand
      <3>6. Account(g, r, 0) = Account(f, r, 0) /\ Shape(g, 0)
        BY <1>2, <2>1, <2>5, <3>4, AfterKeeps
      <3> QED
        BY <1>2, <1>6, <2>1, <2>3, <2>5, <3>4, <3>5, <3>6
    <2> QED
      BY <2>4, <2>5
  <1>10. CASE StartLine
    <2>1. f.at = "bol" /\ f.n <= Len(f.lines) /\ stop = 0 /\ stop_state' = 0 /\ ran' = r
      BY <1>1, <1>2, <1>10 DEF StartLine, At
    <2>2. PICK g : g = [f EXCEPT !.at = "cmd", !.line = f.lines[f.n], !.n = f.n + 1,
                                 !.process = TRUE, !.rc = OK]
      OBVIOUS
    <2>3. f.lines[f.n] \in Seq(Commands \cup {UserExit})
      <3>1. f.n \in DOMAIN f.lines
        BY <1>5, <2>1 DEF Scripts
      <3>2. f.lines[f.n] \in Lines
        BY <1>5, <3>1 DEF Scripts
      <3>3. f.lines[f.n] \in Seq(Commands)
        BY <3>2 DEF Lines
      <3> QED
        BY <3>3
    <2>4. f.n + 1 \in Nat \ {0} /\ OK \in Statuses
      BY <1>5, PingAssumption
    <2>5. /\ g \in Frames /\ g.kind = f.kind /\ g.lines = f.lines /\ g.n = f.n + 1 /\ g.line = f.lines[f.n]
          /\ g.at = "cmd" /\ g.process
      BY <1>2, <2>2, <2>3, <2>4 DEF Frames
    <2>6. SetTop(g)
      <3>1. SetTop([Top EXCEPT !.at = "cmd", !.line = Top.lines[Top.n], !.n = @ + 1,
                               !.process = TRUE, !.rc = OK])
        BY <1>10 DEF StartLine
      <3> QED
        BY <1>1, <2>2, <3>1
    <2>7. Account(g, r, 0) = Account(f, r, 0) /\ Shape(g, 0)
      BY <1>2, <1>3, <1>4, <2>1, <2>5, StartKeeps
    <2> QED
      BY <1>2, <1>6, <2>1, <2>5, <2>6, <2>7
  <1>11. CASE LeaveShell
    <2>1. /\ f.at = "bol" /\ f.n > Len(f.lines) /\ f.kind = "shell"
          /\ stop = 0 /\ stop_state' = 0 /\ ran' = r
      BY <1>1, <1>2, <1>11 DEF LeaveShell, At
    <2>2. PICK g : g = [f EXCEPT !.at = "cmd", !.process = TRUE, !.line = <<UserExit>>]
      OBVIOUS
    <2>3. <<UserExit>> \in Seq(Commands \cup {UserExit})
      OBVIOUS
    <2>4. /\ g \in Frames /\ g.kind = f.kind /\ g.lines = f.lines /\ g.n = f.n /\ g.line = <<UserExit>>
          /\ g.at = "cmd" /\ g.process /\ g.rc = f.rc
      BY <1>2, <2>2, <2>3 DEF Frames
    <2>5. SetTop(g)
      BY <1>1, <1>11, <2>2 DEF LeaveShell
    <2>6. Account(g, r, 0) = Account(f, r, 0) /\ Shape(g, 0)
      BY <1>2, <2>1, <2>4, LeaveKeeps
    <2> QED
      BY <1>2, <1>6, <2>1, <2>4, <2>5, <2>6
  <1>12. CASE EndScript
    <2>1. /\ f.at = "bol" /\ f.n > Len(f.lines) /\ f.kind = "script" /\ stop = 0
          /\ EndFrame(f.rc) /\ ran' = ran
      BY <1>1, <1>2, <1>12 DEF EndScript, At
    <2> QED
      BY <1>7, <2>1
  <1>13. CASE EndLine
    <2>1. f.at = "eol" /\ ran' = ran /\ f.line # <<>>
      BY <1>1, <1>2, <1>13 DEF EndLine, At
    <2>2. CASE f.kind = "scriptlet"
      <3>1. EndFrame(f.rc)
        BY <1>1, <1>13, <2>2 DEF EndLine
      <3> QED
        BY <1>7, <2>1, <2>2, <3>1
    <2>3. CASE f.kind # "scriptlet"
      <3>1. stop \in {0, 2} /\ SHELL_STOP_COMMAND_SEQUENCE = 2
        BY <1>2 DEF Shape, SHELL_STOP_COMMAND_SEQUENCE
      <3>2. stop_state' = 0 /\ (Stopped(SHELL_STOP_COMMAND_SEQUENCE) <=> stop # 0)
        BY <1>1, <1>13, <2>3, <3>1 DEF EndLine, Consume, Stopped
      <3>3. CASE stop # 0 \/ (f.kind = "script" /\ f.rc # OK)
        <4>1. EndFrame(f.rc)
          BY <1>1, <1>13, <2>3, <3>2, <3>3 DEF EndLine
        <4> QED
          BY <1>7, <2>1, <3>3, <4>1
      <3>4. CASE stop = 0 /\ (f.kind = "script" => f.rc = OK)
        <4>1. PICK g : g = [f EXCEPT !.at = "bol"]
          OBVIOUS
        <4>2. /\ g \in Frames /\ g.kind = f.kind /\ g.lines = f.lines /\ g.n = f.n /\ g.line = f.line
              /\ g.at = "bol" /\ g.rc = f.rc
          BY <1>2, <4>1 DEF Frames
        <4>3. SetTop(g)
          BY <1>1, <1>13, <2>3, <3>2, <3>4, <4>1 DEF EndLine
        <4>4. Account(g, r, 0) = Account(f, r, 0) /\ Shape(g, 0)
          BY <1>2, <2>1, <3>4, <4>2, LineKeeps
        <4>5. ran' = r
          BY <1>1, <2>1
        <4> QED
          BY <1>2, <1>6, <3>2, <3>4, <4>2, <4>3, <4>4, <4>5
      <3> QED
        BY <3>3, <3>4
    <2> QED
      BY <2>2, <2>3
  <1>14. ~(NoMemory \/ Goto \/ Sleep \/ RunImage \/ RunJob \/ JobEnded)
    <2>1. f.at # "run"
      BY <1>2 DEF Shape
    <2>2. f.at = "cmd" => Command.op \in {"simple", "exit"}
      BY <1>1, <1>2, <1>5 DEF Shape, LineIsSimple, Command
    <2> QED
      BY <1>1, <2>1, <2>2 DEF NoMemory, Goto, Sleep, RunImage, RunJob, JobEnded, At, JobCommands
  <1> QED
    BY <1>8, <1>9, <1>10, <1>11, <1>12, <1>13, <1>14 DEF ShellStep

\* The account of a script while it is run, and what it is computed from.
Accounted == ran \in Seq(Arguments) /\ env \in Setups /\ ShellExact /\ ShellSoFar

\* What is left alone keeps its account.
LEMMA AccountStays ==
  ASSUME Accounted, UNCHANGED <<env, boot, stack, stop_state, ret, ran>>
  PROVE  Accounted'
  <1>1. Played' = Played /\ PlaysSimple' = PlaysSimple
    BY DEF Played, PlaysSimple
  <1>2. Running' = Running /\ Top' = Top /\ SoFar(Top)' = SoFar(Top)
    BY DEF Running, Top, SoFar
  <1>3. Plays(Top)' = Plays(Top)
    BY <1>1, <1>2 DEF Plays
  <1>4. ShellSoFar'
    BY <1>1, <1>2, <1>3 DEF Accounted, ShellSoFar
  <1>5. ShellExact'
    BY <1>1 DEF Accounted, ShellExact
  <1> QED
    BY <1>4, <1>5 DEF Accounted

\* Nor is there one to give of a boot from a device.
LEMMA NoAccount ==
  ASSUME Accounted, UNCHANGED <<env, ran>>, boot'.d # "none", boot'.at # "last"
  PROVE  Accounted'
  BY DEF Accounted, ShellExact, ShellSoFar, PlaysSimple

\* What ipxe() runs starts with nothing executed and all commands left.
LEMMA AccountOpens ==
  ASSUME Accounted, IfPart, ShellPart, ~Running, boot \in BootType, boot.at \in {"start", "next"},
         NEW kind \in {"script", "shell", "scriptlet"}, NEW lines \in Scripts, RunLast(kind, lines),
         UNCHANGED <<env, stop_state, ran>>, boot'.runs = kind => lines = Played'
  PROVE  Accounted'
  <1>1. boot' = [boot EXCEPT !.at = "last", !.runs = kind] /\ Run(kind, lines)
    BY DEF RunLast
  <1>2. boot'.at = "last" /\ boot'.runs = kind /\ boot'.d = boot.d /\ lines = Played' /\ kind # "none"
    BY <1>1 DEF BootType
  <1>3. stack = <<>> /\ stop_state = 0
    BY NothingRuns
  <1>4. PICK g : g = Frame(kind, lines)
    OBVIOUS
  <1>5. /\ g \in Frames /\ g.kind = kind /\ g.lines = lines /\ g.at = "bol" /\ g.n = 1 /\ g.line = <<>>
        /\ g.rc = OK
    BY <1>4, NewFrame DEF Frame
  <1>6. stack' = Append(<<>>, g)
    BY <1>1, <1>3, <1>4 DEF Run
  <1>7. stack' \in Seq(Frames) /\ Len(stack') = 1 /\ stack'[1] = g
    <2>1. <<>> \in Seq(Frames) /\ Len(<<>>) = 0
      BY EmptySeq
    <2> QED
      BY <1>5, <1>6, <2>1, AppendProperties
  <1>8. Running' /\ Top' = g
    <2>1. stack' # <<>>
      BY <1>7, StackDomain
    <2> QED
      BY <1>7, <2>1 DEF Running, Top, Last
  <1>9. ASSUME ran = <<>> PROVE Plays(Top)'
    <2>1. SoFar(Top)' = [ran |-> <<>>, rc |-> OK, next |-> "end", over |-> FALSE]
      BY <1>5, <1>8, <1>9 DEF SoFar
    <2>2. LeftOf(g) = CommandsFrom(kind, lines, 1)
      <3>1. CommandsFrom(kind, lines, 1) \in Seq(Executed)
        BY <1>5, FrameTyped
      <3>2. <<>> \o CommandsFrom(kind, lines, 1) = CommandsFrom(kind, lines, 1)
        BY <3>1, ConcatEmptySeq
      <3> QED
        BY <1>5, <3>2 DEF LeftOf
    <2>3. MeantAfter(Top.kind, SoFar(Top), LeftOf(Top))' = Meant(kind, lines)
      BY <1>5, <1>8, <2>1, <2>2 DEF Meant
    <2>4. DOMAIN g.line = {} /\ stop_state' = 0
      BY <1>3, <1>5
    <2> QED
      BY <1>2, <1>5, <1>8, <2>3, <2>4 DEF Plays
  <1>10. boot.d = "none" => ran = <<>>
    BY DEF Accounted, ShellSoFar
  <1>11. ShellSoFar'
    BY <1>2, <1>7, <1>8, <1>9, <1>10 DEF ShellSoFar, PlaysSimple
  <1>12. ShellExact'
    BY <1>2 DEF ShellExact
  <1> QED
    BY <1>11, <1>12 DEF Accounted

\* Every step of a boot.
LEMMA BootAccounts ==
  ASSUME Accounted, IfPart, ShellPart, BootPart, BootStep
  PROVE  Accounted'
  <1>1. /\ boot \in BootType /\ {env.image, env.typed, env.scriptlet} \subseteq Scripts
        /\ env' = env /\ ran' = ran
    BY BootFields DEF BootStep, Main, NoMoreDevices, MainEnds, SkipDevice, OpenNext, ConfigureDevice, DeviceConfigured,
       Choose, Hook, Describe, Download, ImageEnds, SanBoot, Unhook, bootVars, shellVars
  <1>2. \A kind, lines : RunLast(kind, lines) => boot'.runs = kind
    BY <1>1 DEF RunLast, BootType
  <1>3. CASE Main
    <2>1. BootAt("start") /\ UNCHANGED stop_state
      BY <1>3 DEF Main
    <2>2. CASE RunLast("script", env.image) \/ RunLast("shell", env.typed) \/ RunLast("scriptlet", env.scriptlet)
      BY <1>1, <1>2, <2>1, <2>2, AccountOpens DEF BootAt, Played
    <2>3. CASE boot' = [boot EXCEPT !.at = "next", !.devs = Devs]
      <3>1. boot'.at = "next" /\ boot'.runs = boot.runs /\ boot'.d = boot.d
        BY <1>1, <2>3 DEF BootType
      <3> QED
        BY <1>1, <2>1, <3>1 DEF Accounted, ShellExact, ShellSoFar, PlaysSimple, BootAt
    <2> QED
      BY <1>3, <2>2, <2>3 DEF Main
  <1>4. CASE NoMoreDevices
    <2>1. BootAt("next") /\ UNCHANGED stop_state
      BY <1>4 DEF NoMoreDevices
    <2>2. CASE RunLast("shell", env.typed)
      BY <1>1, <1>2, <2>1, <2>2, AccountOpens DEF BootAt, Played
    <2>3. CASE Go("done")
      <3>1. boot'.at = "done" /\ boot'.runs = boot.runs /\ boot'.d = boot.d
        BY <1>1, <2>3 DEF BootType, Go
      <3> QED
        BY <1>1, <2>1, <3>1 DEF Accounted, ShellExact, ShellSoFar, PlaysSimple, BootAt
    <2> QED
      BY <1>4, <2>2, <2>3 DEF NoMoreDevices
  <1>5. CASE MainEnds
    <2>1. boot.at = "last" /\ ~Running
      BY <1>5 DEF MainEnds, BootAt
    <2>2. boot'.at = "done" /\ boot'.runs = boot.runs /\ boot'.d = boot.d /\ boot'.rc = ret
      BY <1>1, <1>5 DEF MainEnds, GoWith, BootType
    <2>3. PlaysSimple' = PlaysSimple /\ Played' = Played
      BY <1>1, <2>2 DEF PlaysSimple, Played
    <2>4. ShellExact'
      BY <1>1, <2>1, <2>2, <2>3 DEF Accounted, ShellSoFar, ShellExact
    <2>5. ShellSoFar'
      BY <2>2 DEF ShellSoFar
    <2> QED
      BY <1>1, <2>4, <2>5 DEF Accounted
  <1>6. CASE SkipDevice
    <2>1. boot.at = "next" /\ UNCHANGED stop_state
      BY <1>6 DEF SkipDevice, BootAt, shellVars
    <2>2. boot'.at = "next" /\ boot'.runs = boot.runs /\ boot'.d = boot.d
      BY <1>1, <1>6, <2>1 DEF BootType, SkipDevice
    <2> QED
      BY <1>1, <2>1, <2>2 DEF Accounted, ShellExact, ShellSoFar, PlaysSimple
  <1>8. CASE OpenNext
    <2>1. Head(boot.devs) \in DevSet
      BY <1>1, <1>8, HeadTailProperties DEF OpenNext, BootType
    <2>2. Head(boot.devs) # "none"
      <3>1. DevSet \subseteq Names
        BY DevicesListed, IfAssumption DEF DevSet, ToSet
      <3> QED
        BY <2>1, <3>1, IfAssumption
    <2>3. boot'.d = Head(boot.devs) /\ boot'.at \in {"next", "conf"}
      BY <1>1, <1>8 DEF OpenNext, BootType
    <2> QED
      BY <1>1, <2>2, <2>3, NoAccount
  <1>7. CASE /\ ConfigureDevice \/ DeviceConfigured \/ Choose \/ Hook \/ Describe \/ Download
                \/ ImageEnds \/ SanBoot \/ Unhook
    <2>1. boot.at \in {"conf", "choose", "hook", "describe", "load", "exec", "san", "unhook"}
      BY <1>7 DEF ConfigureDevice, DeviceConfigured, Choose, Hook, Describe, Download, ImageEnds, SanBoot,
         Unhook, BootAt
    <2>2. boot.d # "none"
      BY <2>1 DEF Accounted, ShellSoFar
    <2>3. /\ boot'.d = boot.d
          /\ boot'.at # "last"
      BY <1>1, <1>7, <2>1 DEF ConfigureDevice, DeviceConfigured, Choose, Hook, Describe, DescribeFails, Download,
         ImageEnds, SanBoot, Unhook, Go, GoWith, bootVars, BootType
    <2> QED
      BY <1>1, <2>2, <2>3, NoAccount
  <1> QED
    BY <1>3, <1>4, <1>5, <1>6, <1>7, <1>8 DEF BootStep

\* Every step of the interpreter.
LEMMA ShellAccounts ==
  ASSUME Accounted, IfPart, ShellPart, ShellStep, UNCHANGED bootVars
  PROVE  Accounted'
  <1>1. Running
    BY DEF ShellStep, Skip, Simple, NoMemory, Exit, Goto, Sleep, RunImage, RunJob, JobEnded, AfterCommand,
       StartLine, EndScript, LeaveShell, EndLine, At
  <1>2. boot' = boot /\ env' = env /\ Played' = Played /\ PlaysSimple' = PlaysSimple
    BY DEF bootVars, Played, PlaysSimple
  <1>3. boot.at \in {"last", "exec"}
    BY <1>1 DEF IfPart, Waiting
  <1>4. ran' \in Seq(Arguments)
    <2>1. CASE Simple
      <3>1. Command \in Executed
        BY <1>1, <2>1, CommandTyped DEF Simple, At, Executed
      <3>2. Command.arg \in Arguments
        BY <3>1 DEF Arguments
      <3> QED
        BY <2>1, <3>2, AppendProperties DEF Simple, Accounted
    <2>2. CASE ~Simple
      <3>1. ran' = ran
        BY <2>2 DEF ShellStep, Skip, NoMemory, Exit, Goto, Sleep, RunImage, RunJob, JobEnded, AfterCommand,
           StartLine, EndScript, LeaveShell, EndLine
      <3> QED
        BY <3>1 DEF Accounted
    <2> QED
      BY <2>1, <2>2
  <1>5. ASSUME boot.at = "last", PlaysSimple
        PROVE  LET m == Meant(boot.runs, Played)
               IN IF Running' THEN Len(stack') = 1 /\ Plays(Top)' ELSE ran' = m.ran /\ ret' = m.rc
    <2>1. Len(stack) = 1 /\ Plays(Top) /\ ran \in Seq(Arguments)
      BY <1>1, <1>5 DEF Accounted, ShellSoFar
    <2>2. IsSimple(Played) /\ Len(env.scriptlet) <= 1
      BY <1>5, SetupsAssumption DEF Accounted, PlaysSimple
    <2> QED
      BY <1>1, <2>1, <2>2, SimpleSteps
  <1>6. ShellSoFar'
    BY <1>2, <1>3, <1>5 DEF Accounted, ShellSoFar
  <1>7. ShellExact'
    BY <1>2, <1>3 DEF ShellExact
  <1> QED
    BY <1>2, <1>4, <1>6, <1>7 DEF Accounted

\* A script of simple commands (exec.c's system(), process_script) executes just
\* the commands that the terminators, exit and failing lines allow, and ends with
\* the status of the last one, which is what the machine is left with.
THEOREM ShellMeans == Spec => []ShellInv
  <1>1. Init => Accounted
    <2> SUFFICES ASSUME Init PROVE Accounted
      OBVIOUS
    <2>1. boot.at = "start" /\ boot.runs = "none" /\ ran = <<>> /\ env \in Setups
      BY DEF Init, ShellInit
    <2>2. <<>> \in Seq(Arguments)
      BY EmptySeq
    <2> QED
      BY <2>1, <2>2 DEF Accounted, ShellExact, ShellSoFar, PlaysSimple
  <1>2. IInv /\ Accounted /\ [Next]_vars => Accounted'
    <2> SUFFICES ASSUME IInv, Accounted, [Next]_vars PROVE Accounted'
      OBVIOUS
    <2>1. IfPart /\ ShellPart /\ BootPart
      BY Parts
    <2>2. CASE BootStep
      BY <2>1, <2>2, BootAccounts
    <2>3. CASE ShellStep /\ UNCHANGED bootVars
      BY <2>1, <2>3, ShellAccounts
    <2>4. CASE IfStep /\ Others
      BY <2>4, AccountStays DEF Others, shellVars, bootVars
    <2>5. CASE UNCHANGED vars
      BY <2>5, AccountStays DEF vars, shellVars, bootVars
    <2> QED
      BY <2>2, <2>3, <2>4, <2>5 DEF Next, Terminated
  <1>3. Accounted => ShellExact /\ ShellSoFar
    BY DEF Accounted
  <1> QED
    BY <1>1, <1>2, <1>3, Invariance, StopsConsumed, PTL DEF Spec, ShellInv

=============================================================================

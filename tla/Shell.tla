-------------------------------- MODULE Shell --------------------------------
(***************************************************************************)
(* The iPXE command interpreter (exec.c): system() runs the commands of a  *)
(* line, scripts and the interactive shell run lines, and a command may    *)
(* run another script.  One static stop state says how much of all this    *)
(* has to stop.                                                            *)
(*                                                                         *)
(* A line is a sequence of commands, each with the terminator that follows *)
(* it ("end" at the end of the line).  A command is [op, rc, arg, next]:   *)
(* "simple" commands just have a status.                                   *)
(***************************************************************************)
EXTENDS IfMgmt

CONSTANT Commands       \* the commands that scripts are made of

JobCommands == {"ping", "ifopen", "ifclose", "ifstat", "ifconf"}

\* A line, and a script: the lines between which goto may jump.
Lines ==
  {l \in Seq(Commands) : l # <<>> /\ \A i \in DOMAIN l : l[i].next = "end" <=> i = Len(l)}
Scripts == Seq(Lines)

ASSUME CommandsAssumption ==
  /\ "ENOMEM" \in Statuses
  /\ \A c \in Commands :
       /\ c.rc \in Statuses
       /\ c.op = "image" => c.arg \in Scripts
       /\ c.op = "goto" => c.arg \in Nat \ {0}
       /\ c.op = "ping" => c.arg \in Nat
       /\ c.op \in {"ifopen", "ifclose", "ifstat", "ifconf"} => c.arg \in Seq(Names)

VARIABLES
  stack,                \* what is being run, innermost last
  stop_state,           \* 0, SHELL_STOP_COMMAND or ..._COMMAND_SEQUENCE
  ret,                  \* status of the last script or shell that ended
  ran                   \* simple commands executed so far (checking)

shellVars == <<stack, stop_state, ret, ran>>
jobsAndDevs == <<jobVars, pingVars, ifVars>>

SHELL_STOP_COMMAND == 1
SHELL_STOP_COMMAND_SEQUENCE == 2

\* "bol" before a line, "cmd" before a command, "run" while it runs something
\* else, "ran" after it, "eol" after the line.
Frame(kind, lines) ==
  [kind |-> kind, lines |-> lines, at |-> "bol", n |-> 1, line |-> <<>>,
   process |-> TRUE, rc |-> OK]

ShellInit == stack = <<>> /\ stop_state = 0 /\ ret = OK /\ ran = <<>>

Run(kind, lines) == stack' = Append(stack, Frame(kind, lines))

Running == stack # <<>>
Top == Last(stack)
At(where) == Running /\ Top.at = where
SetTop(f) == stack' = [stack EXCEPT ![Len(stack)] = f]
Command == Head(Top.line)

-----------------------------------------------------------------------------
(***************************************************************************)
(* system(): the commands of a line.                                       *)
(***************************************************************************)
Stopped(stop) == stop_state >= stop

Consume(stop) == stop_state' = IF stop_state <= stop THEN 0 ELSE stop_state

Ran(rc) == SetTop([Top EXCEPT !.at = "ran", !.rc = rc])

Skip ==
  /\ At("cmd") /\ ~Top.process
  /\ SetTop([Top EXCEPT !.at = "ran"])
  /\ UNCHANGED <<stop_state, ret, ran, jobsAndDevs>>

Simple ==
  /\ At("cmd") /\ Top.process /\ Command.op = "simple"
  /\ Ran(Command.rc)
  /\ ran' = Append(ran, Command.arg)
  /\ UNCHANGED <<stop_state, ret, jobsAndDevs>>

\* An argument cannot be expanded: no memory.
NoMemory ==
  /\ At("cmd") /\ Top.process /\ Command.op = "nomem"
  /\ SetTop([Top EXCEPT !.at = "eol", !.rc = "ENOMEM"])
  /\ UNCHANGED <<stop_state, ret, ran, jobsAndDevs>>

Exit ==
  /\ At("cmd") /\ Top.process /\ Command.op = "exit"
  /\ Ran(Command.rc)
  /\ stop_state' = SHELL_STOP_COMMAND_SEQUENCE
  /\ UNCHANGED <<ret, ran, jobsAndDevs>>

\* goto (not in src/): the script continues at another line, and the rest of
\* this one is not run.
Goto ==
  /\ At("cmd") /\ Top.process /\ Command.op = "goto"
  /\ SetTop([Top EXCEPT !.at = "ran", !.rc = OK, !.n = Command.arg])
  /\ stop_state' = SHELL_STOP_COMMAND
  /\ UNCHANGED <<ret, ran, jobsAndDevs>>

\* Sleeping can be canceled.
Sleep ==
  /\ At("cmd") /\ Top.process /\ Command.op = "sleep"
  /\ Ran(OK) \/ Ran("ECANCELED")
  /\ UNCHANGED <<stop_state, ret, ran, jobsAndDevs>>

\* image_exec of a script.
RunImage ==
  /\ At("cmd") /\ Top.process /\ Command.op = "image"
  /\ stack' = Append([stack EXCEPT ![Len(stack)].at = "run"], Frame("script", Command.arg))
  /\ UNCHANGED <<stop_state, ret, ran, jobsAndDevs>>

\* ping and the interface commands: with no arguments, all interfaces.
RunJob ==
  /\ At("cmd") /\ Top.process /\ Command.op \in JobCommands
  /\ SetTop([Top EXCEPT !.at = "run"])
  /\ IF Command.op = "ping"
     THEN /\ cmd' = [name |-> "ping", all |-> <<>>, devs |-> <<"host">>, rc |-> OK]
          /\ \/ CreatePinger(Command.arg)
             \/ PingFails
     ELSE /\ StartIf(Command.op, IF Command.arg = <<>> THEN Devs ELSE Command.arg)
          /\ UNCHANGED <<jobVars, pingVars>>
  /\ UNCHANGED <<stop_state, ret, ran, dev, ct, ifc>>

JobEnded ==
  /\ At("run") /\ CmdRuns /\ cmd.devs = <<>>
  /\ Ran(cmd.rc)
  /\ cmd' = NoCmd
  /\ UNCHANGED <<stop_state, ret, ran, jobVars, pingVars, dev, ct, ifc>>

\* Mutant of Process: "||" is taken for "&&".
ProcessMixed(next, rc) ==
  CASE next = ";" -> TRUE
    [] OTHER -> rc = OK

Process(next, rc) ==
  CASE next = "&&" -> rc = OK
    [] next = "||" -> rc # OK
    [] OTHER -> TRUE

AfterCommand ==
  /\ At("ran")
  /\ Consume(SHELL_STOP_COMMAND)
  /\ SetTop(IF Stopped(SHELL_STOP_COMMAND) \/ Command.next = "end"
            THEN [Top EXCEPT !.at = "eol"]
            ELSE [Top EXCEPT !.at = "cmd", !.line = Tail(@),
                             !.process = Process(Command.next, Top.rc)])
  /\ UNCHANGED <<ret, ran, jobsAndDevs>>

-----------------------------------------------------------------------------
(***************************************************************************)
(* The callers of system() that are not in src/: a script ends at a line   *)
(* that fails or stops the sequence, the interactive shell only at one     *)
(* that stops it, and a scriptlet is a single line.                        *)
(***************************************************************************)
StartLine ==
  /\ At("bol") /\ Top.n <= Len(Top.lines)
  /\ SetTop([Top EXCEPT !.at = "cmd", !.line = Top.lines[Top.n], !.n = @ + 1,
                        !.process = TRUE, !.rc = OK])
  /\ UNCHANGED <<stop_state, ret, ran, jobsAndDevs>>

\* What is run ends with a status; the command that ran it has that status.
EndFrame(rc) ==
  LET below == Front(stack)
  IN /\ ret' = rc
     /\ stack' = IF below = <<>> THEN <<>>
                 ELSE [below EXCEPT ![Len(below)].at = "ran", ![Len(below)].rc = rc]

\* A script ends after its last line.
EndScript ==
  /\ At("bol") /\ Top.n > Len(Top.lines) /\ Top.kind = "script"
  /\ EndFrame(Top.rc)
  /\ UNCHANGED <<stop_state, ran, jobsAndDevs>>

\* At the prompt of the shell, the user leaves in the end.
UserExit == [op |-> "exit", rc |-> OK, arg |-> <<>>, next |-> "end"]

LeaveShell ==
  /\ At("bol") /\ Top.n > Len(Top.lines) /\ Top.kind = "shell"
  /\ SetTop([Top EXCEPT !.at = "cmd", !.process = TRUE,
                        !.line = <<UserExit>>])
  /\ UNCHANGED <<stop_state, ret, ran, jobsAndDevs>>

EndLine ==
  /\ At("eol")
  /\ IF Top.kind = "scriptlet"
     THEN EndFrame(Top.rc) /\ UNCHANGED stop_state
     ELSE /\ Consume(SHELL_STOP_COMMAND_SEQUENCE)
          /\ IF Stopped(SHELL_STOP_COMMAND_SEQUENCE) \/ (Top.kind = "script" /\ Top.rc # OK)
             THEN EndFrame(Top.rc)
             ELSE SetTop([Top EXCEPT !.at = "bol"]) /\ UNCHANGED ret
  /\ UNCHANGED <<ran, jobsAndDevs>>

ShellStep ==
  \/ Skip \/ Simple \/ NoMemory \/ Exit \/ Goto \/ Sleep \/ RunImage \/ RunJob \/ JobEnded
  \/ AfterCommand \/ StartLine \/ EndScript \/ LeaveShell \/ EndLine

-----------------------------------------------------------------------------
(***************************************************************************)
(* Properties.                                                             *)
(***************************************************************************)
Frames ==
  [kind : {"script", "shell", "scriptlet"}, lines : Scripts,
   at : {"bol", "cmd", "run", "ran", "eol"}, n : Nat \ {0},
   line : Seq(Commands \cup {UserExit}), process : BOOLEAN, rc : Statuses]

\* A command that runs another one waits for it, and there is one to run.
ShellTypeOK ==
  /\ stack \in Seq(Frames)
  /\ \A i \in 1 .. Len(stack) - 1 : stack[i].at = "run"
  /\ \A i \in 1 .. Len(stack) : stack[i].at \in {"cmd", "run", "ran"} =>
       stack[i].line # <<>> /\ stack[i].line[Len(stack[i].line)].next = "end"
  /\ stop_state \in 0 .. SHELL_STOP_COMMAND_SEQUENCE
  /\ ret \in Statuses

(***************************************************************************)
(* What a script of simple commands means: a command of a line runs when   *)
(* its terminator lets it, nothing runs after exit, and a script ends at   *)
(* exit or at a line that fails.                                           *)
(***************************************************************************)
Lets(next, rc) == (next = "&&" => rc = OK) /\ (next = "||" => rc # OK)

\* The meaning of a command, given that of the commands and lines before it.
Meaning(kind, before, c) ==
  LET runs == ~before.over /\ Lets(before.next, before.rc)
      rc == IF runs THEN c.rc ELSE before.rc
      exits == before.over \/ (runs /\ c.op = "exit")
  IN [ran |-> IF runs /\ c.op = "simple" THEN Append(before.ran, c.arg) ELSE before.ran,
      rc |-> rc,
      next |-> c.next,
      over |-> exits \/ (kind = "script" /\ c.next = "end" /\ rc # OK)]

MeantAfter(kind, before, commands) ==
  FoldLeft(LAMBDA b, c : Meaning(kind, b, c), before, commands)

\* The commands of the lines from the n-th on; at the end of what is typed in
\* the shell the user leaves.
CommandsFrom(kind, lines, n) ==
  FlattenSeq(SubSeq(lines, n, Len(lines))) \o (IF kind = "shell" THEN <<UserExit>> ELSE <<>>)

Meant(kind, lines) ==
  MeantAfter(kind, [ran |-> <<>>, rc |-> OK, next |-> "end", over |-> FALSE],
             CommandsFrom(kind, lines, 1))

IsSimple(lines) ==
  \A i \in DOMAIN lines : \A j \in DOMAIN lines[i] : lines[i][j].op \in {"simple", "exit"}

\* What the commands of a frame have come to so far, and those that are left.
SoFar(f) ==
  LET after == f.at \in {"ran", "eol"}
  IN [ran |-> ran, rc |-> f.rc,
      next |-> CASE after -> Head(f.line).next
                 [] f.at = "cmd" /\ ~f.process -> IF f.rc = OK THEN "||" ELSE "&&"
                 [] OTHER -> "end",
      over |-> after /\ \/ stop_state # 0
                        \/ f.kind = "script" /\ Head(f.line).next = "end" /\ f.rc # OK]

LeftOf(f) ==
  (CASE f.at = "cmd" -> f.line
     [] f.at \in {"ran", "eol"} -> Tail(f.line)
     [] OTHER -> <<>>) \o CommandsFrom(f.kind, f.lines, f.n)

\* Between two lines nothing is left of a stop that an earlier line, or a
\* script it ran, asked for: no later line is cut short by it.
StopConsumed == At("bol") => stop_state = 0

=============================================================================

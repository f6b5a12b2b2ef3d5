-------------------------------- MODULE MCIpxe --------------------------------
(***************************************************************************)
(* Two network devices; the scripts, and what a boot may find.             *)
(***************************************************************************)
EXTENDS Autoboot

MCStatuses ==
  {OK, EINPROGRESS, "ETIMEDOUT", "ECANCELED", "EPING", "ESOCKET", "EPROTO", "EOPEN", "ECONF",
   "ELINK", "EADDRNOTAVAIL", "ENODEV", "ENOMEM", "ENOTSUP", "ENOENT", "ESAN", "EDESCRIBE",
   "EDOWNLOAD", "ESANBOOT", "EFAIL"}
MCDevs == <<"net0", "net1">>

C(op, rc, arg, next) == [op |-> op, rc |-> rc, arg |-> arg, next |-> next]
Echo(i, rc, next) == C("simple", rc, i, next)
Leave(rc, next) == C("exit", rc, <<>>, next)

\* Every line of at most three simple commands, and a second line that must
\* run, or not.
Verbs == {[op |-> "simple", rc |-> OK], [op |-> "simple", rc |-> "EFAIL"],
          [op |-> "exit", rc |-> OK], [op |-> "exit", rc |-> "EFAIL"]}
MCLines(n) ==
  {[i \in 1 .. n |-> C(v[i].op, v[i].rc, IF v[i].op = "exit" THEN <<>> ELSE i,
                    IF i = n THEN "end" ELSE t[i])] :
     v \in [1 .. n -> Verbs], t \in [1 .. n - 1 -> {"&&", "||", ";"}]}
SecondLine == <<Echo(9, "EFAIL", "||"), Echo(10, OK, "end")>>
SimpleScripts == {<<l, SecondLine>> : l \in MCLines(1) \cup MCLines(2) \cup MCLines(3)}

\* Scripts that run scripts, jump, run out of memory, sleep.
Nested(rc) == C("image", OK, <<<<Echo(1, OK, "&&"), Leave(rc, ";"), Echo(2, OK, "end")>>>>, "||")
NestingScripts ==
  {<<<<Nested(rc), Echo(3, OK, "end")>>, <<Echo(4, OK, "end")>>>> : rc \in {OK, "EFAIL"}} \cup
  {<<<<C("goto", OK, 3, ";"), Echo(1, OK, "end")>>, <<Echo(2, OK, "end")>>, <<Echo(3, OK, "end")>>>>,
   <<<<C("nomem", OK, <<>>, "||"), Echo(1, OK, "end")>>, <<Echo(2, OK, "end")>>>>,
   <<<<C("sleep", OK, <<>>, "||"), Leave("EFAIL", "end")>>, <<Echo(2, OK, "end")>>>>}

\* Scripts with jobs.
Ifconf1(devs, next) == C("ifconf", OK, devs, next)
JobScripts ==
  {<<<<C("ping", OK, n, "||"), Echo(1, OK, "end")>>>> : n \in 0 .. 3} \cup
  {<<<<Ifconf1(devs, "&&"), C("ping", OK, 1, "end")>>>> :
     devs \in {<<>>, <<"net1">>, <<"net1", "net0">>, <<"net0", "bogus">>}} \cup
  {<<<<C("ifopen", OK, <<>>, ";"), C("ifclose", OK, <<"net1">>, ";"), C("ifstat", OK, <<>>, ";"),
       Ifconf1(<<"net0", "net1">>, "end")>>>>,
   <<<<C("ping", OK, 1, ";"), Ifconf1(<<"net0">>, "end")>>>>}

Base == [image |-> <<>>, typed |-> <<>>, scriptlet |-> <<>>, file |-> <<>>,
         root |-> FALSE, menu |-> FALSE, keep |-> FALSE, skip |-> FALSE, auto |-> ToSet(MCDevs)]

\* What is booted over the network: a program that returns, or a script that
\* opens another device.
Files == {<<>>, <<<<Echo(1, "EFAIL", "end")>>>>,
          <<<<C("ifopen", OK, <<"net1", "net0">>, ";"), Leave(OK, "end")>>>>}

MCSetups ==
  {[Base EXCEPT !.image = s] : s \in SimpleScripts \cup NestingScripts \cup JobScripts} \cup
  {[Base EXCEPT !.typed = s, !.scriptlet = <<Head(s)>>] : s \in SimpleScripts} \cup
  {[Base EXCEPT !.file = f, !.root = b[1], !.keep = b[2], !.skip = b[3]] :
     f \in Files, b \in BOOLEAN \X BOOLEAN \X BOOLEAN} \cup
  {[Base EXCEPT !.menu = TRUE]} \cup
  {[Base EXCEPT !.file = f, !.root = TRUE, !.keep = TRUE, !.auto = a] :
     f \in Files, a \in {{}, {"net0"}, {"net1"}}}

\* The commands of all these scripts, and of those that they run.
MCCommands ==
  LET CommandsOf(script) == UNION {ToSet(script[i]) : i \in DOMAIN script}
      outer == UNION {UNION {CommandsOf(s) : s \in {e.image, e.typed, e.scriptlet, e.file}} :
                       e \in MCSetups}
  IN  outer \cup UNION {CommandsOf(c.arg) : c \in {c \in outer : c.op = "image"}}
=============================================================================

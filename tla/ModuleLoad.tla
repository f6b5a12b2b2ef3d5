----------------------------- MODULE ModuleLoad -----------------------------
(***************************************************************************)
(* module_load of com32/lib/sys/module/elf_module.c: loads a module with   *)
(* all that it needs, or undoes what it has loaded.  spawn_load, which     *)
(* calls module_load for a dependency and returns what that returned, and  *)
(* the list operations are not in the source tree; image_load reads the    *)
(* file from the PXE file system.                                          *)
(*                                                                         *)
(* A module is its name; Resident are those that need no file, the core of *)
(* the loader.  disk says of every module what it needs and what is wrong  *)
(* with it.  Modules that need each other are never loaded: a module is    *)
(* put on the list only after its dependencies.                            *)
(***************************************************************************)
EXTENDS PxeFs

CONSTANTS Modules, Resident, Disks

ASSUME LoadAssumption ==
  /\ "menu" \in Modules /\ "none" \notin Modules
  /\ Resident \in Seq(STRING) /\ Resident # <<>> /\ "none" \notin ToSet(Resident)
  /\ ToSet(Resident) \cap Modules = {}
  /\ \A i, j \in DOMAIN Resident : Resident[i] = Resident[j] => i = j
  /\ \A d \in Disks :
       /\ d.needed \in [Modules -> Seq(Modules)]
       /\ d.wrong \in [Modules -> {"nothing", "header", "needs", "symbols", "ctors"}]

VARIABLES
  disk,       \* the files of the modules
  modules,    \* modules_head: the module loaded last is the first
  stack,      \* the calls of module_load, the innermost first
  loaded      \* what the last one returned, and the list before it

loadVars == <<disk, modules, stack, loaded>>

EEXIST == 17
NoDisk == [needed |-> [m \in Modules |-> <<>>], wrong |-> [m \in Modules |-> "nothing"]]
NotLoaded == [mod |-> "none", rc |-> 0, before |-> <<>>]

LoadInit ==
  /\ disk = NoDisk
  /\ modules = Resident /\ stack = <<>> /\ loaded = NotLoaded

Top == stack[1]
TopIs(at) == stack # <<>> /\ Top.at = at
Goes(at) == stack' = [stack EXCEPT ![1].at = at]

\* before is history: the list when the call began.
Call(m) == [mod |-> m, at |-> "find", i |-> 0, head |-> "none", before |-> modules]

\* module_load returns; the caller sees the result.
LoadReturns(rc) ==
  /\ loaded' = [mod |-> Top.mod, rc |-> rc, before |-> Top.before]
  /\ stack' = IF Len(stack) = 1 THEN <<>>
              ELSE [Tail(stack) EXCEPT ![1].at = IF rc < 0 THEN "error" ELSE "next"]

\* module_find: no module is loaded twice.
FindModule ==
  /\ TopIs("find") /\ fs.at = "idle"
  /\ IF Top.mod \in ToSet(modules)
     THEN LoadReturns(EEXIST) /\ UNCHANGED fsVars
     ELSE /\ SearchDir /\ Goes("image")
          /\ UNCHANGED <<reply, inodes, lost, loaded>>
  /\ UNCHANGED <<disk, modules, tcpVars>>

\* image_load has read the file, or there is none.
ImageLoaded ==
  /\ TopIs("image") /\ fs.at \in {"closed", "notFound"} /\ tcp.at = "out"
  /\ IF fs.at = "notFound" THEN LoadReturns(-1)
     ELSE \/ Goes("prepare") /\ UNCHANGED loaded
          \/ ~got.clean /\ Goes("error") /\ UNCHANGED loaded
  /\ FsIdle
  /\ UNCHANGED <<disk, modules>>

\* check_header, load_segments and prepare_dynlinking; from then on head, the
\* module loaded last, says how far an error must unload.
Prepare ==
  /\ TopIs("prepare")
  /\ stack' = IF disk.wrong[Top.mod] \in {"header", "needs"}
              THEN [stack EXCEPT ![1].at = "error"]
              ELSE [stack EXCEPT ![1].at = "next", ![1].head = modules[1],
                                 ![1].i = Len(disk.needed[Top.mod]) + 1]
  /\ UNCHANGED <<disk, modules, loaded>>

\* Dependencies are loaded in reverse order; one that is there already is no
\* error.
Dependency ==
  /\ TopIs("next") /\ Top.i > 1
  /\ LET k == Top.i - 1 IN
     stack' = <<Call(disk.needed[Top.mod][k])>>
              \o [stack EXCEPT ![1].at = "waits", ![1].i = k]
  /\ UNCHANGED <<disk, modules, loaded>>

\* Mutant of Finish: what is wrong with the symbols is seen too late.
FinishUnchecked ==
  /\ TopIs("next") /\ Top.i = 1
  /\ modules' = <<Top.mod>> \o modules
  /\ IF disk.wrong[Top.mod] = "ctors" THEN Goes("error") /\ UNCHANGED loaded
     ELSE LoadReturns(IF disk.wrong[Top.mod] = "symbols" THEN -1 ELSE 0)
  /\ UNCHANGED disk

\* check_symbols, list_add, extract_operations and the constructors.
Finish ==
  /\ TopIs("next") /\ Top.i = 1
  /\ IF disk.wrong[Top.mod] = "symbols"
     THEN Goes("error") /\ UNCHANGED <<modules, loaded>>
     ELSE /\ modules' = <<Top.mod>> \o modules
          /\ IF disk.wrong[Top.mod] = "ctors" THEN Goes("error") /\ UNCHANGED loaded
             ELSE LoadReturns(0)
  /\ UNCHANGED disk

\* unload_modules_since: from the module loaded last to the one of that name,
\* which stays.
UnloadedSince(head) ==
  LET at == {i \in DOMAIN modules : modules[i] = head}
  IN IF at = {} THEN <<>>
     ELSE SubSeq(modules, CHOOSE i \in at : \A j \in at : i <= j, Len(modules))

\* The error path of module_load.
LoadError ==
  /\ TopIs("error")
  /\ LET left == IF Top.head = "none" THEN modules ELSE UnloadedSince(Top.head)
     IN modules' = RemoveFirst(left, Top.mod)     \* list_del_init
  /\ LoadReturns(-1)
  /\ UNCHANGED disk

LoadStep ==
  \/ FindModule \/ ImageLoaded
  \/ (Prepare \/ Dependency \/ Finish \/ LoadError) /\ UNCHANGED <<fsVars, tcpVars>>

-----------------------------------------------------------------------------
(***************************************************************************)
(* Properties.                                                             *)
(***************************************************************************)
LoadTypeOK ==
  /\ ToSet(modules) \subseteq Modules \cup ToSet(Resident)
  /\ \A k \in DOMAIN stack :
       /\ stack[k].at \in {"find", "image", "prepare", "next", "waits", "error"}
       /\ k > 1 => stack[k].at = "waits"
       /\ stack[k].i \in 0 .. Len(disk.needed[stack[k].mod]) + 1

\* module_load loads a module with all that it needs, each before whoever
\* needs it, or leaves the list as it was, however deep in the dependencies
\* the error is and whatever was loaded already; no module is loaded twice.
LoadAtomic ==
  /\ \A i, j \in DOMAIN modules : modules[i] = modules[j] => i = j
  /\ \A i \in DOMAIN modules : modules[i] \in Modules =>
       \A d \in ToSet(disk.needed[modules[i]]) :
         \E j \in DOMAIN modules : j > i /\ modules[j] = d
  /\ stack = <<>> /\ loaded.mod # "none" =>
       IF loaded.rc = 0 THEN modules[1] = loaded.mod /\ IsSuffix(loaded.before, modules)
       ELSE modules = loaded.before

=============================================================================

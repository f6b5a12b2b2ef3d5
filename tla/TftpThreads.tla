----------------------------- MODULE TftpThreads -----------------------------
(***************************************************************************)
(* atftpd's main loop and the threads it starts for the requests: main of  *)
(* atftp/tftpd.c, tftpd_receive_request, the signal handler, and the list  *)
(* of threads of atftp/tftpd_list.c.                                       *)
(*                                                                         *)
(* stdin_mutex passes from the main thread to the thread that reads the    *)
(* request.  The functions of tftpd_list.c lock thread_list_mutex around   *)
(* all they do with the list but one thing: they read its head before.     *)
(* Each is two actions, the read and the rest.  A node of the list is a    *)
(* thread_data, named like its thread; to follow a null pointer or one to  *)
(* freed memory breaks the process, which then stops.                      *)
(* Memory that cannot be allocated, which ends the program at once, is     *)
(* left out.                                                               *)
(***************************************************************************)
EXTENDS Integers, FiniteSets

CONSTANTS
  Threads,              \* bound: the threads there may be
  NULL,
  tftpd_max_thread,
  Daemon,               \* tftpd_daemon: no timeout
  Signals               \* who may get SIGTERM: "main", "worker"

ASSUME ThreadsAssumption ==
  /\ IsFiniteSet(Threads) /\ NULL \notin Threads
  /\ tftpd_max_thread \in Nat /\ Daemon \in BOOLEAN
  /\ Signals \subseteq {"main", "worker"}

VARIABLES
  main,                 \* where the main thread is
  pc,                   \* pc[t]: where thread t is
  stdin_mutex,          \* locked?
  requests,             \* requests waiting at the socket
  tftpd_cancel,
  forwarded,            \* a thread has passed the signal on to main
  thread_data, next, prev, number_of_thread,
  freed,                \* thread_data structures that have been freed
  current,              \* current[t]: the head as t has read it (main: NULL's)
  broken                \* what has been followed: "no", "null" or "freed"

mainVars   == <<main, requests>>
signalVars == <<tftpd_cancel, forwarded>>
listVars   == <<thread_data, next, prev, number_of_thread>>
heapVars   == <<freed, current, broken>>
vars == <<mainVars, pc, stdin_mutex, signalVars, listVars, heapVars>>

Running == main # "exited" /\ broken = "no"

-----------------------------------------------------------------------------
(***************************************************************************)
(* The list.                                                               *)
(***************************************************************************)

\* The nodes from n to the end of the chain: those in every set that has n and
\* with each node the next.
Chain(n) ==
  {m \in Threads :
     \A S \in SUBSET Threads :
       n \in S \cup {NULL} /\ (\A s \in S : next[s] \in S \cup {NULL}) => m \in S}

\* A walk from n over the given nodes.
Break(n, nodes) ==
  broken' = IF n = NULL THEN "null"
            ELSE IF nodes \cap freed # {} THEN "freed" ELSE "no"

\* tftpd_list_add, locked.
AddFirst(t) ==
  /\ thread_data = NULL
  /\ thread_data' = t
  /\ next' = [next EXCEPT ![t] = NULL]
  /\ prev' = [prev EXCEPT ![t] = NULL]
  /\ UNCHANGED broken

AddLast(t) ==
  /\ thread_data # NULL
  /\ Break(current[t], Chain(current[t]))
  /\ IF broken' = "no"
     THEN \E last \in Chain(current[t]) :
            /\ next[last] = NULL
            /\ next' = [next EXCEPT ![last] = t, ![t] = NULL]
            /\ prev' = [prev EXCEPT ![t] = last]
     ELSE UNCHANGED <<next, prev>>
  /\ UNCHANGED thread_data

\* tftpd_list_remove, locked.
RemoveFirst(t) ==
  /\ thread_data = t
  /\ thread_data' = next[t]
  /\ prev' = IF next[t] = NULL THEN prev ELSE [prev EXCEPT ![next[t]] = NULL]
  /\ UNCHANGED <<next, broken>>

RemoveLater(t) ==
  /\ thread_data # t
  /\ LET walked == Chain(current[t]) \ Chain(next[t])
         inside == next[t] # NULL /\ prev[t] # NULL
     IN  /\ Break(IF t \in walked THEN prev[t] ELSE NULL,
                  walked \cup {prev[t]} \cup (IF inside THEN {next[t]} ELSE {}))
         /\ next' = IF broken' # "no" THEN next
                    ELSE [next EXCEPT ![prev[t]] = IF inside THEN next[t] ELSE NULL]
         /\ prev' = IF broken' # "no" \/ ~inside THEN prev
                    ELSE [prev EXCEPT ![next[t]] = prev[t]]
  /\ UNCHANGED thread_data

-----------------------------------------------------------------------------
Init ==
  /\ main = "lock" /\ requests = 0
  /\ pc = [t \in Threads |-> "none"]
  /\ stdin_mutex = FALSE
  /\ tftpd_cancel = FALSE /\ forwarded = FALSE
  /\ thread_data = NULL /\ number_of_thread = 0
  /\ next = [t \in Threads |-> NULL] /\ prev = [t \in Threads |-> NULL]
  /\ freed = {} /\ current = [t \in Threads \cup {NULL} |-> NULL]
  /\ broken = "no"

(***************************************************************************)
(* The main thread.                                                        *)
(***************************************************************************)
MainAt(place) == Running /\ main = place

MainLock ==
  /\ MainAt("lock")
  /\ ~stdin_mutex
  /\ stdin_mutex' = TRUE
  /\ main' = "test"
  /\ UNCHANGED <<requests, pc, signalVars, listVars, heapVars>>

MainTest ==
  /\ MainAt("test")
  /\ main' = IF tftpd_cancel THEN "stop" ELSE "tested"
  /\ UNCHANGED <<requests, pc, stdin_mutex, signalVars, listVars, heapVars>>

\* Only from here on does a signal interrupt select.
MainEnterSelect ==
  /\ MainAt("tested")
  /\ main' = "select"
  /\ UNCHANGED <<requests, pc, stdin_mutex, signalVars, listVars, heapVars>>

\* select returns; for the third way, a signal, see Signal.
MainSelect ==
  /\ MainAt("select")
  /\ \/ requests > 0 /\ main' = "ready"
     \/ ~Daemon /\ main' = "stop"
  /\ UNCHANGED <<requests, pc, stdin_mutex, signalVars, listVars, heapVars>>

\* Mutant: the main thread unlocks stdin itself.
StartAndUnlock ==
  /\ MainAt("ready") /\ ~tftpd_cancel
  /\ \E t \in Threads : pc[t] = "none" /\ pc' = [pc EXCEPT ![t] = "read"]
  /\ stdin_mutex' = FALSE
  /\ main' = "lock"
  /\ UNCHANGED <<requests, signalVars, listVars, heapVars>>

\* A new thread; stdin_mutex is its to unlock.
MainStart ==
  /\ MainAt("ready") /\ ~tftpd_cancel
  /\ \E t \in Threads : pc[t] = "none" /\ pc' = [pc EXCEPT ![t] = "read"]
  /\ main' = "lock"
  /\ UNCHANGED <<requests, stdin_mutex, signalVars, listVars, heapVars>>

MainStartFails ==
  /\ MainAt("ready") /\ ~tftpd_cancel
  /\ stdin_mutex' = FALSE
  /\ main' = "lock"
  /\ UNCHANGED <<requests, pc, signalVars, listVars, heapVars>>

MainNotReady ==
  /\ MainAt("ready") /\ tftpd_cancel
  /\ main' = "stop"
  /\ UNCHANGED <<requests, pc, stdin_mutex, signalVars, listVars, heapVars>>

MainStop ==
  /\ MainAt("stop")
  /\ stdin_mutex' = FALSE
  /\ main' = IF tftpd_cancel THEN "killHead" ELSE "wait"
  /\ UNCHANGED <<requests, pc, signalVars, listVars, heapVars>>

\* tftpd_list_kill_threads.  Its signals only shorten the threads' waiting.
MainKillHead ==
  /\ MainAt("killHead")
  /\ current' = [current EXCEPT ![NULL] = thread_data]
  /\ main' = "kill"
  /\ UNCHANGED <<requests, pc, stdin_mutex, signalVars, listVars, freed, broken>>

MainKill ==
  /\ MainAt("kill")
  /\ broken' = IF Chain(current[NULL]) \cap freed # {} THEN "freed" ELSE "no"
  /\ main' = "wait"
  /\ UNCHANGED <<requests, pc, stdin_mutex, signalVars, listVars, freed, current>>

MainExit ==
  /\ MainAt("wait")
  /\ number_of_thread = 0
  /\ main' = "exited"
  /\ UNCHANGED <<requests, pc, stdin_mutex, signalVars, listVars, heapVars>>

(***************************************************************************)
(* The threads of the requests.                                            *)
(***************************************************************************)
At(t, place) == Running /\ pc[t] = place
Goto(t, place) == pc' = [pc EXCEPT ![t] = place]

\* tftp_get_packet: a request, or a packet without data, for which the thread
\* aborts.  A thread that SIGTERM interrupts here aborts, too, and leaves the
\* request to the next one.
Read(t) ==
  /\ At(t, "read")
  /\ requests' = requests - 1
  /\ Goto(t, "unlock") \/ Goto(t, "unlock, abort")
  /\ UNCHANGED <<main, stdin_mutex, signalVars, listVars, heapVars>>

\* Mutant: a thread that aborts does not unlock stdin.
UnlockUnlessAborted(t) ==
  /\ Running /\ pc[t] \in {"unlock", "unlock, abort"}
  /\ stdin_mutex' = (pc[t] = "unlock, abort")
  /\ Goto(t, IF pc[t] = "unlock" THEN "count" ELSE "count, abort")
  /\ UNCHANGED <<mainVars, signalVars, listVars, heapVars>>

Unlock(t) ==
  /\ Running /\ pc[t] \in {"unlock", "unlock, abort"}
  /\ stdin_mutex' = FALSE
  /\ Goto(t, IF pc[t] = "unlock" THEN "count" ELSE "count, abort")
  /\ UNCHANGED <<mainVars, signalVars, listVars, heapVars>>

\* Mutant: a thread that aborts is removed from the list like the others.
CountThenRemove(t) ==
  /\ Running /\ pc[t] \in {"count", "count, abort"}
  /\ Goto(t, IF pc[t] = "count" /\ number_of_thread < tftpd_max_thread
             THEN "addHead" ELSE "removeHead")
  /\ UNCHANGED <<mainVars, stdin_mutex, signalVars, listVars, heapVars>>

\* The limit on the number of threads.
Count(t) ==
  /\ Running /\ pc[t] \in {"count", "count, abort"}
  /\ Goto(t, IF pc[t] = "count" /\ number_of_thread < tftpd_max_thread
             THEN "addHead" ELSE "free")
  /\ UNCHANGED <<mainVars, stdin_mutex, signalVars, listVars, heapVars>>

AddHead(t) ==
  /\ At(t, "addHead")
  /\ current' = [current EXCEPT ![t] = thread_data]
  /\ Goto(t, "add")
  /\ UNCHANGED <<mainVars, stdin_mutex, signalVars, listVars, freed, broken>>

Add(t) ==
  /\ At(t, "add")
  /\ number_of_thread' = number_of_thread + 1
  /\ AddFirst(t) \/ AddLast(t)
  /\ Goto(t, "serve")
  /\ UNCHANGED <<mainVars, stdin_mutex, signalVars, freed, current>>

\* The transfer, to its end.
Serve(t) ==
  /\ At(t, "serve")
  /\ Goto(t, "removeHead")
  /\ UNCHANGED <<mainVars, stdin_mutex, signalVars, listVars, heapVars>>

RemoveHead(t) ==
  /\ At(t, "removeHead")
  /\ current' = [current EXCEPT ![t] = thread_data]
  /\ Goto(t, "remove")
  /\ UNCHANGED <<mainVars, stdin_mutex, signalVars, listVars, freed, broken>>

Remove(t) ==
  /\ At(t, "remove")
  /\ number_of_thread' = number_of_thread - 1
  /\ RemoveFirst(t) \/ RemoveLater(t)
  /\ Goto(t, "free")
  /\ UNCHANGED <<mainVars, stdin_mutex, signalVars, freed, current>>

Free(t) ==
  /\ At(t, "free")
  /\ freed' = freed \cup {t}
  /\ Goto(t, "over")
  /\ UNCHANGED <<mainVars, stdin_mutex, signalVars, listVars, current, broken>>

(***************************************************************************)
(* The handler: in a worker it passes the signal on, once; in the main     *)
(* thread it sets tftpd_cancel, and interrupts select.                     *)
(***************************************************************************)
WorkerSignal(t) ==
  /\ Running /\ pc[t] \notin {"none", "over"}
  /\ "worker" \in Signals /\ ~forwarded /\ ~tftpd_cancel
  /\ forwarded' = TRUE
  /\ \/ pc[t] = "read" /\ Goto(t, "unlock, abort")
     \/ UNCHANGED pc
  /\ UNCHANGED <<mainVars, stdin_mutex, tftpd_cancel, listVars, heapVars>>

MainSignal ==
  /\ Running /\ ~tftpd_cancel
  /\ forwarded \/ "main" \in Signals
  /\ tftpd_cancel' = TRUE
  /\ main' = IF main = "select" THEN "stop" ELSE main
  /\ UNCHANGED <<requests, pc, stdin_mutex, forwarded, listVars, heapVars>>

\* A request arrives (external).
Arrives ==
  /\ Running
  /\ requests < Cardinality({t \in Threads : pc[t] = "none"})
  /\ requests' = requests + 1
  /\ UNCHANGED <<main, pc, stdin_mutex, signalVars, listVars, heapVars>>

Over == ~Running /\ UNCHANGED vars

-----------------------------------------------------------------------------
MainStep ==
  \/ MainLock \/ MainTest \/ MainEnterSelect \/ MainSelect \/ MainStart
  \/ MainStartFails \/ MainNotReady \/ MainStop \/ MainKillHead \/ MainKill \/ MainExit

ThreadStep(t) ==
  \/ Read(t) \/ Unlock(t) \/ Count(t) \/ AddHead(t) \/ Add(t) \/ Serve(t)
  \/ RemoveHead(t) \/ Remove(t) \/ Free(t)

Next ==
  \/ MainStep
  \/ \E t \in Threads : ThreadStep(t) \/ WorkerSignal(t)
  \/ MainSignal \/ Arrives \/ Over

Spec == Init /\ [][Next]_vars

\* The kernel runs every thread; select returns after a timeout if there is
\* one; every transfer ends (TftpSend!Terminates).
FairSpec ==
  Spec /\ WF_vars(MainStep) /\ \A t \in Threads : WF_vars(ThreadStep(t))

-----------------------------------------------------------------------------
(***************************************************************************)
(* Properties                                                              *)
(***************************************************************************)
Places == {"none", "read", "unlock", "unlock, abort", "count", "count, abort",
           "addHead", "add", "serve", "removeHead", "remove", "free", "over"}

\* Types and ranges.
TypeOK ==
  /\ pc \in [Threads -> Places]
  /\ next \in [Threads -> Threads \cup {NULL}]
  /\ prev \in [Threads -> Threads \cup {NULL}]
  /\ current \in [Threads \cup {NULL} -> Threads \cup {NULL}]
  /\ thread_data \in Threads \cup {NULL}
  /\ number_of_thread \in Nat
  /\ requests \in 0 .. Cardinality(Threads)
  /\ broken \in {"no", "null", "freed"}

\* stdin is never read by two, and never by a thread while the main thread
\* waits for the next request: the mutex that one thread locks and another
\* unlocks is held from the test to the end of the read.
Readers == {t \in Threads : pc[t] \in {"read", "unlock", "unlock, abort"}}
MainHolds == main \in {"test", "tested", "select", "ready", "stop"}

StdinExclusive ==
  /\ Cardinality(Readers) + (IF MainHolds THEN 1 ELSE 0) <= 1
  /\ Readers # {} => stdin_mutex

\* number_of_thread is the number of threads between add and remove: none is
\* counted twice, and those that abort are not counted out.
Counted == {t \in Threads : pc[t] \in {"serve", "removeHead", "remove"}}

CountExact ==
  number_of_thread = Cardinality(Counted)

\* tftpd.c:831, "If we receive signals, we must exit in a clean way": after a
\* signal the program ends, in the worst case with the timeout of select.
Stops == tftpd_cancel ~> ~Running

\* tftpd_list.c:30, "Any access to the thread_data list: insertion and
\* extraction of elements must be protected by the mutex": nobody follows a
\* null pointer, or one to a structure that has been freed.
ListSafe == broken = "no"

\* tftpd.c:63, tftpd_max_thread: "number of concurent thread allowed".
MaxThreads == number_of_thread <= tftpd_max_thread

\* tftpd.c:534, "Either select return after timeout of we've been killed. In
\* the first case we wait for server thread to finish, in the other we kill
\* them": the program does not end while a thread has a request to answer.
WaitsForThreads ==
  main = "exited" =>
    \A t \in Threads : pc[t] \notin {"unlock", "count", "addHead", "add", "serve"}

\* stdin_mutex is taken from the main thread's lock to its own unlock or to that
\* of the thread it has started, whichever of the two has the turn.
StdinInv ==
  /\ \A t, u \in Readers : t = u
  /\ MainHolds => Readers = {}
  /\ MainHolds \/ Readers # {} => stdin_mutex

\* Who goes to read a request finds one.
RequestInv == main = "ready" \/ (\E t \in Threads : pc[t] = "read") => requests > 0

\* Whatever the list has come to, the number of threads is what it counts, however
\* the threads that start and end interleave, and a thread that is started to
\* read a request finds one and is the only one to read.
ThreadInv == TypeOK /\ CountExact /\ StdinInv /\ RequestInv

=============================================================================

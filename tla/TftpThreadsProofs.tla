-------------------------- MODULE TftpThreadsProofs --------------------------
(***************************************************************************)
(* Proofs about TftpThreads, for any finite set of threads, any limit on   *)
(* their number and whoever gets signals: its invariant, and that stdin    *)
(* has one reader.                                                         *)
(***************************************************************************)
EXTENDS TftpThreads, FiniteSetTheorems, TLAPS

\* There are finitely many threads.
LEMMA CountedFinite ==
  /\ IsFiniteSet(Threads) /\ Cardinality(Threads) \in Nat
  /\ IsFiniteSet(Counted) /\ Cardinality(Counted) \in Nat
  <1>1. IsFiniteSet(Threads)
    BY ThreadsAssumption
  <1>2. IsFiniteSet(Counted)
    BY <1>1, FS_Subset DEF Counted
  <1> QED
    BY <1>1, <1>2, FS_CardinalityType

\* A thread that is added is counted, ...
LEMMA CountedGrows ==
  ASSUME NEW t \in Threads, t \notin Counted, Counted' = Counted \cup {t}
  PROVE  Cardinality(Counted') = Cardinality(Counted) + 1
  BY CountedFinite, FS_AddElement

\* ... and one that is removed is counted no more.
LEMMA CountedShrinks ==
  ASSUME NEW t \in Threads, t \in Counted, Counted' = Counted \ {t}
  PROVE  Cardinality(Counted') = Cardinality(Counted) - 1 /\ Cardinality(Counted) > 0
  <1>1. Cardinality(Counted') = Cardinality(Counted) - 1 /\ IsFiniteSet(Counted')
    BY CountedFinite, FS_RemoveElement
  <1> QED
    BY <1>1, CountedFinite, FS_CardinalityType

\* The list is a list of threads.
LEMMA ChainOfThreads == \A n : Chain(n) \subseteq Threads
  BY DEF Chain

\* Initially the list is empty, and nobody is counted.
LEMMA InitThreadInv == Init => ThreadInv
  <1> SUFFICES ASSUME Init PROVE ThreadInv
    OBVIOUS
  <1>1. TypeOK
    BY CountedFinite DEF Init, TypeOK, Places
  <1>2. CountExact
    <2>1. Counted = {}
      BY DEF Init, Counted
    <2> QED
      BY <2>1, FS_EmptySet DEF Init, CountExact
  <1>3. StdinInv /\ RequestInv
    BY DEF Init, StdinInv, RequestInv, Readers, MainHolds
  <1> QED
    BY <1>1, <1>2, <1>3 DEF ThreadInv

\* No step of the main thread, of a thread or of a signal leaves the
\* invariant.
LEMMA StepThreadInv ==
  ASSUME ThreadInv, [Next]_vars
  PROVE  ThreadInv'
  <1> USE DEF vars, mainVars, signalVars, listVars, heapVars, MainAt, At, Goto
  <1>0. TypeOK /\ CountExact /\ StdinInv /\ RequestInv
    BY DEF ThreadInv
  <1>1. CASE MainLock
    <2>1. TypeOK'
      BY <1>0, <1>1 DEF MainLock, TypeOK, Places
    <2>2. CountExact'
      <3>1. Counted' = Counted
        BY <1>0, <1>1 DEF MainLock, Counted, TypeOK
      <3> QED
        BY <1>0, <1>1, <3>1 DEF MainLock, CountExact
    <2>3. StdinInv'
      BY <1>0, <1>1 DEF MainLock, StdinInv, Readers, MainHolds, TypeOK
    <2>4. RequestInv'
      BY <1>0, <1>1 DEF MainLock, RequestInv, StdinInv, Readers, MainHolds, TypeOK
    <2> QED
      BY <2>1, <2>2, <2>3, <2>4 DEF ThreadInv
  <1>2. CASE MainTest
    <2>1. TypeOK'
      BY <1>0, <1>2 DEF MainTest, TypeOK, Places
    <2>2. CountExact'
      <3>1. Counted' = Counted
        BY <1>0, <1>2 DEF MainTest, Counted, TypeOK
      <3> QED
        BY <1>0, <1>2, <3>1 DEF MainTest, CountExact
    <2>3. StdinInv'
      BY <1>0, <1>2 DEF MainTest, StdinInv, Readers, MainHolds, TypeOK
    <2>4. RequestInv'
      BY <1>0, <1>2 DEF MainTest, RequestInv, StdinInv, Readers, MainHolds, TypeOK
    <2> QED
      BY <2>1, <2>2, <2>3, <2>4 DEF ThreadInv
  <1>3. CASE MainEnterSelect
    <2>1. TypeOK'
      BY <1>0, <1>3 DEF MainEnterSelect, TypeOK, Places
    <2>2. CountExact'
      <3>1. Counted' = Counted
        BY <1>0, <1>3 DEF MainEnterSelect, Counted, TypeOK
      <3> QED
        BY <1>0, <1>3, <3>1 DEF MainEnterSelect, CountExact
    <2>3. StdinInv'
      BY <1>0, <1>3 DEF MainEnterSelect, StdinInv, Readers, MainHolds, TypeOK
    <2>4. RequestInv'
      BY <1>0, <1>3 DEF MainEnterSelect, RequestInv, StdinInv, Readers, MainHolds, TypeOK
    <2> QED
      BY <2>1, <2>2, <2>3, <2>4 DEF ThreadInv
  <1>4. CASE MainSelect
    <2>1. TypeOK'
      BY <1>0, <1>4 DEF MainSelect, TypeOK, Places
    <2>2. CountExact'
      <3>1. Counted' = Counted
        BY <1>0, <1>4 DEF MainSelect, Counted, TypeOK
      <3> QED
        BY <1>0, <1>4, <3>1 DEF MainSelect, CountExact
    <2>3. StdinInv'
      BY <1>0, <1>4 DEF MainSelect, StdinInv, Readers, MainHolds, TypeOK
    <2>4. RequestInv'
      BY <1>0, <1>4 DEF MainSelect, RequestInv, StdinInv, Readers, MainHolds, TypeOK
    <2> QED
      BY <2>1, <2>2, <2>3, <2>4 DEF ThreadInv
  <1>5. CASE MainStart
    <2>1. TypeOK'
      BY <1>0, <1>5 DEF MainStart, TypeOK, Places
    <2>2. CountExact'
      <3>1. Counted' = Counted
        BY <1>0, <1>5 DEF MainStart, Counted, TypeOK
      <3> QED
        BY <1>0, <1>5, <3>1 DEF MainStart, CountExact
    <2>3. StdinInv'
      BY <1>0, <1>5 DEF MainStart, StdinInv, Readers, MainHolds, TypeOK
    <2>4. RequestInv'
      BY <1>0, <1>5 DEF MainStart, RequestInv, StdinInv, Readers, MainHolds, TypeOK
    <2> QED
      BY <2>1, <2>2, <2>3, <2>4 DEF ThreadInv
  <1>6. CASE MainStartFails
    <2>1. TypeOK'
      BY <1>0, <1>6 DEF MainStartFails, TypeOK, Places
    <2>2. CountExact'
      <3>1. Counted' = Counted
        BY <1>0, <1>6 DEF MainStartFails, Counted, TypeOK
      <3> QED
        BY <1>0, <1>6, <3>1 DEF MainStartFails, CountExact
    <2>3. StdinInv'
      BY <1>0, <1>6 DEF MainStartFails, StdinInv, Readers, MainHolds, TypeOK
    <2>4. RequestInv'
      BY <1>0, <1>6 DEF MainStartFails, RequestInv, StdinInv, Readers, MainHolds, TypeOK
    <2> QED
      BY <2>1, <2>2, <2>3, <2>4 DEF ThreadInv
  <1>7. CASE MainNotReady
    <2>1. TypeOK'
      BY <1>0, <1>7 DEF MainNotReady, TypeOK, Places
    <2>2. CountExact'
      <3>1. Counted' = Counted
        BY <1>0, <1>7 DEF MainNotReady, Counted, TypeOK
      <3> QED
        BY <1>0, <1>7, <3>1 DEF MainNotReady, CountExact
    <2>3. StdinInv'
      BY <1>0, <1>7 DEF MainNotReady, StdinInv, Readers, MainHolds, TypeOK
    <2>4. RequestInv'
      BY <1>0, <1>7 DEF MainNotReady, RequestInv, StdinInv, Readers, MainHolds, TypeOK
    <2> QED
      BY <2>1, <2>2, <2>3, <2>4 DEF ThreadInv
  <1>8. CASE MainStop
    <2>1. TypeOK'
      BY <1>0, <1>8 DEF MainStop, TypeOK, Places
    <2>2. CountExact'
      <3>1. Counted' = Counted
        BY <1>0, <1>8 DEF MainStop, Counted, TypeOK
      <3> QED
        BY <1>0, <1>8, <3>1 DEF MainStop, CountExact
    <2>3. StdinInv'
      BY <1>0, <1>8 DEF MainStop, StdinInv, Readers, MainHolds, TypeOK
    <2>4. RequestInv'
      BY <1>0, <1>8 DEF MainStop, RequestInv, StdinInv, Readers, MainHolds, TypeOK
    <2> QED
      BY <2>1, <2>2, <2>3, <2>4 DEF ThreadInv
  <1>9. CASE MainKillHead
    <2>1. TypeOK'
      BY <1>0, <1>9 DEF MainKillHead, TypeOK, Places
    <2>2. CountExact'
      <3>1. Counted' = Counted
        BY <1>0, <1>9 DEF MainKillHead, Counted, TypeOK
      <3> QED
        BY <1>0, <1>9, <3>1 DEF MainKillHead, CountExact
    <2>3. StdinInv'
      BY <1>0, <1>9 DEF MainKillHead, StdinInv, Readers, MainHolds, TypeOK
    <2>4. RequestInv'
      BY <1>0, <1>9 DEF MainKillHead, RequestInv, StdinInv, Readers, MainHolds, TypeOK
    <2> QED
      BY <2>1, <2>2, <2>3, <2>4 DEF ThreadInv
  <1>10. CASE MainKill
    <2>1. TypeOK'
      BY <1>0, <1>10 DEF MainKill, TypeOK, Places
    <2>2. CountExact'
      <3>1. Counted' = Counted
        BY <1>0, <1>10 DEF MainKill, Counted, TypeOK
      <3> QED
        BY <1>0, <1>10, <3>1 DEF MainKill, CountExact
    <2>3. StdinInv'
      BY <1>0, <1>10 DEF MainKill, StdinInv, Readers, MainHolds, TypeOK
    <2>4. RequestInv'
      BY <1>0, <1>10 DEF MainKill, RequestInv, StdinInv, Readers, MainHolds, TypeOK
    <2> QED
      BY <2>1, <2>2, <2>3, <2>4 DEF ThreadInv
  <1>11. CASE MainExit
    <2>1. TypeOK'
      BY <1>0, <1>11 DEF MainExit, TypeOK, Places
    <2>2. CountExact'
      <3>1. Counted' = Counted
        BY <1>0, <1>11 DEF MainExit, Counted, TypeOK
      <3> QED
        BY <1>0, <1>11, <3>1 DEF MainExit, CountExact
    <2>3. StdinInv'
      BY <1>0, <1>11 DEF MainExit, StdinInv, Readers, MainHolds, TypeOK
    <2>4. RequestInv'
      BY <1>0, <1>11 DEF MainExit, RequestInv, StdinInv, Readers, MainHolds, TypeOK
    <2> QED
      BY <2>1, <2>2, <2>3, <2>4 DEF ThreadInv
  <1>12. ASSUME NEW t \in Threads, Read(t) PROVE ThreadInv'
    <2>0. \E at \in {"unlock", "unlock, abort"} : pc' = [pc EXCEPT ![t] = at]
      BY <1>12 DEF Read, Goto
    <2>1. TypeOK'
      <3>1. requests > 0 /\ requests' = requests - 1
        BY <1>0, <1>12 DEF Read, RequestInv
      <3>2. requests' \in 0 .. Cardinality(Threads)
        BY <1>0, <3>1, CountedFinite DEF TypeOK
      <3> QED
        BY <1>0, <1>12, <2>0, <3>2 DEF Read, TypeOK, Places
    <2>2. CountExact'
      <3>1. Counted' = Counted
        BY <1>0, <2>0, <1>12 DEF Read, Counted, TypeOK
      <3> QED
        BY <1>0, <1>12, <3>1 DEF Read, CountExact
    <2>3. StdinInv'
      BY <1>0, <1>12, <2>0, ZenonT(40) DEF Read, StdinInv, Readers, MainHolds, TypeOK
    <2>4. RequestInv'
      <3>1. t \in Readers
        BY <1>12 DEF Read, Readers
      <3>2. main' # "ready" /\ \A u \in Threads : pc'[u] # "read"
        BY <1>0, <1>12, <2>0, <3>1 DEF Read, StdinInv, Readers, MainHolds, TypeOK
      <3> QED
        BY <3>2 DEF RequestInv
    <2> QED
      BY <2>1, <2>2, <2>3, <2>4 DEF ThreadInv
  <1>13. ASSUME NEW t \in Threads, Unlock(t) PROVE ThreadInv'
    <2>1. TypeOK'
      BY <1>0, <1>13 DEF Unlock, TypeOK, Places
    <2>2. CountExact'
      <3>1. Counted' = Counted
        BY <1>0, <1>13 DEF Unlock, Counted, TypeOK
      <3> QED
        BY <1>0, <1>13, <3>1 DEF Unlock, CountExact
    <2>3. StdinInv'
      <3>1. t \in Readers
        BY <1>13 DEF Unlock, Readers
      <3>2. Readers' = {} /\ ~MainHolds'
        BY <1>0, <1>13, <3>1 DEF Unlock, StdinInv, Readers, MainHolds, TypeOK
      <3> QED
        BY <3>2 DEF StdinInv
    <2>4. RequestInv'
      BY <1>0, <1>13 DEF Unlock, RequestInv, StdinInv, Readers, MainHolds, TypeOK
    <2> QED
      BY <2>1, <2>2, <2>3, <2>4 DEF ThreadInv
  <1>14. ASSUME NEW t \in Threads, Count(t) PROVE ThreadInv'
    <2>1. TypeOK'
      BY <1>0, <1>14 DEF Count, TypeOK, Places
    <2>2. CountExact'
      <3>1. Counted' = Counted
        BY <1>0, <1>14 DEF Count, Counted, TypeOK
      <3> QED
        BY <1>0, <1>14, <3>1 DEF Count, CountExact
    <2>3. StdinInv'
      BY <1>0, <1>14 DEF Count, StdinInv, Readers, MainHolds, TypeOK
    <2>4. RequestInv'
      BY <1>0, <1>14 DEF Count, RequestInv, StdinInv, Readers, MainHolds, TypeOK
    <2> QED
      BY <2>1, <2>2, <2>3, <2>4 DEF ThreadInv
  <1>15. ASSUME NEW t \in Threads, AddHead(t) PROVE ThreadInv'
    <2>1. TypeOK'
      BY <1>0, <1>15 DEF AddHead, TypeOK, Places
    <2>2. CountExact'
      <3>1. Counted' = Counted
        BY <1>0, <1>15 DEF AddHead, Counted, TypeOK
      <3> QED
        BY <1>0, <1>15, <3>1 DEF AddHead, CountExact
    <2>3. StdinInv'
      BY <1>0, <1>15 DEF AddHead, StdinInv, Readers, MainHolds, TypeOK
    <2>4. RequestInv'
      BY <1>0, <1>15 DEF AddHead, RequestInv, StdinInv, Readers, MainHolds, TypeOK
    <2> QED
      BY <2>1, <2>2, <2>3, <2>4 DEF ThreadInv
  <1>16. ASSUME NEW t \in Threads, Add(t) PROVE ThreadInv'
    <2>1. TypeOK'
      <3>1. thread_data' \in Threads \cup {NULL} /\ next' \in [Threads -> Threads \cup {NULL}]
        BY <1>0, <1>16 DEF Add, AddFirst, AddLast, TypeOK
      <3>2. prev' \in [Threads -> Threads \cup {NULL}]
        BY <1>0, <1>16, ChainOfThreads DEF Add, AddFirst, AddLast, TypeOK
      <3>3. broken' \in {"no", "null", "freed"}
        BY <1>0, <1>16 DEF Add, AddFirst, AddLast, Break, TypeOK
      <3>4. number_of_thread' \in Nat
        BY <1>0, <1>16 DEF Add, TypeOK
      <3> QED
        BY <1>0, <1>16, <3>1, <3>2, <3>3, <3>4 DEF Add, TypeOK, Places
    <2>2. CountExact'
      <3>1. t \notin Counted /\ Counted' = Counted \cup {t}
        BY <1>0, <1>16 DEF Add, Counted, TypeOK
      <3> QED
        BY <1>0, <1>16, <3>1, CountedGrows DEF Add, CountExact
    <2>3. StdinInv'
      BY <1>0, <1>16 DEF Add, StdinInv, Readers, MainHolds, TypeOK
    <2>4. RequestInv'
      BY <1>0, <1>16 DEF Add, RequestInv, StdinInv, Readers, MainHolds, TypeOK
    <2> QED
      BY <2>1, <2>2, <2>3, <2>4 DEF ThreadInv
  <1>17. ASSUME NEW t \in Threads, Serve(t) PROVE ThreadInv'
    <2>1. TypeOK'
      BY <1>0, <1>17 DEF Serve, TypeOK, Places
    <2>2. CountExact'
      <3>1. Counted' = Counted
        BY <1>0, <1>17 DEF Serve, Counted, TypeOK
      <3> QED
        BY <1>0, <1>17, <3>1 DEF Serve, CountExact
    <2>3. StdinInv'
      BY <1>0, <1>17 DEF Serve, StdinInv, Readers, MainHolds, TypeOK
    <2>4. RequestInv'
      BY <1>0, <1>17 DEF Serve, RequestInv, StdinInv, Readers, MainHolds, TypeOK
    <2> QED
      BY <2>1, <2>2, <2>3, <2>4 DEF ThreadInv
  <1>18. ASSUME NEW t \in Threads, RemoveHead(t) PROVE ThreadInv'
    <2>1. TypeOK'
      BY <1>0, <1>18 DEF RemoveHead, TypeOK, Places
    <2>2. CountExact'
      <3>1. Counted' = Counted
        BY <1>0, <1>18 DEF RemoveHead, Counted, TypeOK
      <3> QED
        BY <1>0, <1>18, <3>1 DEF RemoveHead, CountExact
    <2>3. StdinInv'
      BY <1>0, <1>18 DEF RemoveHead, StdinInv, Readers, MainHolds, TypeOK
    <2>4. RequestInv'
      BY <1>0, <1>18 DEF RemoveHead, RequestInv, StdinInv, Readers, MainHolds, TypeOK
    <2> QED
      BY <2>1, <2>2, <2>3, <2>4 DEF ThreadInv
  <1>19. ASSUME NEW t \in Threads, Remove(t) PROVE ThreadInv'
    <2>1. TypeOK'
      <3>1. thread_data' \in Threads \cup {NULL} /\ next' \in [Threads -> Threads \cup {NULL}]
        BY <1>0, <1>19 DEF Remove, RemoveFirst, RemoveLater, TypeOK
      <3>2. prev' \in [Threads -> Threads \cup {NULL}]
        BY <1>0, <1>19 DEF Remove, RemoveFirst, RemoveLater, TypeOK
      <3>3. broken' \in {"no", "null", "freed"}
        BY <1>0, <1>19 DEF Remove, RemoveFirst, RemoveLater, Break, TypeOK
      <3>4. t \in Counted
        BY <1>19 DEF Remove, Counted
      <3>5. number_of_thread' \in Nat
        <4>1. Cardinality(Counted) # 0
          BY <3>4, CountedFinite, FS_EmptySet
        <4> QED
          BY <1>0, <1>19, <4>1, CountedFinite DEF Remove, CountExact
      <3> QED
        BY <1>0, <1>19, <3>1, <3>2, <3>3, <3>5 DEF Remove, TypeOK, Places
    <2>2. CountExact'
      <3>1. t \in Counted /\ Counted' = Counted \ {t}
        BY <1>0, <1>19 DEF Remove, Counted, TypeOK
      <3> QED
        BY <1>0, <1>19, <3>1, CountedShrinks DEF Remove, CountExact
    <2>3. StdinInv'
      BY <1>0, <1>19 DEF Remove, StdinInv, Readers, MainHolds, TypeOK
    <2>4. RequestInv'
      BY <1>0, <1>19 DEF Remove, RequestInv, StdinInv, Readers, MainHolds, TypeOK
    <2> QED
      BY <2>1, <2>2, <2>3, <2>4 DEF ThreadInv
  <1>20. ASSUME NEW t \in Threads, Free(t) PROVE ThreadInv'
    <2>1. TypeOK'
      BY <1>0, <1>20 DEF Free, TypeOK, Places
    <2>2. CountExact'
      <3>1. Counted' = Counted
        BY <1>0, <1>20 DEF Free, Counted, TypeOK
      <3> QED
        BY <1>0, <1>20, <3>1 DEF Free, CountExact
    <2>3. StdinInv'
      BY <1>0, <1>20 DEF Free, StdinInv, Readers, MainHolds, TypeOK
    <2>4. RequestInv'
      BY <1>0, <1>20 DEF Free, RequestInv, StdinInv, Readers, MainHolds, TypeOK
    <2> QED
      BY <2>1, <2>2, <2>3, <2>4 DEF ThreadInv
  <1>21. ASSUME NEW t \in Threads, WorkerSignal(t) PROVE ThreadInv'
    <2>1. TypeOK'
      BY <1>0, <1>21 DEF WorkerSignal, TypeOK, Places
    <2>2. CountExact'
      <3>1. Counted' = Counted
        BY <1>0, <1>21 DEF WorkerSignal, Counted, TypeOK
      <3> QED
        BY <1>0, <1>21, <3>1 DEF WorkerSignal, CountExact
    <2>3. StdinInv'
      BY <1>0, <1>21, ZenonT(40) DEF WorkerSignal, StdinInv, Readers, MainHolds, TypeOK
    <2>4. RequestInv'
      BY <1>0, <1>21 DEF WorkerSignal, RequestInv, StdinInv, Readers, MainHolds, TypeOK
    <2> QED
      BY <2>1, <2>2, <2>3, <2>4 DEF ThreadInv
  <1>22. CASE MainSignal
    <2>1. TypeOK'
      BY <1>0, <1>22 DEF MainSignal, TypeOK, Places
    <2>2. CountExact'
      <3>1. Counted' = Counted
        BY <1>0, <1>22 DEF MainSignal, Counted, TypeOK
      <3> QED
        BY <1>0, <1>22, <3>1 DEF MainSignal, CountExact
    <2>3. StdinInv'
      BY <1>0, <1>22 DEF MainSignal, StdinInv, Readers, MainHolds, TypeOK
    <2>4. RequestInv'
      BY <1>0, <1>22 DEF MainSignal, RequestInv, StdinInv, Readers, MainHolds, TypeOK
    <2> QED
      BY <2>1, <2>2, <2>3, <2>4 DEF ThreadInv
  <1>23. CASE Arrives
    <2>1. TypeOK'
      <3>1. Cardinality({t \in Threads : pc[t] = "none"}) \in 0 .. Cardinality(Threads)
        BY CountedFinite, FS_Subset, FS_CardinalityType
      <3> QED
        BY <1>0, <1>23, <3>1, CountedFinite DEF Arrives, TypeOK
    <2>2. CountExact'
      <3>1. Counted' = Counted
        BY <1>0, <1>23 DEF Arrives, Counted, TypeOK
      <3> QED
        BY <1>0, <1>23, <3>1 DEF Arrives, CountExact
    <2>3. StdinInv'
      BY <1>0, <1>23 DEF Arrives, StdinInv, Readers, MainHolds, TypeOK
    <2>4. RequestInv'
      <3>1. requests \in Nat
        BY <1>0, CountedFinite DEF TypeOK
      <3> QED
        BY <1>23, <3>1 DEF Arrives, RequestInv
    <2> QED
      BY <2>1, <2>2, <2>3, <2>4 DEF ThreadInv
  <1>24. CASE UNCHANGED vars
    BY <1>0, <1>24 DEF ThreadInv, TypeOK, CountExact, Counted, StdinInv, RequestInv, Readers, MainHolds
  <1> QED
    BY <1>1, <1>2, <1>3, <1>4, <1>5, <1>6, <1>7, <1>8, <1>9, <1>10, <1>11, <1>12, <1>13, <1>14, <1>15, <1>16, <1>17, <1>18, <1>19, <1>20, <1>21, <1>22, <1>23, <1>24 DEF Next, MainStep, ThreadStep, Over

\* Two threads never read stdin at the same time: nor the main thread while a
\* thread does.
LEMMA OneReader == ThreadInv => StdinExclusive
  <1> SUFFICES ASSUME ThreadInv PROVE StdinExclusive
    OBVIOUS
  <1> USE DEF ThreadInv, StdinInv
  <1>1. CASE Readers = {}
    BY <1>1, FS_EmptySet DEF StdinExclusive
  <1>2. CASE Readers # {}
    <2>1. PICK t \in Readers : Readers = {t}
      BY <1>2
    <2>2. Cardinality({t}) = 1
      BY FS_Singleton
    <2> QED
      BY <1>2, <2>1, <2>2 DEF StdinExclusive
  <1> QED
    BY <1>1, <1>2

\* For any number of threads, the count of threads, the mutex of stdin and the
\* requests at the socket agree with where the threads are in the code.
THEOREM ThreadsConsistent == Spec => []ThreadInv
  BY InitThreadInv, StepThreadInv, PTL DEF Spec

\* stdin has one reader, whoever locks and unlocks its mutex.
THEOREM OneStdinReader == Spec => []StdinExclusive
  BY ThreadsConsistent, OneReader, PTL

=============================================================================

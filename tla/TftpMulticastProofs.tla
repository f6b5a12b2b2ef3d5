------------------------ MODULE TftpMulticastProofs ------------------------
(***************************************************************************)
(* Proofs about TftpMulticast, for any number of clients, threads, blocks  *)
(* and retries: the transfer's counters stay in their bounds and no client *)
(* that was added to the group is forgotten, whatever fails.               *)
(***************************************************************************)
EXTENDS TftpMulticast, FiniteSetTheorems, SequenceTheorems, NaturalsInduction,
        WellFoundedInduction, TLAPS

Entry == [client : Clients, done : BOOLEAN]

\* A set of natural numbers that is not empty has a least element.
LEMMA LeastNat ==
  ASSUME NEW S \in SUBSET Nat, S # {}
  PROVE  \E m \in S : \A k \in S : m <= k
  <1>1. PICK m \in S : \A k \in S : ~(<<k, m>> \in OpToRel(<, Nat))
    BY NatLessThanWellFounded, WFMin
  <1>2. \A k \in S : ~(k < m)
    BY <1>1 DEF OpToRel
  <1> QED
    BY <1>2

\* A client acknowledges one of the blocks of the file, or 0.
LEMMA PrefixOfBlocks ==
  ASSUME NEW blocks \in SUBSET (1 .. Blocks)
  PROVE  Prefix(blocks) \in 0 .. Blocks
  <1> DEFINE Missing == {n \in Nat : n + 1 \notin blocks}
  <1>1. Blocks \in Nat
    BY MulticastAssumption
  <1>2. Blocks \in Missing
    BY <1>1
  <1>3. PICK m \in Missing : \A k \in Missing : m <= k
    BY <1>2, LeastNat
  <1>4. m \in 0 .. Blocks /\ m + 1 \notin blocks
    BY <1>1, <1>2, <1>3
  <1>5. 1 .. m \subseteq blocks
    <2> SUFFICES ASSUME NEW k \in 1 .. m, k \notin blocks PROVE FALSE
      OBVIOUS
    <2>1. k - 1 \in Missing
      BY <1>4
    <2> QED
      BY <2>1, <1>3
  <1> HIDE DEF Missing
  <1> QED
    BY <1>4, <1>5 DEF Prefix

\* tftpd_clientlist_next returns another client that is not done if there is
\* one.
LEMMA NextClientFacts ==
  ASSUME list \in Seq(Entry), client_info \in 1 .. Len(list)
  PROVE  /\ NextClient \in 0 .. Len(list)
         /\ NextClient # 0 => ~list[NextClient].done
         /\ NextClient = 0 =>
              \A i \in 1 .. Len(list) : i # client_info \/ Len(list) = 1 => list[i].done
  <1> DEFINE distance(i) == (i - client_info - 1) % Len(list)
             others == {i \in DOMAIN list : i # client_info /\ ~list[i].done}
             nearest(i) == i \in others /\ \A j \in others : distance(i) <= distance(j)
  <1>1. DOMAIN list = 1 .. Len(list) /\ Len(list) \in Nat \ {0}
    OBVIOUS
  <1>2. ASSUME others # {}
        PROVE  \E i \in others : nearest(i)
    <2> DEFINE D == {distance(i) : i \in others}
    <2>1. D \in SUBSET Nat
      <3> SUFFICES ASSUME NEW i \in others PROVE distance(i) \in Nat
        OBVIOUS
      <3>1. i - client_info - 1 \in Int
        BY <1>1
      <3> QED
        BY <1>1, <3>1
    <2>2. PICK m \in D : \A k \in D : m <= k
      <3> HIDE DEF D
      <3>1. D # {}
        BY <1>2 DEF D
      <3> QED
        BY <2>1, <3>1, LeastNat
    <2> QED
      BY <2>2
  <1>3. CASE others # {}
    <2>1. NextClient = CHOOSE i \in others : \A j \in others : distance(i) <= distance(j)
      BY <1>3 DEF NextClient
    <2>2. NextClient \in others
      <3> HIDE DEF others, distance
      <3> QED
        BY <2>1, <1>2, <1>3 DEF nearest
    <2> QED
      BY <2>2, <1>1
  <1>4. CASE others = {}
    BY <1>4, <1>1 DEF NextClient
  <1> QED
    BY <1>3, <1>4

\* What marking a client as done does to the list.
LEMMA MarkedDone ==
  ASSUME list \in Seq(Entry), NEW i \in 1 .. Len(list),
         list' = [list EXCEPT ![i].done = TRUE]
  PROVE  /\ list' \in Seq(Entry) /\ Len(list') = Len(list)
         /\ \A j \in 1 .. Len(list) :
              /\ list'[j].client = list[j].client
              /\ IF j = i THEN list'[j].done ELSE list'[j].done = list[j].done
  <1>1. \A j \in 1 .. Len(list) : list[j] \in Entry
    OBVIOUS
  <1>2. [list[i] EXCEPT !.done = TRUE] \in Entry
    BY <1>1 DEF Entry
  <1>3. list' = [list EXCEPT ![i] = [list[i] EXCEPT !.done = TRUE]]
    OBVIOUS
  <1>4. list' \in Seq(Entry) /\ Len(list') = Len(list)
        /\ \A j \in 1 .. Len(list) : list'[j] = IF j = i THEN [list[i] EXCEPT !.done = TRUE] ELSE list[j]
    BY <1>2, <1>3, ExceptSeq
  <1>5. list'[i].client = list[i].client /\ list'[i].done = TRUE
    BY <1>1, <1>4 DEF Entry
  <1>6. \A j \in 1 .. Len(list) : j # i => list'[j] = list[j]
    BY <1>4
  <1> QED
    BY <1>4, <1>5, <1>6

\* What receiving a packet does to the list.
LEMMA SenderStored ==
  ASSUME list \in Seq(Entry), NEW i \in 1 .. Len(list), NEW c \in Clients,
         list' = [list EXCEPT ![i].client = c]
  PROVE  /\ list' \in Seq(Entry) /\ Len(list') = Len(list)
         /\ \A j \in 1 .. Len(list) :
              /\ list'[j].done = list[j].done
              /\ j # i => list'[j].client = list[j].client
  <1>1. \A j \in 1 .. Len(list) : list[j] \in Entry
    OBVIOUS
  <1>2. [list[i] EXCEPT !.client = c] \in Entry
    BY <1>1 DEF Entry
  <1>3. list' = [list EXCEPT ![i] = [list[i] EXCEPT !.client = c]]
    OBVIOUS
  <1>4. list' \in Seq(Entry) /\ Len(list') = Len(list)
        /\ \A j \in 1 .. Len(list) : list'[j] = IF j = i THEN [list[i] EXCEPT !.client = c] ELSE list[j]
    BY <1>2, <1>3, ExceptSeq
  <1> QED
    BY <1>1, <1>4 DEF Entry

\* What adding a client does to the list.
LEMMA ClientAdded ==
  ASSUME list \in Seq(Entry), NEW c \in Clients,
         list' = Append(list, [client |-> c, done |-> FALSE])
  PROVE  /\ list' \in Seq(Entry) /\ Len(list') = Len(list) + 1
         /\ \A j \in 1 .. Len(list) : list'[j] = list[j]
         /\ list'[Len(list) + 1].client = c /\ ~list'[Len(list) + 1].done
  <1>1. [client |-> c, done |-> FALSE] \in Entry
    BY DEF Entry
  <1>2. list' \in Seq(Entry) /\ Len(list') = Len(list) + 1
        /\ \A j \in 1 .. Len(list) : list'[j] = list[j]
        /\ list'[Len(list) + 1] = [client |-> c, done |-> FALSE]
    BY <1>1, AppendProperties
  <1> QED
    BY <1>2

\* No more clients are done than there are, and fewer if one is not.
LEMMA FinishedBound ==
  ASSUME list \in Seq(Entry)
  PROVE  /\ IsFiniteSet(Finished) /\ Cardinality(Finished) \in Nat
         /\ Cardinality(Finished) <= Len(list)
         /\ \A i \in 1 .. Len(list) :
              ~list[i].done => Cardinality(Finished) + 1 <= Len(list)
  <1> DEFINE I == 1 .. Len(list)
  <1>1. DOMAIN list = I /\ Len(list) \in Nat
    OBVIOUS
  <1>2. IsFiniteSet(I) /\ Cardinality(I) = Len(list)
    BY <1>1, FS_Interval, SMTT(30)
  <1>3. Finished \subseteq I
    BY <1>1 DEF Finished
  <1>4. IsFiniteSet(Finished) /\ Cardinality(Finished) \in Nat /\ Cardinality(Finished) <= Len(list)
    BY <1>2, <1>3, FS_Subset, FS_CardinalityType
  <1>5. ASSUME NEW i \in I, ~list[i].done
        PROVE  Cardinality(Finished) + 1 <= Len(list)
    <2>1. i \notin Finished /\ Finished \cup {i} \subseteq I
      BY <1>3, <1>5 DEF Finished
    <2>2. Cardinality(Finished \cup {i}) = Cardinality(Finished) + 1
      BY <1>4, <2>1, FS_AddElement
    <2>3. Cardinality(Finished \cup {i}) <= Cardinality(I)
      BY <1>2, <2>1, FS_Subset
    <2> QED
      BY <1>2, <2>2, <2>3
  <1> QED
    BY <1>4, <1>5

\* The current client's mark is one more.
LEMMA FinishedGrows ==
  ASSUME list \in Seq(Entry), NEW i \in 1 .. Len(list), ~list[i].done,
         list' = [list EXCEPT ![i].done = TRUE]
  PROVE  Cardinality(Finished') = Cardinality(Finished) + 1
  <1>1. Finished' = Finished \cup {i} /\ i \notin Finished
    BY MarkedDone DEF Finished
  <1> QED
    BY <1>1, FinishedBound, FS_AddElement

\* Initially the first client is the master, and it is served.
LEMMA InitGroupInv == Init => GroupInv
  <1> SUFFICES ASSUME Init PROVE GroupInv
    OBVIOUS
  <1>1. list = <<[client |-> First, done |-> FALSE]>> /\ list \in Seq(Entry) /\ Len(list) = 1 /\ list[1].client = First /\ ~list[1].done
    <2>1. [client |-> First, done |-> FALSE] \in Entry
      BY MulticastAssumption DEF Entry
    <2> QED
      BY <2>1 DEF Init
  <1>2. TypeOK
    BY <1>1, MulticastAssumption DEF Init, TypeOK, Entry, Packets, States, Pending, Dropped
  <1>3. Numbered
    BY <1>1, MulticastAssumption DEF Init, Numbered, Entry, Packets, States, Pending, Dropped
  <1>4. Current
    BY <1>1, MulticastAssumption DEF Init, Current, Entry, Packets, States, Pending, Dropped
  <1>5. Patience
    BY <1>1, FinishedBound, MulticastAssumption DEF Init, Patience
  <1>6. Unanswered
    BY <1>1, MulticastAssumption DEF Init, Unanswered, Entry, Packets, States, Pending, Dropped
  <1>7. NobodyForgotten
    BY <1>1, MulticastAssumption DEF Init, NobodyForgotten, Entry, Packets, States, Pending, Dropped
  <1> QED
    BY <1>2, <1>3, <1>4, <1>5, <1>6, <1>7 DEF GroupInv

\* The last block stays in its range when the offset of the numbers grows.
LEMMA NumbersGrow ==
  ASSUME NEW b \in Nat, NEW low \in Nat, NEW high \in Nat, low <= high,
         NEW n \in high .. high + b, NEW l \in -1 .. low + b
  PROVE  n \in Nat /\ l \in -1 .. high + b /\ l \in -1 .. n + b
  OBVIOUS

\* No step of the server, of a client or of the network leaves the invariant.
LEMMA StepGroupInv ==
  ASSUME GroupInv, [Next]_vars
  PROVE  GroupInv'
  <1> USE DEF vars, sendVars, listVars, threadVars, mainVars, clientVars, history
  <1>1. /\ TypeOK /\ Numbered /\ Current /\ Patience /\ Unanswered /\ NobodyForgotten
        /\ Blocks \in Nat \ {0} /\ Wrap \in Nat /\ NB_OF_RETRY \in Nat /\ Len(list) \in Nat
        /\ list \in Seq(Entry) /\ DOMAIN list = 1 .. Len(list)
        /\ client_info \in 0 .. Len(list) /\ number_of_timeout \in Nat
        /\ block_number \in Nat /\ wraparound_offset \in Nat /\ last_block \in Int
    BY MulticastAssumption DEF GroupInv, TypeOK, Numbered, Entry
  <1>2. Cardinality(Finished) \in Nat
    BY <1>1, FinishedBound
  <1>3. CASE Begin
    <2>1. TypeOK'
      BY <1>1, <1>2, <1>3 DEF Begin, Turn, TypeOK, Numbered, Entry, States
    <2>2. Numbered'
      BY <1>1, <1>2, <1>3 DEF Begin, Turn, TypeOK, Numbered
    <2>3. Current'
      BY <1>1, <1>2, <1>3 DEF Begin, Turn, TypeOK, Current
    <2>4. Patience'
      BY <1>1, <1>2, <1>3 DEF Begin, Turn, TypeOK, Current, Patience, Finished
    <2>5. Unanswered'
      BY <1>1, <1>2, <1>3 DEF Begin, Turn, TypeOK, Current, Unanswered, Pending, Dropped
    <2>6. NobodyForgotten'
      BY <1>1, <1>2, <1>3
         DEF Begin, Turn, TypeOK, Current, Unanswered, Pending, Dropped, NobodyForgotten
    <2> QED
      BY <2>1, <2>2, <2>3, <2>4, <2>5, <2>6 DEF GroupInv
  <1>4. CASE SendOack
    <2>1. TypeOK'
      BY <1>1, <1>2, <1>4 DEF SendOack, Turn, Told, TypeOK, Numbered, Entry, States
    <2>2. Numbered'
      BY <1>1, <1>2, <1>4 DEF SendOack, Turn, Told, TypeOK, Numbered
    <2>3. Current'
      BY <1>1, <1>2, <1>4 DEF SendOack, Turn, Told, TypeOK, Current
    <2>4. Patience'
      BY <1>1, <1>2, <1>4 DEF SendOack, Turn, Told, TypeOK, Current, Patience, Finished
    <2>5. Unanswered'
      BY <1>1, <1>2, <1>4 DEF SendOack, Turn, Told, TypeOK, Current, Unanswered, Pending, Dropped
    <2>6. NobodyForgotten'
      BY <1>1, <1>2, <1>4
         DEF SendOack, Turn, Told, TypeOK, Current, Unanswered, Pending, Dropped, NobodyForgotten
    <2> QED
      BY <2>1, <2>2, <2>3, <2>4, <2>5, <2>6 DEF GroupInv
  <1>5. CASE SendData
    <2>1. TypeOK'
      BY <1>1, <1>2, <1>5 DEF SendData, Turn, TypeOK, Numbered, Entry, States
    <2>2. Numbered'
      BY <1>1, <1>2, <1>5 DEF SendData, Turn, TypeOK, Numbered
    <2>3. Current'
      BY <1>1, <1>2, <1>5 DEF SendData, Turn, TypeOK, Current
    <2>4. Patience'
      BY <1>1, <1>2, <1>5 DEF SendData, Turn, TypeOK, Current, Patience, Finished
    <2>5. Unanswered'
      BY <1>1, <1>2, <1>5 DEF SendData, Turn, TypeOK, Current, Unanswered, Pending, Dropped
    <2>6. NobodyForgotten'
      BY <1>1, <1>2, <1>5
         DEF SendData, Turn, TypeOK, Current, Unanswered, Pending, Dropped, NobodyForgotten
    <2> QED
      BY <2>1, <2>2, <2>3, <2>4, <2>5, <2>6 DEF GroupInv
  <1>6. CASE GiveUp
    <2>1. client_info \in 1 .. Len(list) /\ ~list[client_info].done
      BY <1>1, <1>6 DEF GiveUp, Turn, TypeOK, Current, States
    <2>2. number_of_timeout + 1 \in 0 .. NB_OF_RETRY + Len(list)
      BY <1>1, <1>2, <1>6, <2>1, FinishedBound DEF GiveUp, Turn, TypeOK, Patience
    <2>3. TypeOK'
      BY <1>1, <1>2, <1>6, <2>1, <2>2 DEF GiveUp, Turn, PrintAddr, TypeOK, Numbered, Entry, States
    <2>4. Numbered'
      BY <1>1, <1>2, <1>6, <2>1, <2>2 DEF GiveUp, Turn, PrintAddr, TypeOK, Numbered
    <2>5. Current'
      BY <1>1, <1>2, <1>6, <2>1, <2>2 DEF GiveUp, Turn, PrintAddr, TypeOK, Current
    <2>6. Patience'
      BY <1>1, <1>2, <1>6, <2>1, <2>2
         DEF GiveUp, Turn, PrintAddr, TypeOK, Current, Patience, Finished
    <2>7. Unanswered'
      BY <1>1, <1>2, <1>6, <2>1, <2>2
         DEF GiveUp, Turn, PrintAddr, TypeOK, Current, Unanswered, Pending, Dropped
    <2>8. NobodyForgotten'
      BY <1>1, <1>2, <1>6, <2>1, <2>2
         DEF GiveUp, Turn, PrintAddr, TypeOK, Current, Unanswered, Pending, Dropped, NobodyForgotten
    <2> QED
      BY <2>3, <2>4, <2>5, <2>6, <2>7, <2>8 DEF GroupInv
  <1>7. CASE Retry
    <2>1. TypeOK'
      BY <1>1, <1>2, <1>7 DEF Retry, Turn, TypeOK, Numbered, Entry, States
    <2>2. Numbered'
      BY <1>1, <1>2, <1>7 DEF Retry, Turn, TypeOK, Numbered
    <2>3. Current'
      BY <1>1, <1>2, <1>7 DEF Retry, Turn, TypeOK, Current
    <2>4. Patience'
      BY <1>1, <1>2, <1>7 DEF Retry, Turn, TypeOK, Current, Patience, Finished
    <2>5. Unanswered'
      BY <1>1, <1>2, <1>7 DEF Retry, Turn, TypeOK, Current, Unanswered, Pending, Dropped
    <2>6. NobodyForgotten'
      BY <1>1, <1>2, <1>7
         DEF Retry, Turn, TypeOK, Current, Unanswered, Pending, Dropped, NobodyForgotten
    <2> QED
      BY <2>1, <2>2, <2>3, <2>4, <2>5, <2>6 DEF GroupInv
  <1>8. CASE Switch
    <2>1. NextClient \in 0 .. Len(list) /\ (NextClient # 0 => ~list[NextClient].done)
          /\ (NextClient = 0 => \A i \in 1 .. Len(list) : i # client_info \/ Len(list) = 1 => list[i].done)
      <3>1. client_info \in 1 .. Len(list)
        BY <1>1, <1>8 DEF Switch, Turn, Current
      <3> QED
        BY <1>1, <3>1, NextClientFacts
    <2>2. TypeOK'
      BY <1>1, <1>2, <1>8, <2>1
         DEF Switch, Turn, TakeNext, Told, PrintAddr, TypeOK, Numbered, Entry, States
    <2>3. Numbered'
      BY <1>1, <1>2, <1>8, <2>1 DEF Switch, Turn, TakeNext, Told, PrintAddr, TypeOK, Numbered
    <2>4. Current'
      BY <1>1, <1>2, <1>8, <2>1 DEF Switch, Turn, TakeNext, Told, PrintAddr, TypeOK, Current
    <2>5. Patience'
      BY <1>1, <1>2, <1>8, <2>1
         DEF Switch, Turn, TakeNext, Told, PrintAddr, TypeOK, Current, Patience, Finished
    <2>6. Unanswered'
      BY <1>1, <1>2, <1>8, <2>1
         DEF Switch, Turn, TakeNext, Told, PrintAddr, TypeOK, Current, Unanswered, Pending, Dropped
    <2>7. NobodyForgotten'
      BY <1>1, <1>2, <1>8, <2>1
         DEF Switch, Turn, TakeNext, Told, PrintAddr, TypeOK, Current, Unanswered, Pending, Dropped,
             NobodyForgotten
    <2> QED
      BY <2>2, <2>3, <2>4, <2>5, <2>6, <2>7 DEF GroupInv
  <1>9. CASE Abnormal
    <2>1. NextClient \in 0 .. Len(list) /\ (NextClient # 0 => ~list[NextClient].done)
          /\ (NextClient = 0 => \A i \in 1 .. Len(list) : i # client_info \/ Len(list) = 1 => list[i].done)
      <3>1. client_info \in 1 .. Len(list)
        BY <1>1, <1>9 DEF Abnormal, Turn, Current
      <3> QED
        BY <1>1, <3>1, NextClientFacts
    <2>2. TypeOK'
      BY <1>1, <1>2, <1>9, <2>1 DEF Abnormal, Turn, TakeNext, TypeOK, Numbered, Entry, States
    <2>3. Numbered'
      BY <1>1, <1>2, <1>9, <2>1 DEF Abnormal, Turn, TakeNext, TypeOK, Numbered
    <2>4. Current'
      BY <1>1, <1>2, <1>9, <2>1 DEF Abnormal, Turn, TakeNext, TypeOK, Current
    <2>5. Patience'
      BY <1>1, <1>2, <1>9, <2>1 DEF Abnormal, Turn, TakeNext, TypeOK, Current, Patience, Finished
    <2>6. Unanswered'
      BY <1>1, <1>2, <1>9, <2>1
         DEF Abnormal, Turn, TakeNext, TypeOK, Current, Unanswered, Pending, Dropped
    <2>7. NobodyForgotten'
      BY <1>1, <1>2, <1>9, <2>1
         DEF Abnormal, Turn, TakeNext, TypeOK, Current, Unanswered, Pending, Dropped,
             NobodyForgotten
    <2> QED
      BY <2>2, <2>3, <2>4, <2>5, <2>6, <2>7 DEF GroupInv
  <1>10. CASE GetAck
    <2>1. client_info \in 1 .. Len(list) /\ ~list[client_info].done
      BY <1>1, <1>10 DEF GetAck, Turn, Current
    <2>2. PICK p \in toServer : Receive(p) /\ wraparound_offset' = (IF p.block = 0 /\ block_number # 0
                               THEN wraparound_offset + Wrap
                               ELSE wraparound_offset) /\ block_number' = wraparound_offset' + p.block
      BY <1>10 DEF GetAck
    <2>3. p \in Packets
      BY <1>1, <2>2 DEF TypeOK
    <2>4. /\ list' \in Seq(Entry) /\ Len(list') = Len(list) /\ DOMAIN list' = 1 .. Len(list)
          /\ \A j \in 1 .. Len(list) :
               /\ list'[j].done = list[j].done
               /\ j # client_info => list'[j].client = list[j].client
      BY <1>1, <2>1, <2>2, <2>3, SenderStored DEF Receive, Packets
    <2>5. Finished' = Finished
      BY <1>1, <2>4 DEF Finished
    <2>6. /\ wraparound_offset' \in Nat /\ wraparound_offset <= wraparound_offset'
          /\ block_number' \in wraparound_offset' .. wraparound_offset' + Blocks
      <3>1. p.block \in 0 .. Blocks
        BY <2>3 DEF Packets
      <3> QED
        BY <1>1, <2>2, <3>1
    <2>7. /\ number_of_timeout' = 0 /\ state' \in {"S_END", "S_SEND_DATA"}
          /\ toServer' \subseteq toServer /\ unspec' \in BOOLEAN
          /\ UNCHANGED <<timeout_state, last_block, client_info, result, client_ready, role, has>>
      BY <1>1, <1>10, <2>2 DEF GetAck, Receive, TypeOK
    <2>8. TypeOK'
      <3>1. /\ last_block' = last_block /\ last_block \in -1 .. wraparound_offset + Blocks
            /\ Blocks \in Nat /\ wraparound_offset \in Nat
        BY <1>1, <2>7 DEF Numbered
      <3>2. block_number' \in Nat /\ last_block' \in -1 .. block_number' + Blocks
        BY <2>6, <3>1, NumbersGrow
      <3>3. client_info' \in 0 .. Len(list') /\ number_of_timeout' \in 0 .. NB_OF_RETRY' + Len(list')
        BY <1>1, <2>4, <2>7
      <3> QED
        BY <1>1, <2>4, <2>7, <3>2, <3>3 DEF TypeOK, Entry, States
    <2>9. Numbered'
      <3>1. /\ last_block' = last_block /\ last_block \in -1 .. wraparound_offset + Blocks
            /\ Blocks \in Nat /\ wraparound_offset \in Nat
        BY <1>1, <2>7 DEF Numbered
      <3> QED
        BY <2>6, <3>1, NumbersGrow DEF Numbered
    <2>10. Current'
      BY <1>1, <1>2, <1>10, <2>1, <2>2, <2>3, <2>4, <2>5, <2>6, <2>7
         DEF GetAck, Turn, Receive, Packets, TypeOK, Current
    <2>11. Patience'
      BY <1>1, <1>2, <1>10, <2>1, <2>2, <2>3, <2>4, <2>5, <2>6, <2>7, SMTT(30)
         DEF GetAck, Turn, Receive, Packets, TypeOK, Current, Patience
    <2>12. Unanswered'
      BY <1>1, <1>2, <1>10, <2>1, <2>2, <2>3, <2>4, <2>5, <2>6, <2>7
         DEF GetAck, Turn, Receive, Packets, TypeOK, Current, Unanswered, Pending, Dropped
    <2>13. NobodyForgotten'
    BY <1>1, <1>2, <1>10, <2>1, <2>2, <2>3, <2>4, <2>5, <2>6, <2>7
       DEF GetAck, Turn, Receive, Packets, TypeOK, Current, Unanswered, Pending, Dropped,
           NobodyForgotten
    <2> QED
      BY <2>8, <2>9, <2>10, <2>11, <2>12, <2>13 DEF GroupInv
  <1>11. CASE GetError
    <2>1. client_info \in 1 .. Len(list) /\ ~list[client_info].done
      BY <1>1, <1>11 DEF GetError, Turn, Current
    <2>2. PICK p \in toServer : Receive(p)
      BY <1>11 DEF GetError
    <2>3. p \in Packets
      BY <1>1, <2>2 DEF TypeOK
    <2>4. /\ list' \in Seq(Entry) /\ Len(list') = Len(list) /\ DOMAIN list' = 1 .. Len(list)
          /\ \A j \in 1 .. Len(list) :
               /\ list'[j].done = list[j].done
               /\ j # client_info => list'[j].client = list[j].client
      BY <1>1, <2>1, <2>2, <2>3, SenderStored DEF Receive, Packets
    <2>5. Finished' = Finished
      BY <1>1, <2>4 DEF Finished
    <2>6. TypeOK'
      BY <1>1, <1>2, <1>11, <2>1, <2>2, <2>3, <2>4, <2>5
         DEF GetError, Turn, Receive, Packets, TypeOK, Numbered, Entry, States
    <2>7. Numbered'
      BY <1>1, <1>2, <1>11, <2>1, <2>2, <2>3, <2>4, <2>5
         DEF GetError, Turn, Receive, Packets, TypeOK, Numbered
    <2>8. Current'
      BY <1>1, <1>2, <1>11, <2>1, <2>2, <2>3, <2>4, <2>5
         DEF GetError, Turn, Receive, Packets, TypeOK, Current
    <2>9. Patience'
      BY <1>1, <1>2, <1>11, <2>1, <2>2, <2>3, <2>4, <2>5
         DEF GetError, Turn, Receive, Packets, TypeOK, Current, Patience
    <2>10. Unanswered'
      BY <1>1, <1>2, <1>11, <2>1, <2>2, <2>3, <2>4, <2>5
         DEF GetError, Turn, Receive, Packets, TypeOK, Current, Unanswered, Pending, Dropped
    <2>11. NobodyForgotten'
      BY <1>1, <1>2, <1>11, <2>1, <2>2, <2>3, <2>4, <2>5
         DEF GetError, Turn, Receive, Packets, TypeOK, Current, Unanswered, Pending, Dropped,
             NobodyForgotten
    <2> QED
      BY <2>6, <2>7, <2>8, <2>9, <2>10, <2>11 DEF GroupInv
  <1>12. CASE ReceiveFails
    <2>1. TypeOK'
      BY <1>1, <1>2, <1>12 DEF ReceiveFails, Turn, TypeOK, Numbered, Entry, States
    <2>2. Numbered'
      BY <1>1, <1>2, <1>12 DEF ReceiveFails, Turn, TypeOK, Numbered
    <2>3. Current'
      BY <1>1, <1>2, <1>12 DEF ReceiveFails, Turn, TypeOK, Current
    <2>4. Patience'
      BY <1>1, <1>2, <1>12 DEF ReceiveFails, Turn, TypeOK, Current, Patience, Finished
    <2>5. Unanswered'
      BY <1>1, <1>2, <1>12 DEF ReceiveFails, Turn, TypeOK, Current, Unanswered, Pending, Dropped
    <2>6. NobodyForgotten'
      BY <1>1, <1>2, <1>12
         DEF ReceiveFails, Turn, TypeOK, Current, Unanswered, Pending, Dropped, NobodyForgotten
    <2> QED
      BY <2>1, <2>2, <2>3, <2>4, <2>5, <2>6 DEF GroupInv
  <1>13. CASE EndDone
    <2>1. client_info \in 1 .. Len(list) /\ ~list[client_info].done
      BY <1>1, <1>13 DEF EndDone, Turn, Current
    <2>2. /\ list' \in Seq(Entry) /\ Len(list') = Len(list) /\ DOMAIN list' = 1 .. Len(list)
          /\ \A j \in 1 .. Len(list) :
               /\ list'[j].client = list[j].client
               /\ IF j = client_info THEN list'[j].done ELSE list'[j].done = list[j].done
      BY <1>1, <1>13, <2>1, MarkedDone DEF EndDone, MarkDone
    <2>3. Cardinality(Finished') = Cardinality(Finished) + 1
      BY <1>1, <1>13, <2>1, FinishedGrows DEF EndDone, MarkDone
    <2>4. TypeOK'
      BY <1>1, <1>2, <1>13, <2>1, <2>2, <2>3
         DEF EndDone, Turn, MarkDone, TypeOK, Numbered, Entry, States
    <2>5. Numbered'
      BY <1>1, <1>2, <1>13, <2>1, <2>2, <2>3 DEF EndDone, Turn, MarkDone, TypeOK, Numbered
    <2>6. Current'
      BY <1>1, <1>2, <1>13, <2>1, <2>2, <2>3 DEF EndDone, Turn, MarkDone, TypeOK, Current
    <2>7. Patience'
      BY <1>1, <1>2, <1>13, <2>1, <2>2, <2>3, SMTT(30)
         DEF EndDone, Turn, MarkDone, TypeOK, Current, Patience
    <2>8. Unanswered'
      BY <1>1, <1>2, <1>13, <2>1, <2>2, <2>3
         DEF EndDone, Turn, MarkDone, TypeOK, Current, Unanswered, Pending, Dropped
    <2>9. NobodyForgotten'
      BY <1>1, <1>2, <1>13, <2>1, <2>2, <2>3
         DEF EndDone, Turn, MarkDone, TypeOK, Current, Unanswered, Pending, Dropped, NobodyForgotten
    <2> QED
      BY <2>4, <2>5, <2>6, <2>7, <2>8, <2>9 DEF GroupInv
  <1>14. CASE EndNext
    <2>1. NextClient \in 0 .. Len(list) /\ (NextClient # 0 => ~list[NextClient].done)
          /\ (NextClient = 0 => \A i \in 1 .. Len(list) : i # client_info \/ Len(list) = 1 => list[i].done)
      <3>1. client_info \in 1 .. Len(list)
        BY <1>1, <1>14 DEF EndNext, Current
      <3> QED
        BY <1>1, <3>1, NextClientFacts
    <2>2. TypeOK'
      BY <1>1, <1>2, <1>14, <2>1 DEF EndNext, TakeNext, PrintAddr, TypeOK, Numbered, Entry, States
    <2>3. Numbered'
      BY <1>1, <1>2, <1>14, <2>1 DEF EndNext, TakeNext, PrintAddr, TypeOK, Numbered
    <2>4. Current'
      BY <1>1, <1>2, <1>14, <2>1 DEF EndNext, TakeNext, PrintAddr, TypeOK, Current
    <2>5. Patience'
      BY <1>1, <1>2, <1>14, <2>1
         DEF EndNext, TakeNext, PrintAddr, TypeOK, Current, Patience, Finished
    <2>6. Unanswered'
      BY <1>1, <1>2, <1>14, <2>1
         DEF EndNext, TakeNext, PrintAddr, TypeOK, Current, Unanswered, Pending, Dropped
    <2>7. NobodyForgotten'
      BY <1>1, <1>2, <1>14, <2>1
         DEF EndNext, TakeNext, PrintAddr, TypeOK, Current, Unanswered, Pending, Dropped,
             NobodyForgotten
    <2> QED
      BY <2>2, <2>3, <2>4, <2>5, <2>6, <2>7 DEF GroupInv
  <1>15. CASE Abort
    <2>1. TypeOK'
      BY <1>1, <1>2, <1>15 DEF Abort, Turn, TypeOK, Numbered, Entry, States
    <2>2. Numbered'
      BY <1>1, <1>2, <1>15 DEF Abort, Turn, TypeOK, Numbered
    <2>3. Current'
      BY <1>1, <1>2, <1>15 DEF Abort, Turn, TypeOK, Current
    <2>4. Patience'
      BY <1>1, <1>2, <1>15 DEF Abort, Turn, TypeOK, Current, Patience, Finished
    <2>5. Unanswered'
      BY <1>1, <1>2, <1>15 DEF Abort, Turn, TypeOK, Current, Unanswered, Pending, Dropped
    <2>6. NobodyForgotten'
      BY <1>1, <1>2, <1>15
         DEF Abort, Turn, TypeOK, Current, Unanswered, Pending, Dropped, NobodyForgotten
    <2> QED
      BY <2>1, <2>2, <2>3, <2>4, <2>5, <2>6 DEF GroupInv
  <1>16. CASE CancelDone
    <2>1. client_info \in 1 .. Len(list) /\ ~list[client_info].done
      BY <1>1, <1>16 DEF CancelDone, AtTop, Current
    <2>2. /\ list' \in Seq(Entry) /\ Len(list') = Len(list) /\ DOMAIN list' = 1 .. Len(list)
          /\ \A j \in 1 .. Len(list) :
               /\ list'[j].client = list[j].client
               /\ IF j = client_info THEN list'[j].done ELSE list'[j].done = list[j].done
      BY <1>1, <1>16, <2>1, MarkedDone DEF CancelDone, MarkDone
    <2>3. Cardinality(Finished') = Cardinality(Finished) + 1
      BY <1>1, <1>16, <2>1, FinishedGrows DEF CancelDone, MarkDone
    <2>4. TypeOK'
      BY <1>1, <1>2, <1>16, <2>1, <2>2, <2>3
         DEF CancelDone, AtTop, MarkDone, TypeOK, Numbered, Entry, States
    <2>5. Numbered'
      BY <1>1, <1>2, <1>16, <2>1, <2>2, <2>3 DEF CancelDone, AtTop, MarkDone, TypeOK, Numbered
    <2>6. Current'
      BY <1>1, <1>2, <1>16, <2>1, <2>2, <2>3 DEF CancelDone, AtTop, MarkDone, TypeOK, Current
    <2>7. Patience'
      BY <1>1, <1>2, <1>16, <2>1, <2>2, <2>3, SMTT(30)
         DEF CancelDone, AtTop, MarkDone, TypeOK, Current, Patience
    <2>8. Unanswered'
      BY <1>1, <1>2, <1>16, <2>1, <2>2, <2>3, SMTT(30)
         DEF CancelDone, AtTop, MarkDone, TypeOK, Current, Unanswered, Pending, Dropped
    <2>9. NobodyForgotten'
      BY <1>1, <1>2, <1>16, <2>1, <2>2, <2>3
         DEF CancelDone, AtTop, MarkDone, TypeOK, Current, Unanswered, Pending, Dropped,
             NobodyForgotten
    <2> QED
      BY <2>4, <2>5, <2>6, <2>7, <2>8, <2>9 DEF GroupInv
  <1>17. CASE CancelNext
    <2>1. NextClient \in 0 .. Len(list) /\ (NextClient # 0 => ~list[NextClient].done)
          /\ (NextClient = 0 => \A i \in 1 .. Len(list) : i # client_info \/ Len(list) = 1 => list[i].done)
      <3>1. client_info \in 1 .. Len(list)
        BY <1>1, <1>17 DEF CancelNext, Current
      <3> QED
        BY <1>1, <3>1, NextClientFacts
    <2>2. TypeOK'
      BY <1>1, <1>2, <1>17, <2>1 DEF CancelNext, TakeNext, TypeOK, Numbered, Entry, States
    <2>3. Numbered'
      BY <1>1, <1>2, <1>17, <2>1 DEF CancelNext, TakeNext, TypeOK, Numbered
    <2>4. Current'
      BY <1>1, <1>2, <1>17, <2>1 DEF CancelNext, TakeNext, TypeOK, Current
    <2>5. Patience'
      BY <1>1, <1>2, <1>17, <2>1 DEF CancelNext, TakeNext, TypeOK, Current, Patience, Finished
    <2>6. Unanswered'
      BY <1>1, <1>2, <1>17, <2>1
         DEF CancelNext, TakeNext, TypeOK, Current, Unanswered, Pending, Dropped
    <2>7. NobodyForgotten'
      BY <1>1, <1>2, <1>17, <2>1
         DEF CancelNext, TakeNext, TypeOK, Current, Unanswered, Pending, Dropped, NobodyForgotten
    <2> QED
      BY <2>2, <2>3, <2>4, <2>5, <2>6, <2>7 DEF GroupInv
  <1>18. CASE CancelCrash
    <2>1. TypeOK'
      BY <1>1, <1>2, <1>18 DEF CancelCrash, AtTop, TypeOK, Numbered, Entry, States
    <2>2. Numbered'
      BY <1>1, <1>2, <1>18 DEF CancelCrash, AtTop, TypeOK, Numbered
    <2>3. Current'
      BY <1>1, <1>2, <1>18 DEF CancelCrash, AtTop, TypeOK, Current
    <2>4. Patience'
      BY <1>1, <1>2, <1>18 DEF CancelCrash, AtTop, TypeOK, Current, Patience, Finished
    <2>5. Unanswered'
      BY <1>1, <1>2, <1>18 DEF CancelCrash, AtTop, TypeOK, Current, Unanswered, Pending, Dropped
    <2>6. NobodyForgotten'
      BY <1>1, <1>2, <1>18
         DEF CancelCrash, AtTop, TypeOK, Current, Unanswered, Pending, Dropped, NobodyForgotten
    <2> QED
      BY <2>1, <2>2, <2>3, <2>4, <2>5, <2>6 DEF GroupInv
  <1>19. CASE Free
    <2>1. TypeOK'
      BY <1>1, <1>2, <1>19 DEF Free, TypeOK, Numbered, Entry, States
    <2>2. Numbered'
      BY <1>1, <1>2, <1>19 DEF Free, TypeOK, Numbered
    <2>3. Current'
      BY <1>1, <1>2, <1>19 DEF Free, TypeOK, Current
    <2>4. Patience'
      BY <1>1, <1>2, <1>19 DEF Free, TypeOK, Current, Patience, Finished
    <2>5. Unanswered'
      BY <1>1, <1>2, <1>19 DEF Free, TypeOK, Current, Unanswered, Pending, Dropped
    <2>6. NobodyForgotten'
      BY <1>1, <1>2, <1>19 DEF Free, TypeOK, Current, Unanswered, Pending, Dropped, NobodyForgotten
    <2> QED
      BY <2>1, <2>2, <2>3, <2>4, <2>5, <2>6 DEF GroupInv
  <1>20. ASSUME NEW t \in Threads, FindAndAdd(t), UNCHANGED <<list, added>>
        PROVE  GroupInv'
    <2>1. TypeOK'
      BY <1>1, <1>2, <1>20 DEF FindAndAdd, TypeOK, Numbered, Entry, States
    <2>2. Numbered'
      BY <1>1, <1>2, <1>20 DEF FindAndAdd, TypeOK, Numbered
    <2>3. Current'
      BY <1>1, <1>2, <1>20 DEF FindAndAdd, TypeOK, Current
    <2>4. Patience'
      BY <1>1, <1>2, <1>20 DEF FindAndAdd, TypeOK, Current, Patience, Finished
    <2>5. Unanswered'
      BY <1>1, <1>2, <1>20 DEF FindAndAdd, TypeOK, Current, Unanswered, Pending, Dropped
    <2>6. NobodyForgotten'
      BY <1>1, <1>2, <1>20
         DEF FindAndAdd, TypeOK, Current, Unanswered, Pending, Dropped, NobodyForgotten
    <2> QED
      BY <2>1, <2>2, <2>3, <2>4, <2>5, <2>6 DEF GroupInv
  <1>21. ASSUME NEW t \in Threads, FindAndAdd(t), NEW c \in Clients,
               client_ready, list' = Append(list, [client |-> c, done |-> FALSE]),
               added' = added \cup {c}
        PROVE  GroupInv'
    <2>1. /\ list' \in Seq(Entry) /\ Len(list') = Len(list) + 1 /\ DOMAIN list' = 1 .. Len(list) + 1
          /\ \A j \in 1 .. Len(list) : list'[j] = list[j]
          /\ list'[Len(list) + 1].client = c /\ ~list'[Len(list) + 1].done
      <3>1. list' = Append(list, [client |-> c, done |-> FALSE]) /\ c \in Clients /\ list \in Seq(Entry)
        BY <1>1, <1>21
      <3>2. [client |-> c, done |-> FALSE] \in Entry
        BY <3>1 DEF Entry
      <3> QED
        BY <3>1, <3>2
    <2>2. Finished' = Finished
      BY <1>1, <2>1 DEF Finished
    <2>3. ~Dropped => result \notin {"OK", "ERR"} /\ state # "S_ABORT"
      BY <1>1, <1>21 DEF NobodyForgotten, Unanswered
    <2>4. /\ UNCHANGED <<sendVars, unspec, client_ready, freed, mainVars, clientVars, chosen, answered, touched>>
          /\ added' = added \cup {c} /\ c \in Clients
      BY <1>21 DEF FindAndAdd
    <2>5. TypeOK'
      BY <1>1, <2>1, <2>4 DEF TypeOK, Entry
    <2>6. Numbered'
      BY <1>1, <1>2, <1>21, <2>1, <2>2, <2>3, <2>4 DEF FindAndAdd, TypeOK, Numbered
    <2>7. Current'
      BY <1>1, <2>1, <2>4 DEF Current
    <2>8. Patience'
      BY <1>1, <1>2, <2>1, <2>2, <2>4 DEF Patience
    <2>9. Unanswered'
      <3>1. ASSUME NEW d \in Clients, Pending(d)
            PROVE  Pending(d)'
        BY <1>1, <2>1, <2>4, <3>1 DEF Pending
      <3>2. Pending(c)'
        BY <1>1, <2>1, <2>4 DEF Pending
      <3> QED
        BY <1>1, <2>3, <2>4, <3>1, <3>2 DEF Unanswered, Dropped
    <2>10. NobodyForgotten'
      BY <1>1, <1>2, <1>21, <2>1, <2>2, <2>3, <2>4
         DEF FindAndAdd, TypeOK, Current, Unanswered, Pending, Dropped, NobodyForgotten
    <2> QED
      BY <2>5, <2>6, <2>7, <2>8, <2>9, <2>10 DEF GroupInv
  <1>22. ASSUME NEW t \in Threads, UseThread(t) PROVE GroupInv'
    <2>1. TypeOK'
      BY <1>1, <1>2, <1>22 DEF UseThread, Told, TypeOK, Numbered, Entry, States
    <2>2. Numbered'
      BY <1>1, <1>2, <1>22 DEF UseThread, Told, TypeOK, Numbered
    <2>3. Current'
      BY <1>1, <1>2, <1>22 DEF UseThread, Told, TypeOK, Current
    <2>4. Patience'
      BY <1>1, <1>2, <1>22 DEF UseThread, Told, TypeOK, Current, Patience, Finished
    <2>5. Unanswered'
      BY <1>1, <1>2, <1>22 DEF UseThread, Told, TypeOK, Current, Unanswered, Pending, Dropped
    <2>6. NobodyForgotten'
      BY <1>1, <1>2, <1>22
         DEF UseThread, Told, TypeOK, Current, Unanswered, Pending, Dropped, NobodyForgotten
    <2> QED
      BY <2>1, <2>2, <2>3, <2>4, <2>5, <2>6 DEF GroupInv
  <1>23. CASE MainCancel
    <2>1. TypeOK'
      BY <1>1, <1>2, <1>23 DEF MainCancel, TypeOK, Numbered, Entry, States
    <2>2. Numbered'
      BY <1>1, <1>2, <1>23 DEF MainCancel, TypeOK, Numbered
    <2>3. Current'
      BY <1>1, <1>2, <1>23 DEF MainCancel, TypeOK, Current
    <2>4. Patience'
      BY <1>1, <1>2, <1>23 DEF MainCancel, TypeOK, Current, Patience, Finished
    <2>5. Unanswered'
      BY <1>1, <1>2, <1>23 DEF MainCancel, TypeOK, Current, Unanswered, Pending, Dropped
    <2>6. NobodyForgotten'
      BY <1>1, <1>2, <1>23
         DEF MainCancel, TypeOK, Current, Unanswered, Pending, Dropped, NobodyForgotten
    <2> QED
      BY <2>1, <2>2, <2>3, <2>4, <2>5, <2>6 DEF GroupInv
  <1>24. ASSUME NEW c \in Clients, ClientAcks(c) PROVE GroupInv'
    <2>1. [from |-> c, op |-> "ACK", block |-> Prefix(has[c])] \in Packets
      BY <1>1, <1>24, PrefixOfBlocks DEF TypeOK, Packets
    <2>2. TypeOK'
      BY <1>1, <1>2, <1>24, <2>1
         DEF ClientAcks, ClientSends, Packets, TypeOK, Numbered, Entry, States
    <2>3. Numbered'
      BY <1>1, <1>2, <1>24, <2>1 DEF ClientAcks, ClientSends, Packets, TypeOK, Numbered
    <2>4. Current'
      BY <1>1, <1>2, <1>24, <2>1 DEF ClientAcks, ClientSends, Packets, TypeOK, Current
    <2>5. Patience'
      BY <1>1, <1>2, <1>24, <2>1
         DEF ClientAcks, ClientSends, Packets, TypeOK, Current, Patience, Finished
    <2>6. Unanswered'
      BY <1>1, <1>2, <1>24, <2>1
         DEF ClientAcks, ClientSends, Packets, TypeOK, Current, Unanswered, Pending, Dropped
    <2>7. NobodyForgotten'
      BY <1>1, <1>2, <1>24, <2>1
         DEF ClientAcks, ClientSends, Packets, TypeOK, Current, Unanswered, Pending, Dropped,
             NobodyForgotten
    <2> QED
      BY <2>2, <2>3, <2>4, <2>5, <2>6, <2>7 DEF GroupInv
  <1>25. ASSUME NEW c \in Clients, ClientGivesUp(c) PROVE GroupInv'
    <2>1. [from |-> c, op |-> "ERROR", block |-> 0] \in Packets
      BY <1>1, <1>25, PrefixOfBlocks DEF TypeOK, Packets
    <2>2. TypeOK'
      BY <1>1, <1>2, <1>25, <2>1
         DEF ClientGivesUp, ClientSends, Packets, TypeOK, Numbered, Entry, States
    <2>3. Numbered'
      BY <1>1, <1>2, <1>25, <2>1 DEF ClientGivesUp, ClientSends, Packets, TypeOK, Numbered
    <2>4. Current'
      BY <1>1, <1>2, <1>25, <2>1 DEF ClientGivesUp, ClientSends, Packets, TypeOK, Current
    <2>5. Patience'
      BY <1>1, <1>2, <1>25, <2>1
         DEF ClientGivesUp, ClientSends, Packets, TypeOK, Current, Patience, Finished
    <2>6. Unanswered'
      BY <1>1, <1>2, <1>25, <2>1
         DEF ClientGivesUp, ClientSends, Packets, TypeOK, Current, Unanswered, Pending, Dropped
    <2>7. NobodyForgotten'
      BY <1>1, <1>2, <1>25, <2>1
         DEF ClientGivesUp, ClientSends, Packets, TypeOK, Current, Unanswered, Pending, Dropped,
             NobodyForgotten
    <2> QED
      BY <2>2, <2>3, <2>4, <2>5, <2>6, <2>7 DEF GroupInv
  <1>26. CASE UNCHANGED vars
    <2>1. TypeOK'
      BY <1>1, <1>2, <1>26 DEF TypeOK, Numbered, Entry, States
    <2>2. Numbered'
      BY <1>1, <1>2, <1>26 DEF TypeOK, Numbered
    <2>3. Current'
      BY <1>1, <1>2, <1>26 DEF TypeOK, Current
    <2>4. Patience'
      BY <1>1, <1>2, <1>26 DEF TypeOK, Current, Patience, Finished
    <2>5. Unanswered'
      BY <1>1, <1>2, <1>26 DEF TypeOK, Current, Unanswered, Pending, Dropped
    <2>6. NobodyForgotten'
      BY <1>1, <1>2, <1>26 DEF TypeOK, Current, Unanswered, Pending, Dropped, NobodyForgotten
    <2> QED
      BY <2>1, <2>2, <2>3, <2>4, <2>5, <2>6 DEF GroupInv
  <1>27. ASSUME NEW t \in Threads, FindAndAdd(t) PROVE GroupInv'
    BY <1>27, <1>20, <1>21 DEF FindAndAdd
  <1> QED
    BY <1>1, <1>3, <1>4, <1>5, <1>6, <1>7, <1>8, <1>9, <1>10, <1>11, <1>12, <1>13, <1>14, <1>15,
       <1>16, <1>17, <1>18, <1>19, <1>20, <1>21, <1>22, <1>23, <1>24, <1>25, <1>26, <1>27
       DEF Next, ServerStep, Over

\* The transfer's counters stay in their bounds, and every client that was
\* added to the group has been offered the file or told of the end when the
\* server thread returns, whichever threads add it and whenever, unless a
\* select or a receive failed; those who were not are then still in the list.
THEOREM GroupServed == Spec => []GroupInv
  <1> QED
    BY InitGroupInv, StepGroupInv, PTL DEF Spec

=============================================================================

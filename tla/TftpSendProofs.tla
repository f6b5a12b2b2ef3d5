--------------------------- MODULE TftpSendProofs ---------------------------
(***************************************************************************)
(* Proofs about TftpSend: whatever is lost, late or repeated, the client   *)
(* takes the file block by block, and the thread ends a transfer only when *)
(* the client has it all.  They hold of files whose blocks can be numbered *)
(* without wrapping around, and of options negotiated in order.            *)
(* And proofs about NetasciiRead, the reader that gives the thread its     *)
(* blocks: each block is the part of the text that its number stands for.  *)
(***************************************************************************)
EXTENDS TftpSend, NetasciiRead, SequenceTheorems, WellFoundedInduction, TLAPS

\* The file has fewer than 2^16 blocks, which is all RFC 1350 provides for.
NoWrap == FullBlocks + 1 < Wrap

\* A late OACK would be answered with an ACK of block 0, which the thread
\* takes for one of block 2^16.
OptionsInOrder == "options" \notin Reordered

\* The hypothesis in every state: what is negotiated is negotiated in order.
OptionsOrdered == request = "options" => inOrder

-----------------------------------------------------------------------------
(***************************************************************************)
(* Packets and channels.                                                   *)
(***************************************************************************)

\* Numbers below 2^16 are what they are on the wire.
LEMMA Unwrapped ==
  ASSUME NoWrap, NEW n \in 0 .. FullBlocks + 1
  PROVE  n % Wrap = n
BY SendAssumption DEF NoWrap

\* What is in the packets the server sends.
LEMMA ServerPackets ==
  ASSUME NoWrap
  PROVE  /\ Oack.op = "OACK" /\ Error.op = "ERROR"
         /\ \A b \in 0 .. FullBlocks :
              /\ Data(b).op = "DATA" /\ Data(b).block = b + 1
              /\ Data(b).body = Body(b) /\ Data(b).short = Short(b)
              /\ Data(b) \in FromServer
<1>1. Oack.op = "OACK" /\ Error.op = "ERROR"
  BY DEF Oack, Error
<1>2. ASSUME NEW b \in 0 .. FullBlocks
      PROVE  /\ Data(b).op = "DATA" /\ Data(b).block = b + 1
             /\ Data(b).body = Body(b) /\ Data(b).short = Short(b)
             /\ Data(b) \in FromServer
  <2>1. b + 1 \in 0 .. FullBlocks + 1
    BY SendAssumption
  <2>2. (b + 1) % Wrap = b + 1
    BY <2>1, Unwrapped
  <2> QED
    BY <2>2 DEF Data, FromServer
<1> QED
  BY <1>1, <1>2

\* ... and in those the client sends.
LEMMA ClientPackets ==
  ASSUME NoWrap
  PROVE  \A n \in 0 .. FullBlocks + 1 :
           Ack(n).op = "ACK" /\ Ack(n).block = n /\ Ack(n) \in FromClient
BY Unwrapped DEF Ack, FromClient

\* A packet from the server is known by its kind and its number.
LEMMA FromServerKinds ==
  ASSUME NoWrap, NEW p \in FromServer
  PROVE  /\ p.op \in {"DATA", "OACK", "ERROR"}
         /\ p.op = "DATA" => /\ p.block \in 1 .. FullBlocks + 1
                             /\ p = Data(p.block - 1)
                             /\ p.body = Body(p.block - 1)
                             /\ p.short = Short(p.block - 1)
         /\ p.op = "OACK" => p = Oack
BY ServerPackets, SendAssumption DEF FromServer

\* So is a packet from the client.
LEMMA FromClientKinds ==
  ASSUME NoWrap, NEW p \in FromClient
  PROVE  /\ p.op \in {"ACK", "ERROR"}
         /\ p.op = "ACK" => p.block \in 0 .. FullBlocks + 1 /\ p = Ack(p.block)
         /\ p.op = "ERROR" => p = Error
BY ServerPackets, ClientPackets, SendAssumption DEF FromClient

\* What is under way after a packet was sent: the packet is the last, if
\* there was room.
LEMMA SendUnder ==
  ASSUME NEW S, NEW channel \in Seq(S), NEW p \in S, Len(channel) <= Capacity
  PROVE  /\ Send(channel, p) \in Seq(S) /\ Len(Send(channel, p)) <= Capacity
         /\ \A q \in Under(Send(channel, p)) : q \in Under(channel) \/ q = p
         /\ \A i \in DOMAIN Send(channel, p) :
              \/ i \in DOMAIN channel /\ Send(channel, p)[i] = channel[i]
              \/ i = Len(channel) + 1 /\ Send(channel, p)[i] = p
<1>1. CASE Len(channel) < Capacity
  BY <1>1, SendAssumption DEF Send, Under
<1>2. CASE ~(Len(channel) < Capacity)
  BY <1>2, SendAssumption DEF Send
<1> QED
  BY <1>1, <1>2

\* A packet taken out leaves the others in their order.
LEMMA RemoveOne ==
  ASSUME NEW S, NEW channel \in Seq(S), NEW i \in DOMAIN channel
  PROVE  /\ RemoveAt(channel, i) \in Seq(S)
         /\ Len(RemoveAt(channel, i)) = Len(channel) - 1
         /\ \A j \in 1 .. Len(channel) - 1 :
              RemoveAt(channel, i)[j] = IF j < i THEN channel[j] ELSE channel[j + 1]
<1> DEFINE before == SubSeq(channel, 1, i - 1)
           after  == SubSeq(channel, i + 1, Len(channel))
<1>1. before \in Seq(S) /\ Len(before) = i - 1 /\ \A j \in 1 .. i - 1 : before[j] = channel[j]
  OBVIOUS
<1>2. after \in Seq(S) /\ Len(after) = Len(channel) - i
      /\ \A j \in 1 .. Len(channel) - i : after[j] = channel[i + j]
  OBVIOUS
<1>3. RemoveAt(channel, i) = before \o after
  BY DEF RemoveAt
<1> HIDE DEF before, after
<1>4. ASSUME NEW j \in 1 .. Len(channel) - 1
      PROVE  (before \o after)[j] = IF j < i THEN channel[j] ELSE channel[j + 1]
  <2>1. i \in 1 .. Len(channel) /\ Len(channel) \in Nat
    OBVIOUS
  <2>2. CASE j < i
    BY <1>1, <1>2, <2>1, <2>2
  <2>3. CASE ~(j < i)
    <3>1. j - (i - 1) \in 1 .. Len(channel) - i /\ i + (j - (i - 1)) = j + 1
      BY <2>1, <2>3
    <3>2. (before \o after)[j] = after[j - (i - 1)]
      <4>1. Len(before) + Len(after) = Len(channel) - 1
        BY <1>1, <1>2, <2>1
      <4>2. j \in 1 .. Len(before) + Len(after) /\ ~(j <= Len(before))
        BY <1>1, <2>1, <2>3, <4>1
      <4>3. (before \o after)[j] = after[j - Len(before)]
        BY <1>1, <1>2, <4>2, ConcatProperties
      <4> QED
        BY <1>1, <4>3
    <3>3. after[j - (i - 1)] = channel[i + (j - (i - 1))]
      BY <1>2, <3>1
    <3> QED
      BY <2>3, <3>1, <3>2, <3>3
  <2> QED
    BY <2>2, <2>3
<1> QED
  BY <1>1, <1>2, <1>3, <1>4

\* What is under way after a packet was received.
LEMMA RestUnder ==
  ASSUME NEW S, NEW channel \in Seq(S), NEW i \in Arriving(channel),
         NEW rest \in Rest(channel, i)
  PROVE  /\ rest \in Seq(S) /\ Len(rest) <= Len(channel)
         /\ channel[i] \in S /\ channel[i] \in Under(channel)
         /\ \A q \in Under(rest) : q \in Under(channel)
         /\ inOrder => /\ i = 1
                       /\ \A j \in DOMAIN rest :
                            j + 1 \in DOMAIN channel /\ rest[j] = channel[j + 1]
<1>1. i \in DOMAIN channel
  BY DEF Arriving
<1>2. CASE rest = RemoveAt(channel, i)
  <2>1. /\ rest \in Seq(S) /\ Len(rest) = Len(channel) - 1
        /\ \A j \in 1 .. Len(channel) - 1 :
             rest[j] = IF j < i THEN channel[j] ELSE channel[j + 1]
    BY <1>1, <1>2, RemoveOne
  <2>2. DOMAIN rest = 1 .. Len(channel) - 1 /\ i \in 1 .. Len(channel)
    BY <1>1, <2>1
  <2>3. \A q \in Under(rest) : q \in Under(channel)
    BY <2>1 DEF Under
  <2>4. inOrder => i = 1
    BY DEF Arriving
  <2> QED
    BY <2>1, <2>2, <2>3, <2>4 DEF Under
<1>3. CASE ~inOrder /\ rest = channel
  BY <1>1, <1>3 DEF Under
<1> QED
  BY <1>2, <1>3 DEF Rest

\* What is under way after a packet was lost.
LEMMA LoseUnder ==
  ASSUME NEW S, NEW channel \in Seq(S), NEW i \in Arriving(channel)
  PROVE  RemoveAt(channel, i) \in Rest(channel, i)
BY DEF Rest

-----------------------------------------------------------------------------
(***************************************************************************)
(* The invariant.                                                          *)
(***************************************************************************)
USE DEF sendVars, signalVars, netVars, session, clientVars, vars

\* Initially the request is on its way, and nothing else.
LEMMA InitSendInv ==
  ASSUME NoWrap, OptionsInOrder, Init
  PROVE  SendInv
<1>1. TypeOK
  <2>1. <<>> \in Seq(FromServer) /\ <<>> \in Seq(FromClient) /\ <<>> \in Seq(-1 .. FullBlocks)
    OBVIOUS
  <2>2. request \in Requests \cup Reordered /\ inOrder \in BOOLEAN
    BY DEF Init
  <2>3. Len(<<>>) <= Capacity /\ Len(<<>>) <= FullBlocks + 1
    BY SendAssumption
  <2>4. /\ block_number \in 0 .. FullBlocks + 1 /\ last_block \in -1 .. FullBlocks
        /\ number_of_timeout \in 0 .. NB_OF_RETRY + 1
    BY SendAssumption DEF Init
  <2> QED
    BY <2>1, <2>2, <2>3, <2>4 DEF Init, TypeOK
<1>2. Integrity /\ Told
  BY DEF Init, Integrity, Told
<1>3. Window
  BY SendAssumption DEF Init, Window, Under
<1>4. AckOrder /\ OackAnswer
  BY DEF Init, AckOrder, OackAnswer, Under
<1>5. LastKnown
  BY SendAssumption DEF Init, LastKnown, Under
<1>6. LoopInv /\ ErrorReason
  BY SendAssumption DEF Init, LoopInv, ErrorReason, Under
<1> QED
  BY <1>1, <1>2, <1>3, <1>4, <1>5, <1>6 DEF SendInv


\* What the server puts under way, in the terms of the invariant.
LEMMA ServerSends ==
  ASSUME TypeOK, NEW p \in FromServer, toClient' = Send(toClient, p)
  PROVE  /\ toClient' \in Seq(FromServer) /\ Len(toClient') <= Capacity
         /\ \A q \in Under(toClient') : q \in Under(toClient) \/ q = p
BY SendUnder DEF TypeOK

\* What the client puts under way.
LEMMA ClientSends ==
  ASSUME TypeOK, NEW p \in FromClient, toServer' = Send(toServer, p)
  PROVE  /\ toServer' \in Seq(FromClient) /\ Len(toServer') <= Capacity
         /\ \A q \in Under(toServer') : q \in Under(toServer) \/ q = p
         /\ \A i \in DOMAIN toServer' :
              \/ i \in DOMAIN toServer /\ toServer'[i] = toServer[i]
              \/ i = Len(toServer) + 1 /\ toServer'[i] = p
         /\ \A i \in DOMAIN toServer :
              i <= Len(toServer) /\ toServer[i] \in Under(toServer)
<1>1. /\ toServer \in Seq(FromClient) /\ Len(toServer) <= Capacity
      /\ \A i \in DOMAIN toServer : i <= Len(toServer) /\ toServer[i] \in Under(toServer)
  BY DEF TypeOK, Under
<1> QED
  BY <1>1, SendUnder

\* What a packet of the client leaves under way when it arrives or is lost.
LEMMA ServerGets ==
  ASSUME TypeOK, NEW i \in Arriving(toServer), toServer' \in Rest(toServer, i)
  PROVE  /\ toServer' \in Seq(FromClient) /\ Len(toServer') <= Capacity
         /\ toServer[i] \in FromClient /\ toServer[i] \in Under(toServer)
         /\ i \in DOMAIN toServer
         /\ \A q \in Under(toServer') : q \in Under(toServer)
         /\ inOrder => /\ i = 1
                       /\ \A j \in DOMAIN toServer' :
                            j + 1 \in DOMAIN toServer /\ toServer'[j] = toServer[j + 1]
BY RestUnder, SendAssumption DEF TypeOK, Arriving

\* The same for a packet of the server.
LEMMA ClientGets ==
  ASSUME TypeOK, NEW i \in Arriving(toClient), toClient' \in Rest(toClient, i)
  PROVE  /\ toClient' \in Seq(FromServer) /\ Len(toClient') <= Capacity
         /\ toClient[i] \in FromServer /\ toClient[i] \in Under(toClient)
         /\ \A q \in Under(toClient') : q \in Under(toClient)
BY RestUnder, SendAssumption DEF TypeOK

\* A new ACK is for the latest block, and comes last.
LEMMA AckSentInOrder ==
  ASSUME NoWrap, SendInv, NEW p \in FromClient, toServer' = Send(toServer, p),
         p.op = "ACK" => Len(got) <= p.block,
         UNCHANGED <<inOrder, block_number>>
  PROVE  AckOrder'
<1>1. /\ toServer' \in Seq(FromClient) /\ toServer \in Seq(FromClient)
      /\ \A i \in DOMAIN toServer' :
           \/ i \in DOMAIN toServer /\ toServer'[i] = toServer[i]
           \/ i = Len(toServer) + 1 /\ toServer'[i] = p
      /\ \A i \in DOMAIN toServer :
           i <= Len(toServer) /\ toServer[i] \in Under(toServer)
  BY ClientSends DEF SendInv, TypeOK
<1>2. block_number \in Int /\ Len(got) \in Int /\ Len(toServer) \in Int /\ block_number <= Len(got)
  BY SendAssumption DEF SendInv, TypeOK, Window
<1>3. \A q \in FromClient : q.op = "ACK" => q.block \in Int
  BY FromClientKinds
<1>4. ASSUME inOrder, NEW i \in DOMAIN toServer', toServer'[i].op = "ACK"
      PROVE  /\ block_number <= toServer'[i].block
             /\ \A j \in DOMAIN toServer' :
                  i < j /\ toServer'[j].op = "ACK" => toServer'[i].block <= toServer'[j].block
  <2>1. CASE i = Len(toServer) + 1 /\ toServer'[i] = p
    <3>1. \A j \in DOMAIN toServer' : ~(i < j)
      BY <1>1, <2>1
    <3> QED
      BY <1>2, <1>3, <1>4, <2>1, <3>1
  <2>2. CASE i \in DOMAIN toServer /\ toServer'[i] = toServer[i]
    <3>1. toServer[i].block <= Len(got)
      BY <1>1, <1>4, <2>2 DEF SendInv, Window
    <3>2. toServer[i].block \in Int
      BY <1>1, <1>3, <1>4, <2>2
    <3>3. ASSUME NEW j \in DOMAIN toServer', i < j, toServer'[j].op = "ACK"
          PROVE  toServer[i].block <= toServer'[j].block
      <4>1. CASE j \in DOMAIN toServer /\ toServer'[j] = toServer[j]
        BY <1>4, <2>2, <3>3, <4>1 DEF SendInv, AckOrder
      <4>2. CASE toServer'[j] = p
        BY <1>3, <3>1, <3>2, <3>3, <4>2
      <4> QED
        BY <1>1, <4>1, <4>2
    <3> QED
      BY <1>4, <2>2, <3>3 DEF SendInv, AckOrder
  <2> QED
    BY <1>1, <2>1, <2>2
<1> QED
  BY <1>4 DEF AckOrder

\* The ACKs that stay under way when one arrives are not for earlier blocks.
LEMMA AckTakenInOrder ==
  ASSUME SendInv, NEW i \in Arriving(toServer), toServer' \in Rest(toServer, i),
         UNCHANGED inOrder,
         \/ block_number' = block_number
         \/ toServer[i].op = "ACK" /\ block_number' = toServer[i].block
  PROVE  AckOrder'
<1>1. CASE ~inOrder
  BY <1>1 DEF AckOrder
<1>2. CASE inOrder
  <2>1. /\ i = 1 /\ i \in DOMAIN toServer
        /\ toServer' \in Seq(FromClient) /\ toServer \in Seq(FromClient)
        /\ \A j \in DOMAIN toServer' :
             j + 1 \in DOMAIN toServer /\ toServer'[j] = toServer[j + 1]
    BY <1>2, ServerGets DEF SendInv, TypeOK
  <2>2. /\ DOMAIN toServer' = 1 .. Len(toServer') /\ Len(toServer') \in Nat
        /\ \A j \in DOMAIN toServer' : j \in Nat /\ 1 < j + 1
    OBVIOUS
  <2>3. ASSUME NEW j \in DOMAIN toServer', toServer'[j].op = "ACK"
        PROVE  /\ block_number' <= toServer'[j].block
               /\ \A k \in DOMAIN toServer' :
                    j < k /\ toServer'[k].op = "ACK" => toServer'[j].block <= toServer'[k].block
    <3>1. block_number' <= toServer'[j].block
      BY <1>2, <2>1, <2>2, <2>3 DEF SendInv, AckOrder
    <3>2. ASSUME NEW k \in DOMAIN toServer', j < k, toServer'[k].op = "ACK"
          PROVE  toServer'[j].block <= toServer'[k].block
      <4>1. j + 1 < k + 1
        BY <2>2, <3>2
      <4> QED
        BY <1>2, <2>1, <2>3, <3>2, <4>1 DEF SendInv, AckOrder
    <3> QED
      BY <3>1, <3>2
  <2> QED
    BY <2>3 DEF AckOrder
<1> QED
  BY <1>1, <1>2

(***************************************************************************)
(* The steps.                                                              *)
(***************************************************************************)
LEMMA StepSendInv ==
  ASSUME NoWrap, SendInv, OptionsOrdered, [Next]_vars
  PROVE  SendInv'
<1> USE DEF OptionsOrdered
<1>1. CASE Refuse
  <2>1. /\ toClient' \in Seq(FromServer) /\ Len(toClient') <= Capacity
        /\ \A q \in Under(toClient') : q \in Under(toClient) \/ q = Error
    <3>1. Error \in FromServer
      BY <1>1, SendAssumption DEF FromServer, SendInv, Turn
    <3>2. toClient' = Send(toClient, Error)
      BY <1>1 DEF Refuse, TellError
    <3> QED
      BY <3>1, <3>2, ServerSends DEF SendInv
  <2>2. TypeOK'
    BY <1>1, <2>1 DEF Refuse, TellError, SendInv, TypeOK, Return
  <2>3. Integrity'
    BY <1>1 DEF Refuse, SendInv, Integrity
  <2>4. Told'
    BY <1>1 DEF Refuse, TellError, Told
  <2>5. Window'
    BY <1>1, <2>1, ServerPackets DEF Refuse, TellError, SendInv, Window
  <2>6. AckOrder'
    BY <1>1 DEF Refuse, TellError, SendInv, AckOrder
  <2>7. OackAnswer'
    BY <1>1, <2>1, ServerPackets DEF Refuse, TellError, SendInv, OackAnswer
  <2>8. LastKnown'
    BY <1>1, <2>1, ServerPackets, SendAssumption DEF Refuse, SendInv, LastKnown
  <2>9. LoopInv'
    BY <1>1 DEF Refuse, SendInv, LoopInv
  <2>10. ErrorReason'
    BY <1>1 DEF Refuse, TellError, SendInv, ErrorReason
  <2> QED
    BY <2>2, <2>3, <2>4, <2>5, <2>6, <2>7, <2>8, <2>9, <2>10 DEF SendInv
<1>2. CASE TooBig
  <2>1. /\ toClient' \in Seq(FromServer) /\ Len(toClient') <= Capacity
        /\ \A q \in Under(toClient') : q \in Under(toClient) \/ q = Error
    <3>1. Error \in FromServer
      BY <1>2, SendAssumption DEF FromServer, SendInv, Turn
    <3>2. toClient' = Send(toClient, Error)
      BY <1>2 DEF TooBig, TellError
    <3> QED
      BY <3>1, <3>2, ServerSends DEF SendInv
  <2>2. TypeOK'
    BY <1>2, <2>1 DEF TooBig, TellError, SendInv, TypeOK, Return
  <2>3. Integrity'
    BY <1>2 DEF TooBig, SendInv, Integrity
  <2>4. Told'
    BY <1>2 DEF TooBig, TellError, Told
  <2>5. Window'
    BY <1>2, <2>1, ServerPackets DEF TooBig, TellError, SendInv, Window
  <2>6. AckOrder'
    BY <1>2 DEF TooBig, TellError, SendInv, AckOrder
  <2>7. OackAnswer'
    BY <1>2, <2>1, ServerPackets DEF TooBig, TellError, SendInv, OackAnswer
  <2>8. LastKnown'
    BY <1>2, <2>1, ServerPackets, SendAssumption DEF TooBig, SendInv, LastKnown
  <2>9. LoopInv'
    BY <1>2 DEF TooBig, SendInv, LoopInv
  <2>10. ErrorReason'
    BY <1>2 DEF TooBig, TellError, SendInv, ErrorReason
  <2> QED
    BY <2>2, <2>3, <2>4, <2>5, <2>6, <2>7, <2>8, <2>9, <2>10 DEF SendInv
<1>3. CASE Accept
  <2>1. TypeOK'
    BY <1>3 DEF Accept, SendInv, TypeOK
  <2>2. Integrity'
    BY <1>3 DEF Accept, SendInv, Integrity
  <2>3. Told'
    BY <1>3 DEF Accept, Told
  <2>4. Window'
    BY <1>3 DEF Accept, SendInv, Window
  <2>5. AckOrder'
    BY <1>3 DEF Accept, SendInv, AckOrder
  <2>6. OackAnswer'
    BY <1>3 DEF Accept, SendInv, OackAnswer
  <2>7. LastKnown'
    BY <1>3 DEF Accept, SendInv, LastKnown
  <2>8. LoopInv'
    BY <1>3 DEF Accept, SendInv, LoopInv
  <2>9. ErrorReason'
    BY <1>3 DEF Accept, SendInv, ErrorReason
  <2> QED
    BY <2>1, <2>2, <2>3, <2>4, <2>5, <2>6, <2>7, <2>8, <2>9 DEF SendInv
<1>4. CASE Cancelled
  <2>1. /\ toClient' \in Seq(FromServer) /\ Len(toClient') <= Capacity
        /\ \A q \in Under(toClient') : q \in Under(toClient) \/ q = Error
    <3>1. Error \in FromServer
      BY <1>4, SendAssumption DEF FromServer, SendInv, Turn
    <3>2. toClient' = Send(toClient, Error)
      BY <1>4 DEF Cancelled, TellError
    <3> QED
      BY <3>1, <3>2, ServerSends DEF SendInv
  <2>2. TypeOK'
    BY <1>4, <2>1 DEF Cancelled, TellError, SendInv, TypeOK
  <2>3. Integrity'
    BY <1>4 DEF Cancelled, SendInv, Integrity
  <2>4. Told'
    BY <1>4 DEF Cancelled, TellError, Told
  <2>5. Window'
    BY <1>4, <2>1, ServerPackets, ClientPackets, SendAssumption DEF Cancelled,
       TellError, Eof, SendInv, Turn, Return, Window
  <2>6. AckOrder'
    BY <1>4, <2>1 DEF Cancelled, TellError, Eof, SendInv, Turn, Return,
       AckOrder
  <2>7. OackAnswer'
    BY <1>4, <2>1, ServerPackets DEF Cancelled, TellError, SendInv, OackAnswer
  <2>8. LastKnown'
    BY <1>4, <2>1, ServerPackets, SendAssumption DEF Cancelled, SendInv, LastKnown
  <2>9. LoopInv'
    BY <1>4 DEF Cancelled, LoopInv
  <2>10. ErrorReason'
    BY <1>4 DEF Cancelled, TellError, SendInv, ErrorReason
  <2> QED
    BY <2>2, <2>3, <2>4, <2>5, <2>6, <2>7, <2>8, <2>9, <2>10 DEF SendInv
<1>5. CASE Begin
  <2>1. TypeOK'
    BY <1>5 DEF Begin, SendInv, TypeOK
  <2>2. Integrity'
    BY <1>5 DEF Begin, SendInv, Integrity
  <2>3. Told'
    BY <1>5 DEF Begin, Told, Turn
  <2>4. Window'
    BY <1>5 DEF Begin, SendInv, Window
  <2>5. AckOrder'
    BY <1>5 DEF Begin, SendInv, AckOrder
  <2>6. OackAnswer'
    BY <1>5 DEF Begin, SendInv, OackAnswer
  <2>7. LastKnown'
    BY <1>5 DEF Begin, SendInv, LastKnown
  <2>8. LoopInv'
    BY <1>5 DEF Begin, SendInv, LoopInv, Turn
  <2>9. ErrorReason'
    BY <1>5 DEF Begin, SendInv, ErrorReason
  <2> QED
    BY <2>1, <2>2, <2>3, <2>4, <2>5, <2>6, <2>7, <2>8, <2>9 DEF SendInv
<1>6. CASE SendOack
  <2>1. /\ toClient' \in Seq(FromServer) /\ Len(toClient') <= Capacity
        /\ \A q \in Under(toClient') : q \in Under(toClient) \/ q = Oack
    <3>1. Oack \in FromServer
      BY <1>6, SendAssumption DEF FromServer, SendInv, Turn
    <3>2. toClient' = Send(toClient, Oack)
      BY <1>6 DEF SendOack
    <3> QED
      BY <3>1, <3>2, ServerSends DEF SendInv
  <2>2. TypeOK'
    BY <1>6, <2>1 DEF SendOack, SendInv, TypeOK, Turn
  <2>3. Integrity'
    BY <1>6 DEF SendOack, SendInv, Integrity
  <2>4. Told'
    BY <1>6 DEF SendOack, Told, Turn
  <2>5. Window'
    BY <1>6, <2>1, ServerPackets DEF SendOack, SendInv, Window
  <2>6. AckOrder'
    BY <1>6 DEF SendOack, SendInv, AckOrder
  <2>7. OackAnswer'
    BY <1>6 DEF SendOack, SendInv, OackAnswer, Turn
  <2>8. LastKnown'
    BY <1>6, <2>1, ServerPackets, SendAssumption DEF SendOack, SendInv, LastKnown
  <2>9. LoopInv'
    BY <1>6 DEF SendOack, SendInv, LoopInv, Turn
  <2>10. ErrorReason'
    BY <1>6 DEF SendOack, SendInv, ErrorReason
  <2> QED
    BY <2>2, <2>3, <2>4, <2>5, <2>6, <2>7, <2>8, <2>9, <2>10 DEF SendInv
<1>7. CASE SendData
  <2>1. /\ toClient' \in Seq(FromServer) /\ Len(toClient') <= Capacity
        /\ \A q \in Under(toClient') : q \in Under(toClient) \/ q = Data(block_number)
    <3>1. Data(block_number) \in FromServer
      BY <1>7 DEF SendData, FromServer, SendInv, TypeOK, LoopInv, Turn
    <3>2. toClient' = Send(toClient, Data(block_number))
      BY <1>7 DEF SendData
    <3> QED
      BY <3>1, <3>2, ServerSends DEF SendInv
  <2>2. TypeOK'
    BY <1>7, <2>1 DEF SendData, SendInv, TypeOK, LoopInv, Turn
  <2>3. Integrity'
    BY <1>7 DEF SendData, SendInv, Integrity
  <2>4. Told'
    BY <1>7 DEF SendData, Told, Turn
  <2>5. Window'
    BY <1>7, <2>1, ServerPackets DEF SendData, SendInv, TypeOK, Window, LoopInv, Turn
  <2>6. AckOrder'
    BY <1>7 DEF SendData, SendInv, AckOrder
  <2>7. OackAnswer'
    BY <1>7, <2>1, ServerPackets DEF SendData, SendInv, TypeOK, OackAnswer, LoopInv, Turn
  <2>8. LastKnown'
    <3>1. CASE Eof(block_number)
      <4>1. last_block' = block_number
        BY <1>7, <3>1 DEF SendData
      <4>2. block_number >= IF Partial THEN FullBlocks ELSE FullBlocks - 1
        BY <3>1, SendAssumption DEF Eof, SendInv, TypeOK
      <4> QED
        BY <1>7, <4>1, <4>2 DEF SendData, SendInv, TypeOK, LastKnown
    <3>2. CASE ~Eof(block_number)
      <4>1. last_block' = last_block /\ block_number \in 0 .. FullBlocks - 1
        BY <1>7, <3>2, SendAssumption DEF SendData, Eof, SendInv, TypeOK
      <4>2. Data(FullBlocks) # Data(block_number)
        BY <4>1, ServerPackets, SendAssumption
      <4> QED
        BY <1>7, <2>1, <4>1, <4>2 DEF SendData, SendInv, LastKnown
    <3> QED
      BY <3>1, <3>2
  <2>9. LoopInv'
    BY <1>7 DEF SendData, SendInv, LoopInv, Turn
  <2>10. ErrorReason'
    BY <1>7 DEF SendData, SendInv, ErrorReason
  <2> QED
    BY <2>2, <2>3, <2>4, <2>5, <2>6, <2>7, <2>8, <2>9, <2>10 DEF SendInv
<1>8. CASE GetTimeout
  <2>1. TypeOK'
    BY <1>8, SendAssumption DEF GetTimeout, SendInv, TypeOK, LoopInv, Turn
  <2>2. Integrity'
    BY <1>8 DEF GetTimeout, SendInv, Integrity
  <2>3. Told'
    BY <1>8 DEF GetTimeout, Told, Turn
  <2>4. Window'
    BY <1>8 DEF GetTimeout, SendInv, Window
  <2>5. AckOrder'
    BY <1>8 DEF GetTimeout, SendInv, AckOrder
  <2>6. OackAnswer'
    BY <1>8 DEF GetTimeout, SendInv, OackAnswer
  <2>7. LastKnown'
    BY <1>8 DEF GetTimeout, SendInv, LastKnown
  <2>8. LoopInv'
    BY <1>8, SendAssumption DEF GetTimeout, SendInv, TypeOK, LoopInv, Turn
  <2>9. ErrorReason'
    BY <1>8 DEF GetTimeout, SendInv, TypeOK, ErrorReason
  <2> QED
    BY <2>1, <2>2, <2>3, <2>4, <2>5, <2>6, <2>7, <2>8, <2>9 DEF SendInv
<1>9. CASE GetAck
  <2>1. PICK i \in Arriving(toServer) :
          /\ Receive("ACK", i)
          /\ number_of_timeout' = 0
          /\ wraparound_offset' =
               IF toServer[i].block = 0 /\ block_number # 0
               THEN wraparound_offset + Wrap ELSE wraparound_offset
          /\ block_number' = wraparound_offset' + toServer[i].block
    BY <1>9 DEF GetAck
  <2>2. /\ toServer' \in Seq(FromClient) /\ Len(toServer') <= Capacity
        /\ toServer[i] \in FromClient /\ toServer[i] \in Under(toServer)
        /\ i \in DOMAIN toServer
        /\ \A q \in Under(toServer') : q \in Under(toServer)
        /\ inOrder => /\ i = 1
                      /\ \A j \in DOMAIN toServer' :
                           j + 1 \in DOMAIN toServer /\ toServer'[j] = toServer[j + 1]
    BY <2>1, ServerGets DEF Receive, SendInv
  <2>3. /\ toServer[i].block \in 0 .. Len(got) /\ toServer[i] = Ack(toServer[i].block)
        /\ inOrder => block_number <= toServer[i].block
    BY <2>1, <2>2, FromClientKinds DEF Receive, SendInv, Window, AckOrder
  <2>4. /\ wraparound_offset' = 0 /\ block_number' = toServer[i].block
        /\ number_of_timeout' = 0
        /\ state' = (IF last_block # -1 /\ toServer[i].block > last_block
                     THEN "S_END" ELSE "S_SEND_DATA")
    <3>1. toServer[i].block = 0 => block_number = 0
      <4>1. toServer[i].block = 0 => request = "options"
        BY <2>2, <2>3 DEF SendInv, OackAnswer
      <4> QED
        BY <2>3, <4>1, SendAssumption DEF SendInv, TypeOK
    <3>2. wraparound_offset' = 0
      BY <2>1, <3>1 DEF SendInv, Window
    <3> QED
      <4>1. block_number' = toServer[i].block
        BY <2>1, <2>3, <3>2
      <4>2. state' = IF last_block # -1 /\ block_number' > last_block
                     THEN "S_END" ELSE "S_SEND_DATA"
        BY <1>9 DEF GetAck
      <4> QED
        BY <2>1, <3>2, <4>1, <4>2
  <2>5. TypeOK'
    BY <1>9, <2>2, <2>3, <2>4, SendAssumption DEF GetAck, Receive, SendInv, TypeOK
  <2>6. Integrity'
    BY <1>9 DEF GetAck, SendInv, Integrity
  <2>7. Told'
    BY <1>9 DEF GetAck, Told, Turn
  <2>8. Window'
    BY <1>9, <2>2, <2>3, <2>4 DEF GetAck, Receive, SendInv, Window
  <2>9. AckOrder'
    BY <1>9, <2>1, <2>4, AckTakenInOrder DEF GetAck, Receive
  <2>10. OackAnswer'
    BY <1>9, <2>2 DEF GetAck, Receive, SendInv, OackAnswer
  <2>11. LastKnown'
    BY <1>9 DEF GetAck, Receive, SendInv, LastKnown
  <2>12. LoopInv'
    BY <1>9, <2>1, <2>2, <2>3, <2>4, ServerPackets, ClientPackets, SendAssumption, SMTT(30) DEF
       GetAck, Receive, SendInv, TypeOK, Integrity, Told, Window, AckOrder, OackAnswer,
       LastKnown, LoopInv, ErrorReason, Turn, Return
  <2>13. ErrorReason'
    BY <1>9, <2>2 DEF GetAck, SendInv, ErrorReason
  <2> QED
    BY <2>5, <2>6, <2>7, <2>8, <2>9, <2>10, <2>11, <2>12, <2>13 DEF SendInv
<1>10. CASE GetError
  <2>1. PICK i \in Arriving(toServer) :
          /\ Receive("ERROR", i)
    BY <1>10 DEF GetError
  <2>2. /\ toServer' \in Seq(FromClient) /\ Len(toServer') <= Capacity
        /\ toServer[i] \in FromClient /\ toServer[i] \in Under(toServer)
        /\ i \in DOMAIN toServer
        /\ \A q \in Under(toServer') : q \in Under(toServer)
        /\ inOrder => /\ i = 1
                      /\ \A j \in DOMAIN toServer' :
                           j + 1 \in DOMAIN toServer /\ toServer'[j] = toServer[j + 1]
    BY <2>1, ServerGets DEF Receive, SendInv
  <2>3. toServer[i] = Error
    BY <2>1, <2>2, FromClientKinds DEF Receive
  <2>4. TypeOK'
    BY <1>10, <2>2 DEF GetError, Receive, SendInv, TypeOK
  <2>5. Integrity'
    BY <1>10 DEF GetError, SendInv, Integrity
  <2>6. Told'
    BY <1>10 DEF GetError, Told, Turn
  <2>7. Window'
    BY <1>10, <2>2 DEF GetError, Receive, SendInv, Window
  <2>8. AckOrder'
    BY <1>10, AckTakenInOrder DEF GetError, Receive
  <2>9. OackAnswer'
    BY <1>10, <2>2 DEF GetError, Receive, SendInv, OackAnswer
  <2>10. LastKnown'
    BY <1>10 DEF GetError, Receive, SendInv, LastKnown
  <2>11. LoopInv'
    BY <1>10 DEF GetError, LoopInv
  <2>12. ErrorReason'
    BY <1>10, <2>2, <2>3 DEF GetError, SendInv, ErrorReason
  <2> QED
    BY <2>4, <2>5, <2>6, <2>7, <2>8, <2>9, <2>10, <2>11, <2>12 DEF SendInv
<1>11. CASE Interrupted
  <2>1. TypeOK'
    BY <1>11 DEF Interrupted, SendInv, TypeOK
  <2>2. Integrity'
    BY <1>11 DEF Interrupted, SendInv, Integrity
  <2>3. Told'
    BY <1>11 DEF Interrupted, Told
  <2>4. Window'
    BY <1>11 DEF Interrupted, SendInv, Window
  <2>5. AckOrder'
    BY <1>11 DEF Interrupted, SendInv, AckOrder
  <2>6. OackAnswer'
    BY <1>11 DEF Interrupted, SendInv, OackAnswer
  <2>7. LastKnown'
    BY <1>11 DEF Interrupted, SendInv, LastKnown
  <2>8. LoopInv'
    BY <1>11 DEF Interrupted, LoopInv
  <2>9. ErrorReason'
    BY <1>11 DEF Interrupted, SendInv, ErrorReason
  <2> QED
    BY <2>1, <2>2, <2>3, <2>4, <2>5, <2>6, <2>7, <2>8, <2>9 DEF SendInv
<1>12. CASE End
  <2>1. TypeOK'
    BY <1>12 DEF End, SendInv, TypeOK
  <2>2. Integrity'
    BY <1>12 DEF End, SendInv, Integrity
  <2>3. Told'
    BY <1>12 DEF End, Told
  <2>4. Window'
    BY <1>12 DEF End, SendInv, Window
  <2>5. AckOrder'
    BY <1>12 DEF End, SendInv, AckOrder
  <2>6. OackAnswer'
    BY <1>12 DEF End, SendInv, OackAnswer
  <2>7. LastKnown'
    BY <1>12 DEF End, SendInv, LastKnown
  <2>8. LoopInv'
    BY <1>12 DEF End, SendInv, LoopInv
  <2>9. ErrorReason'
    BY <1>12 DEF End, SendInv, ErrorReason
  <2> QED
    BY <2>1, <2>2, <2>3, <2>4, <2>5, <2>6, <2>7, <2>8, <2>9 DEF SendInv
<1>13. CASE Abort
  <2>1. TypeOK'
    BY <1>13 DEF Abort, SendInv, TypeOK
  <2>2. Integrity'
    BY <1>13 DEF Abort, SendInv, Integrity
  <2>3. Told'
    BY <1>13 DEF Abort, SendInv, Told, ErrorReason, Turn
  <2>4. Window'
    BY <1>13 DEF Abort, SendInv, Window
  <2>5. AckOrder'
    BY <1>13 DEF Abort, SendInv, AckOrder
  <2>6. OackAnswer'
    BY <1>13 DEF Abort, SendInv, OackAnswer
  <2>7. LastKnown'
    BY <1>13 DEF Abort, SendInv, LastKnown
  <2>8. LoopInv'
    BY <1>13 DEF Abort, LoopInv, Turn
  <2>9. ErrorReason'
    BY <1>13 DEF Abort, SendInv, ErrorReason
  <2> QED
    BY <2>1, <2>2, <2>3, <2>4, <2>5, <2>6, <2>7, <2>8, <2>9 DEF SendInv
<1>14. CASE MainCancel
  <2>1. TypeOK'
    BY <1>14 DEF MainCancel, SendInv, TypeOK
  <2>2. Integrity'
    BY <1>14 DEF MainCancel, SendInv, Integrity
  <2>3. Told'
    BY <1>14 DEF MainCancel, SendInv, Told
  <2>4. Window'
    BY <1>14 DEF MainCancel, SendInv, Window
  <2>5. AckOrder'
    BY <1>14 DEF MainCancel, SendInv, Turn, Return, AckOrder
  <2>6. OackAnswer'
    BY <1>14 DEF MainCancel, SendInv, OackAnswer
  <2>7. LastKnown'
    BY <1>14 DEF MainCancel, SendInv, LastKnown
  <2>8. LoopInv'
    BY <1>14 DEF MainCancel, SendInv, LoopInv
  <2>9. ErrorReason'
    BY <1>14 DEF MainCancel, SendInv, ErrorReason
  <2> QED
    BY <2>1, <2>2, <2>3, <2>4, <2>5, <2>6, <2>7, <2>8, <2>9 DEF SendInv
<1>15. CASE ClientReceives
  <2>1. PICK i \in Arriving(toClient) :
          /\ toClient' \in Rest(toClient, i)
          /\ \/ ClientGetsOack(i) \/ ClientGetsBlock(i)
             \/ ClientGetsOldBlock(i) \/ ClientGetsError(i)
    BY <1>15 DEF ClientReceives
  <2>2. /\ toClient' \in Seq(FromServer) /\ Len(toClient') <= Capacity
        /\ toClient[i] \in FromServer /\ toClient[i] \in Under(toClient)
        /\ \A q \in Under(toClient') : q \in Under(toClient)
    BY <2>1, ClientGets DEF SendInv
  <2>3. UNCHANGED <<session, sendVars, result, signalVars, told>>
    BY <1>15 DEF ClientReceives
  <2>4. CASE ClientGetsOack(i)
    <3>1. toClient[i] = Oack /\ Len(got) = 0
      BY <2>2, <2>4, FromServerKinds DEF ClientGetsOack
    <3>2. /\ toServer' \in Seq(FromClient) /\ Len(toServer') <= Capacity
          /\ \A q \in Under(toServer') : q \in Under(toServer) \/ q = Ack(0)
          /\ \A j \in DOMAIN toServer' :
               \/ j \in DOMAIN toServer /\ toServer'[j] = toServer[j]
               \/ j = Len(toServer) + 1 /\ toServer'[j] = Ack(0)
          /\ \A j \in DOMAIN toServer : j <= Len(toServer) /\ toServer[j] \in Under(toServer)
      <4>1. Ack(0) \in FromClient
        BY ClientPackets, SendAssumption
      <4>2. toServer' = Send(toServer, Ack(0))
        BY <2>4 DEF ClientGetsOack, Reply
      <4> QED
        BY <4>1, <4>2, ClientSends DEF SendInv
    <3>3. /\ Ack(0) \in FromClient
          /\ Ack(0).op = "ACK" /\ Ack(0).block = Len(got')
          /\ Len(got) <= Len(got') /\ Len(got') \in Nat
      BY <2>4, ClientPackets, SendAssumption DEF ClientGetsOack
    <3>4. TypeOK'
      BY <2>3, <2>2, <2>4, <3>2 DEF ClientGetsOack, SendInv, TypeOK
    <3>5. Integrity'
      BY <2>4 DEF ClientGetsOack, Integrity
    <3>6. Told'
      BY <2>3, <2>4 DEF ClientGetsOack, SendInv, Told
    <3>7. Window'
      BY <2>3, <2>2, <2>4, <3>2, <3>3 DEF ClientGetsOack, SendInv, Window
    <3>8. AckOrder'
      BY <2>3, <2>4, <3>3, AckSentInOrder DEF ClientGetsOack, Reply
    <3>9. OackAnswer'
      <4>1. Ack(0).block = 0
        BY ClientPackets, SendAssumption
      <4> QED
        BY <2>3, <2>2, <3>1 DEF SendInv, OackAnswer
    <3>10. LastKnown'
      BY <2>3, <2>2, <2>4 DEF ClientGetsOack, SendInv, LastKnown
    <3>11. LoopInv'
      BY <2>3 DEF SendInv, LoopInv
    <3>12. ErrorReason'
      BY <2>3, <2>4, <3>2, <3>3, ServerPackets DEF ClientGetsOack, SendInv, ErrorReason
    <3> QED
      BY <3>4, <3>5, <3>6, <3>7, <3>8, <3>9, <3>10, <3>11, <3>12 DEF SendInv
  <2>5. CASE ClientGetsBlock(i)
    <3>1. Len(got) \in 0 .. FullBlocks
      BY <2>5, SendAssumption DEF ClientGetsBlock, SendInv, TypeOK, LastKnown
    <3>2. /\ toClient[i].block = Len(got) + 1
          /\ toClient[i].body = Body(Len(got)) /\ toClient[i].short = Short(Len(got))
          /\ toClient[i] = Data(Len(got))
      <4>1. (Len(got) + 1) % Wrap = Len(got) + 1
        BY <3>1, Unwrapped, SendAssumption
      <4>2. toClient[i].op = "DATA" /\ toClient[i].block = Len(got) + 1
        BY <2>5, <4>1 DEF ClientGetsBlock
      <4>3. toClient[i].block - 1 = Len(got)
        BY <3>1, <4>2
      <4>4. /\ toClient[i] = Data(toClient[i].block - 1)
            /\ toClient[i].body = Body(toClient[i].block - 1)
            /\ toClient[i].short = Short(toClient[i].block - 1)
        BY <2>2, <4>2, FromServerKinds
      <4> QED
        BY <4>2, <4>3, <4>4
    <3>3. /\ got' \in Seq(-1 .. FullBlocks) /\ Len(got') = Len(got) + 1
          /\ \A j \in DOMAIN got' : IF j <= Len(got) THEN got'[j] = got[j] ELSE got'[j] = Body(Len(got))
      <4>1. Body(Len(got)) \in -1 .. FullBlocks
        BY <3>1, SendAssumption DEF Body, NoBody
      <4>2. got' = Append(got, Body(Len(got)))
        BY <2>5, <3>2 DEF ClientGetsBlock
      <4> QED
        BY <4>1, <4>2 DEF SendInv, TypeOK
    <3>4. client' = (IF Len(got) = FullBlocks THEN "done" ELSE "waiting") /\ heard' = TRUE
      <4>1. client' = IF Short(Len(got)) THEN "done" ELSE "waiting"
        BY <2>5, <3>2, Zenon DEF ClientGetsBlock
      <4> QED
        BY <2>5, <4>1, <3>1, SendAssumption DEF ClientGetsBlock, Short
    <3>5. /\ toServer' \in Seq(FromClient) /\ Len(toServer') <= Capacity
          /\ \A q \in Under(toServer') : q \in Under(toServer) \/ q = Ack(Len(got) + 1)
          /\ \A j \in DOMAIN toServer' :
               \/ j \in DOMAIN toServer /\ toServer'[j] = toServer[j]
               \/ j = Len(toServer) + 1 /\ toServer'[j] = Ack(Len(got) + 1)
          /\ \A j \in DOMAIN toServer : j <= Len(toServer) /\ toServer[j] \in Under(toServer)
      <4>1. Ack(Len(got) + 1) \in FromClient
        BY <3>1, ClientPackets, SendAssumption
      <4>2. toServer' = Send(toServer, Ack(Len(got) + 1))
        BY <2>5 DEF ClientGetsBlock, Reply
      <4> QED
        BY <4>1, <4>2, ClientSends DEF SendInv
    <3>6. /\ Ack(Len(got) + 1) \in FromClient
          /\ Ack(Len(got) + 1).op = "ACK" /\ Ack(Len(got) + 1).block = Len(got')
          /\ Len(got) <= Len(got') /\ Len(got') \in Nat
      BY <3>1, <3>3, ClientPackets, SendAssumption
    <3>7. TypeOK'
      BY <2>3, <2>2, <3>1, <3>3, <3>4, <3>5, SendAssumption DEF SendInv, TypeOK
    <3>8. Integrity'
      <4>1. ASSUME NEW j \in DOMAIN got' PROVE got'[j] = Body(j - 1)
        <5>1. CASE j <= Len(got)
          <6>1. j \in DOMAIN got
            BY <4>1, <5>1
          <6> QED
            BY <3>3, <4>1, <5>1, <6>1 DEF SendInv, Integrity
        <5>2. CASE ~(j <= Len(got))
          <6>1. j - 1 = Len(got)
            BY <3>3, <5>2
          <6> QED
            BY <3>3, <6>1
        <5> QED
          BY <5>1, <5>2
      <4> QED
        BY <4>1 DEF Integrity
    <3>9. Told'
      BY <2>3, <2>5 DEF ClientGetsBlock, SendInv, Told
    <3>10. Window'
      <4>1. /\ \A q \in Under(toClient) : q.op = "DATA" => q.block \in Int
            /\ \A q \in Under(toServer) : q.op = "ACK" => q.block \in Int
        BY FromServerKinds, FromClientKinds DEF SendInv, TypeOK, Under
      <4>2. block_number <= Len(got') /\ Len(got') = Len(got) + 1 /\ Len(got) \in Nat
        <5>1. got \in Seq(-1 .. FullBlocks) /\ block_number \in Int /\ block_number <= Len(got)
          BY SendAssumption DEF SendInv, TypeOK, Window
        <5> QED
          BY <3>3, <5>1
      <4>3. \A q \in Under(toClient') : q.op = "DATA" => q.block <= Len(got') + 1
        BY <2>2, <4>1, <4>2 DEF SendInv, Window
      <4>4. \A q \in Under(toServer') : q.op = "ACK" => q.block <= Len(got')
        BY <3>5, <3>6, <4>1, <4>2 DEF SendInv, Window
      <4> QED
        BY <2>3, <4>2, <4>3, <4>4 DEF SendInv, Window
    <3>11. AckOrder'
      BY <2>3, <2>5, <3>6, AckSentInOrder DEF ClientGetsBlock, Reply
    <3>12. OackAnswer'
      <4>1. Ack(0).block = 0
        BY ClientPackets, SendAssumption
      <4> QED
        BY <2>3, <2>2, <3>5, <3>6, <4>1, <3>3 DEF SendInv, OackAnswer
    <3>13. LastKnown'
      BY <2>3, <2>2, <2>5, <3>1, <3>2, <3>3, <3>4, <3>5, ServerPackets,
         ClientPackets, SendAssumption DEF ClientGetsBlock, SendInv, Turn, Return,
         LastKnown
    <3>14. LoopInv'
      BY <2>3 DEF SendInv, LoopInv
    <3>15. ErrorReason'
      BY <2>3, <2>5, <3>5, <3>6, ServerPackets DEF ClientGetsBlock, SendInv, ErrorReason
    <3> QED
      BY <3>7, <3>8, <3>9, <3>10, <3>11, <3>12, <3>13, <3>14, <3>15 DEF SendInv
  <2>6. CASE ClientGetsOldBlock(i)
    <3>1. /\ toServer' \in Seq(FromClient) /\ Len(toServer') <= Capacity
          /\ \A q \in Under(toServer') : q \in Under(toServer) \/ q = Ack(Len(got))
          /\ \A j \in DOMAIN toServer' :
               \/ j \in DOMAIN toServer /\ toServer'[j] = toServer[j]
               \/ j = Len(toServer) + 1 /\ toServer'[j] = Ack(Len(got))
          /\ \A j \in DOMAIN toServer : j <= Len(toServer) /\ toServer[j] \in Under(toServer)
      <4>1. Ack(Len(got)) \in FromClient
        BY ClientPackets, SendAssumption DEF SendInv, TypeOK
      <4>2. toServer' = Send(toServer, Ack(Len(got)))
        BY <2>6 DEF ClientGetsOldBlock, Reply
      <4> QED
        BY <4>1, <4>2, ClientSends DEF SendInv
    <3>2. /\ Ack(Len(got)) \in FromClient
          /\ Ack(Len(got)).op = "ACK" /\ Ack(Len(got)).block = Len(got')
          /\ Len(got) <= Len(got') /\ Len(got') \in Nat
      BY <2>6, ClientPackets DEF ClientGetsOldBlock, SendInv, TypeOK
    <3>3. TypeOK'
      BY <2>3, <2>2, <2>6, <3>1 DEF ClientGetsOldBlock, SendInv, TypeOK
    <3>4. Integrity'
      BY <2>6 DEF ClientGetsOldBlock, SendInv, Integrity
    <3>5. Told'
      BY <2>3, <2>6 DEF ClientGetsOldBlock, SendInv, Told
    <3>6. Window'
      BY <2>3, <2>2, <2>6, <3>1, <3>2 DEF ClientGetsOldBlock, SendInv, Window
    <3>7. AckOrder'
      BY <2>3, <2>6, <3>2, AckSentInOrder DEF ClientGetsOldBlock, Reply
    <3>8. OackAnswer'
      <4>1. Ack(0).block = 0
        BY ClientPackets, SendAssumption
      <4> QED
        BY <2>3, <2>2, <2>6, <3>1, <3>2, <4>1 DEF ClientGetsOldBlock, SendInv, OackAnswer
    <3>9. LastKnown'
      BY <2>3, <2>2, <2>6 DEF ClientGetsOldBlock, SendInv, LastKnown
    <3>10. LoopInv'
      BY <2>3 DEF SendInv, LoopInv
    <3>11. ErrorReason'
      BY <2>3, <2>6, <3>1, <3>2, ServerPackets DEF ClientGetsOldBlock, SendInv, ErrorReason
    <3> QED
      BY <3>3, <3>4, <3>5, <3>6, <3>7, <3>8, <3>9, <3>10, <3>11 DEF SendInv
  <2>7. CASE ClientGetsError(i)
    <3>1. toServer' = toServer
      BY <2>7 DEF ClientGetsError
    <3>2. TypeOK'
      BY <2>3, <2>2, <2>7 DEF ClientGetsError, SendInv, TypeOK
    <3>3. Integrity'
      BY <2>7 DEF ClientGetsError, SendInv, Integrity
    <3>4. Told'
      BY <2>7 DEF ClientGetsError, Told
    <3>5. Window'
      BY <2>3, <2>2, <2>7, <3>1 DEF ClientGetsError, SendInv, Turn, Return,
         Window
    <3>6. AckOrder'
      BY <2>3, <2>2, <2>7, <3>1 DEF ClientGetsError, SendInv, Turn, Return,
         AckOrder
    <3>7. OackAnswer'
      BY <2>3, <2>2, <2>7 DEF ClientGetsError, SendInv, OackAnswer
    <3>8. LastKnown'
      BY <2>3, <2>2, <2>7 DEF ClientGetsError, SendInv, LastKnown
    <3>9. LoopInv'
      BY <2>3 DEF SendInv, LoopInv
    <3>10. ErrorReason'
      BY <2>7 DEF ClientGetsError, ErrorReason
    <3> QED
      BY <3>2, <3>3, <3>4, <3>5, <3>6, <3>7, <3>8, <3>9, <3>10 DEF SendInv
  <2> QED
    BY <2>1, <2>4, <2>5, <2>6, <2>7
<1>16. CASE ClientTimeout
  <2>1. /\ toServer' \in Seq(FromClient) /\ Len(toServer') <= Capacity
        /\ \A q \in Under(toServer') : q \in Under(toServer) \/ q = Ack(Len(got))
        /\ \A i \in DOMAIN toServer' :
             \/ i \in DOMAIN toServer /\ toServer'[i] = toServer[i]
             \/ i = Len(toServer) + 1 /\ toServer'[i] = Ack(Len(got))
        /\ \A i \in DOMAIN toServer : i <= Len(toServer) /\ toServer[i] \in Under(toServer)
    <3>1. Ack(Len(got)) \in FromClient
      BY ClientPackets, SendAssumption DEF SendInv, TypeOK
    <3>2. toServer' = Send(toServer, Ack(Len(got)))
      BY <1>16 DEF ClientTimeout, Reply
    <3> QED
      BY <3>1, <3>2, ClientSends DEF SendInv
  <2>2. TypeOK'
    BY <1>16, <2>1 DEF ClientTimeout, SendInv, TypeOK
  <2>3. Integrity'
    BY <1>16 DEF ClientTimeout, SendInv, Integrity
  <2>4. Told'
    BY <1>16 DEF ClientTimeout, SendInv, Told
  <2>5. Window'
    BY <1>16, <2>1, ClientPackets, SendAssumption DEF ClientTimeout, SendInv, TypeOK,
       Window
  <2>6. AckOrder'
    BY <1>16, ClientPackets, AckSentInOrder DEF ClientTimeout, Reply, SendInv, TypeOK
  <2>7. OackAnswer'
    <3>1. Ack(Len(got)).block = Len(got) /\ Ack(0).block = 0
      BY ClientPackets, SendAssumption DEF SendInv, TypeOK
    <3> QED
      BY <1>16, <2>1, <3>1 DEF ClientTimeout, SendInv, OackAnswer
  <2>8. LastKnown'
    BY <1>16 DEF ClientTimeout, SendInv, LastKnown
  <2>9. LoopInv'
    BY <1>16 DEF ClientTimeout, SendInv, LoopInv
  <2>10. ErrorReason'
    BY <1>16, <2>1, ServerPackets, ClientPackets DEF ClientTimeout, SendInv, TypeOK,
       ErrorReason
  <2> QED
    BY <2>2, <2>3, <2>4, <2>5, <2>6, <2>7, <2>8, <2>9, <2>10 DEF SendInv
<1>17. CASE ClientGivesUp
  <2>1. /\ toServer' \in Seq(FromClient) /\ Len(toServer') <= Capacity
        /\ \A q \in Under(toServer') : q \in Under(toServer) \/ q = Error
        /\ \A i \in DOMAIN toServer' :
             \/ i \in DOMAIN toServer /\ toServer'[i] = toServer[i]
             \/ i = Len(toServer) + 1 /\ toServer'[i] = Error
    <3>1. CASE toServer' = toServer
      BY <3>1 DEF SendInv, TypeOK
    <3>2. CASE toServer' = Send(toServer, Error)
      <4>1. Error \in FromClient
        BY DEF FromClient
      <4> QED
        BY <3>2, <4>1, ClientSends DEF SendInv
    <3> QED
      BY <1>17, <3>1, <3>2 DEF ClientGivesUp, Reply
  <2>2. TypeOK'
    BY <1>17, <2>1 DEF ClientGivesUp, SendInv, TypeOK
  <2>3. Integrity'
    BY <1>17 DEF ClientGivesUp, SendInv, Integrity
  <2>4. Told'
    BY <1>17 DEF ClientGivesUp, Told
  <2>5. Window'
    BY <1>17, <2>1, ServerPackets DEF ClientGivesUp, SendInv, Window
  <2>6. AckOrder'
    BY <1>17, <2>1, ServerPackets DEF ClientGivesUp, SendInv, TypeOK, AckOrder
  <2>7. OackAnswer'
    BY <1>17, <2>1, ServerPackets, ClientPackets, SendAssumption DEF ClientGivesUp, SendInv,
       OackAnswer
  <2>8. LastKnown'
    BY <1>17 DEF ClientGivesUp, SendInv, LastKnown
  <2>9. LoopInv'
    BY <1>17 DEF ClientGivesUp, SendInv, LoopInv
  <2>10. ErrorReason'
    BY <1>17 DEF ClientGivesUp, ErrorReason
  <2> QED
    BY <2>2, <2>3, <2>4, <2>5, <2>6, <2>7, <2>8, <2>9, <2>10 DEF SendInv
<1>18. CASE Lose
  <2>1. ASSUME NEW i \in Arriving(toClient), toClient' = RemoveAt(toClient, i),
               UNCHANGED toServer
        PROVE  SendInv'
    <3>1. /\ toClient' \in Seq(FromServer) /\ Len(toClient') <= Capacity
          /\ \A q \in Under(toClient') : q \in Under(toClient)
      BY <2>1, LoseUnder, ClientGets DEF SendInv, TypeOK
    <3>2. TypeOK'
      BY <1>18, <2>1, <3>1 DEF Lose, SendInv, TypeOK
    <3>3. Integrity'
      BY <1>18 DEF Lose, SendInv, Integrity
    <3>4. Told'
      BY <1>18 DEF Lose, SendInv, Told
    <3>5. Window'
      BY <1>18, <2>1, <3>1 DEF Lose, SendInv, Turn, Return, Window
    <3>6. AckOrder'
      BY <1>18, <2>1, <3>1 DEF Lose, SendInv, Turn, Return, AckOrder
    <3>7. OackAnswer'
      BY <1>18, <2>1, <3>1 DEF Lose, SendInv, OackAnswer
    <3>8. LastKnown'
      BY <1>18, <3>1 DEF Lose, SendInv, LastKnown
    <3>9. LoopInv'
      BY <1>18 DEF Lose, SendInv, LoopInv
    <3>10. ErrorReason'
      BY <1>18, <2>1 DEF Lose, SendInv, ErrorReason
    <3> QED
      BY <3>2, <3>3, <3>4, <3>5, <3>6, <3>7, <3>8, <3>9, <3>10 DEF SendInv
  <2>2. ASSUME NEW i \in Arriving(toServer), toServer' = RemoveAt(toServer, i),
               UNCHANGED toClient
        PROVE  SendInv'
    <3>1. /\ toServer' \in Seq(FromClient) /\ Len(toServer') <= Capacity
          /\ i \in DOMAIN toServer
          /\ \A q \in Under(toServer') : q \in Under(toServer)
          /\ inOrder => /\ i = 1
                        /\ \A j \in DOMAIN toServer' :
                             j + 1 \in DOMAIN toServer /\ toServer'[j] = toServer[j + 1]
      BY <2>2, LoseUnder, ServerGets DEF SendInv, TypeOK
    <3>2. TypeOK'
      BY <1>18, <2>2, <3>1 DEF Lose, SendInv, TypeOK
    <3>3. Integrity'
      BY <1>18 DEF Lose, SendInv, Integrity
    <3>4. Told'
      BY <1>18 DEF Lose, SendInv, Told
    <3>5. Window'
      BY <1>18, <2>2, <3>1 DEF Lose, SendInv, Turn, Return, Window
    <3>6. AckOrder'
      BY <1>18, <2>2, LoseUnder, AckTakenInOrder DEF Lose, SendInv, TypeOK
    <3>7. OackAnswer'
      BY <1>18, <2>2, <3>1 DEF Lose, SendInv, OackAnswer
    <3>8. LastKnown'
      BY <1>18, <2>2 DEF Lose, SendInv, LastKnown
    <3>9. LoopInv'
      BY <1>18 DEF Lose, SendInv, LoopInv
    <3>10. ErrorReason'
      BY <1>18, <3>1 DEF Lose, SendInv, ErrorReason
    <3> QED
      BY <3>2, <3>3, <3>4, <3>5, <3>6, <3>7, <3>8, <3>9, <3>10 DEF SendInv
  <2> QED
    BY <1>18, <2>1, <2>2 DEF Lose
<1>19. CASE Over
  <2>1. TypeOK'
    BY <1>19 DEF Over, SendInv, TypeOK
  <2>2. Integrity'
    BY <1>19 DEF Over, SendInv, Integrity
  <2>3. Told'
    BY <1>19 DEF Over, SendInv, Told
  <2>4. Window'
    BY <1>19 DEF Over, SendInv, Window
  <2>5. AckOrder'
    BY <1>19 DEF Over, SendInv, Turn, Return, AckOrder
  <2>6. OackAnswer'
    BY <1>19 DEF Over, SendInv, OackAnswer
  <2>7. LastKnown'
    BY <1>19 DEF Over, SendInv, LastKnown
  <2>8. LoopInv'
    BY <1>19 DEF Over, SendInv, LoopInv
  <2>9. ErrorReason'
    BY <1>19 DEF Over, SendInv, ErrorReason
  <2> QED
    BY <2>1, <2>2, <2>3, <2>4, <2>5, <2>6, <2>7, <2>8, <2>9 DEF SendInv
<1>20. CASE UNCHANGED vars
  <2>1. TypeOK'
    BY <1>20 DEF SendInv, TypeOK
  <2>2. Integrity'
    BY <1>20 DEF SendInv, Integrity
  <2>3. Told'
    BY <1>20 DEF SendInv, Told
  <2>4. Window'
    BY <1>20 DEF SendInv, Window
  <2>5. AckOrder'
    BY <1>20 DEF SendInv, Turn, Return, AckOrder
  <2>6. OackAnswer'
    BY <1>20 DEF SendInv, OackAnswer
  <2>7. LastKnown'
    BY <1>20 DEF SendInv, LastKnown
  <2>8. LoopInv'
    BY <1>20 DEF SendInv, LoopInv
  <2>9. ErrorReason'
    BY <1>20 DEF SendInv, ErrorReason
  <2> QED
    BY <2>1, <2>2, <2>3, <2>4, <2>5, <2>6, <2>7, <2>8, <2>9 DEF SendInv
<1> QED
  BY <1>1, <1>2, <1>3, <1>4, <1>5, <1>6, <1>7, <1>8, <1>9, <1>10, <1>11, <1>12, <1>13,
     <1>14, <1>15, <1>16, <1>17, <1>18, <1>19, <1>20 DEF Next, ServerStep, ClientStep

-----------------------------------------------------------------------------
(***************************************************************************)
(* The theorems.                                                           *)
(***************************************************************************)

\* In order or out of order, however many packets are lost: the counters stay
\* in their ranges, the server is never ahead of the client, and a client that
\* is dropped is told so.
THEOREM TransferCorrect ==
  ASSUME NoWrap, OptionsInOrder
  PROVE  Spec => []SendInv
<1>1. Init => SendInv /\ OptionsOrdered
  BY InitSendInv DEF Init, OptionsOrdered, OptionsInOrder
<1>2. SendInv /\ OptionsOrdered /\ [Next]_vars => (SendInv /\ OptionsOrdered)'
  <2>1. ASSUME [Next]_vars PROVE UNCHANGED session
    BY <2>1 DEF Next, ServerStep, ClientStep, Refuse, TooBig, Accept, Cancelled, Begin,
       SendOack, SendData, GetTimeout, GetAck, GetError, Interrupted, End, Abort,
       MainCancel, ClientReceives, ClientTimeout, ClientGivesUp, Lose, Over
  <2> QED
    BY <2>1, StepSendInv DEF OptionsOrdered
<1> QED
  BY <1>1, <1>2, PTL DEF Spec

\* The client's copy is the beginning of the file, whatever was lost, repeated
\* or late.
THEOREM CopyExact ==
  ASSUME NoWrap, OptionsInOrder
  PROVE  Spec => []Integrity
<1>1. SendInv => Integrity
  BY DEF SendInv
<1> QED
  BY <1>1, TransferCorrect, PTL

\* The thread that ends a transfer on an ACK has served a client that has the
\* whole file, if the file does not end with a full block: then the last block
\* is empty, and not waited for.
THEOREM EndedComplete ==
  ASSUME NoWrap, OptionsInOrder, Partial
  PROVE  Spec => []EndComplete
<1>1. SendInv => EndComplete
  BY SendAssumption DEF SendInv, TypeOK, Window, LastKnown, LoopInv, EndComplete
<1> QED
  BY <1>1, TransferCorrect, PTL

-----------------------------------------------------------------------------
(***************************************************************************)
(* The file reader.  Its variables are those of tftp_rfile.c, which the    *)
(* thread of TftpSend sees as bodies of blocks only.                       *)
(***************************************************************************)

\* Every nonempty set of numbers has a least element.
LEMMA LeastNat ==
  ASSUME NEW S \in SUBSET Nat, S # {}
  PROVE  \E m \in S : \A k \in S : m <= k
  <1>1. PICK m \in S : \A k \in S : ~(<<k, m>> \in OpToRel(<, Nat))
    BY NatLessThanWellFounded, WFMin
  <1>2. \A k \in S : ~(k < m)
    BY <1>1 DEF OpToRel
  <1> QED
    BY <1>2

\* Induction up to n: the numbers for which something holds are all.
LEMMA UpTo ==
  ASSUME NEW n \in Nat, NEW Good, 0 \in Good,
         \A k \in 1 .. n : k - 1 \in Good => k \in Good
  PROVE  \A k \in 0 .. n : k \in Good
  <1> DEFINE Bad == (0 .. n) \ Good
  <1> SUFFICES ASSUME Bad # {} PROVE FALSE
    OBVIOUS
  <1>1. PICK k \in Bad : \A j \in Bad : k <= j
    <2>1. Bad \in SUBSET Nat
      OBVIOUS
    <2> QED
      BY <2>1, LeastNat
  <1>2. k \in 1 .. n /\ k - 1 \in 0 .. n /\ k - 1 \notin Bad
    BY <1>1
  <1> QED
    BY <1>2

\* r[i] is what the first i of n steps have made of the base.
IsRun(r, n, base, step) == r[0] = base /\ \A i \in 1 .. n : r[i] = step[i][r[i - 1]]

\* Steps that are functions of one set have a result.
LEMMA StepsExist ==
  ASSUME NEW T, NEW base \in T, NEW n \in Nat, NEW step \in [1 .. n -> [T -> T]]
  PROVE  \E r \in [0 .. n -> T] : IsRun(r, n, base, step)
  <1> DEFINE Has(k) == \E r \in [0 .. k -> T] : IsRun(r, k, base, step)
             Good == {k \in 0 .. n : Has(k)}
  <1> HIDE DEF Has
  <1>1. 0 \in Good
    <2> DEFINE r == [i \in 0 .. 0 |-> base]
    <2>1. r \in [0 .. 0 -> T] /\ r[0] = base /\ 1 .. 0 = {}
      OBVIOUS
    <2> HIDE DEF r
    <2>2. Has(0)
      BY <2>1 DEF Has, IsRun
    <2> QED
      BY <2>2
  <1>2. ASSUME NEW k \in 1 .. n, k - 1 \in Good
        PROVE  k \in Good
    <2>1. PICK r \in [0 .. k - 1 -> T] :
            r[0] = base /\ \A i \in 1 .. k - 1 : r[i] = step[i][r[i - 1]]
      BY <1>2 DEF Has, IsRun
    <2> DEFINE s == [i \in 0 .. k |-> IF i = k THEN step[k][r[k - 1]] ELSE r[i]]
    <2>2. k \in Nat /\ k - 1 \in 0 .. k - 1 /\ r[k - 1] \in T
      BY <2>1
    <2>3. step[k] \in [T -> T]
      OBVIOUS
    <2>4. step[k][r[k - 1]] \in T
      BY <2>2, <2>3
    <2>5. s \in [0 .. k -> T] /\ s[0] = base /\ s[k] = step[k][r[k - 1]] /\ s[k - 1] = r[k - 1]
      BY <2>1, <2>2, <2>4
    <2>6. \A i \in 1 .. k - 1 : s[i] = r[i] /\ s[i - 1] = r[i - 1]
      BY <2>2
    <2>7. 1 .. k = (1 .. k - 1) \cup {k}
      BY <2>2
    <2> HIDE DEF s
    <2>8. \A i \in 1 .. k : s[i] = step[i][s[i - 1]]
      BY <2>1, <2>5, <2>6, <2>7
    <2>9. Has(k)
      BY <2>5, <2>8 DEF Has, IsRun
    <2> QED
      BY <2>9
  <1> HIDE DEF Good
  <1>3. \A k \in 1 .. n : k - 1 \in Good => k \in Good
    BY <1>2
  <1>4. \A k \in 0 .. n : k \in Good
    BY <1>1, <1>3, UpTo
  <1>5. n \in Good
    BY <1>4
  <1> QED
    BY <1>5 DEF Good, Has

-----------------------------------------------------------------------------
\* The characters of a file, as far as they matter, and those of a text.
Chars == {"LF", "CR", "x"}
TextChars == {"LF", "CR", "NUL", "x"}

\* prefix[i] is the text of the file's first i characters.
PrefixesOf(prefix) ==
  /\ prefix \in [0 .. Len(file) -> Seq(TextChars)]
  /\ prefix[0] = <<>>
  /\ \A i \in 1 .. Len(file) : prefix[i] = prefix[i - 1] \o Converted(file[i])
  /\ prefix[Len(file)] = Netascii

\* A character's conversion is one character or two.
LEMMA ConvertedTyped ==
  ASSUME NEW c \in Chars
  PROVE  /\ Converted(c) \in Seq(TextChars)
         /\ Len(Converted(c)) \in 1 .. 2
  <1>1. /\ Converted("LF") = <<"CR", "LF">>
        /\ Converted("CR") = <<"CR", "NUL">>
        /\ Converted("x") = <<"x">>
    BY DEF Converted
  <1>2. /\ <<"CR", "LF">> \in Seq(TextChars) /\ Len(<<"CR", "LF">>) = 2
        /\ <<"CR", "NUL">> \in Seq(TextChars) /\ Len(<<"CR", "NUL">>) = 2
        /\ <<"x">> \in Seq(TextChars) /\ Len(<<"x">>) = 1
    BY DEF TextChars
  <1>3. 1 \in 1 .. 2 /\ 2 \in 1 .. 2
    OBVIOUS
  <1>4. CASE c = "LF"
    BY <1>1, <1>2, <1>3, <1>4
  <1>5. CASE c = "CR"
    BY <1>1, <1>2, <1>3, <1>5
  <1>6. CASE c = "x"
    BY <1>1, <1>2, <1>3, <1>6
  <1> QED
    BY <1>4, <1>5, <1>6 DEF Chars

\* The text is put together character by character.
LEMMA PrefixesExist ==
  ASSUME file \in Seq(Chars)
  PROVE  \E prefix : PrefixesOf(prefix)
  <1> DEFINE n == Len(file)
             seqs == [i \in DOMAIN file |-> Converted(file[i])]
             step == [i \in 1 .. n |-> [t \in Seq(TextChars) |-> t \o seqs[i]]]
  <1>1. n \in Nat /\ DOMAIN file = 1 .. n
    OBVIOUS
  <1>2. \A i \in 1 .. n : file[i] \in Chars /\ seqs[i] = Converted(file[i])
    OBVIOUS
  <1>3. \A i \in 1 .. n : seqs[i] \in Seq(TextChars)
    BY <1>2, ConvertedTyped
  <1>4. seqs \in Seq(Seq(TextChars)) /\ Len(seqs) = n
    BY <1>1, <1>3
  <1> HIDE DEF seqs
  <1>5. step \in [1 .. n -> [Seq(TextChars) -> Seq(TextChars)]]
    BY <1>3
  <1>6. <<>> \in Seq(TextChars)
    OBVIOUS
  <1> HIDE DEF step, n
  <1>7. PICK r \in [0 .. n -> Seq(TextChars)] : IsRun(r, n, <<>>, step)
    BY <1>1, <1>5, <1>6, StepsExist
  <1>8. \A i \in 1 .. n : r[i] = r[i - 1] \o seqs[i]
    <2> SUFFICES ASSUME NEW i \in 1 .. n PROVE r[i] = r[i - 1] \o seqs[i]
      OBVIOUS
    <2>1. i - 1 \in 0 .. n
      BY <1>1
    <2> QED
      BY <1>7, <2>1 DEF step, IsRun
  <1>9. r[n] = FlattenSeq(seqs)
    <2> DEFINE flat(f) == [i \in 1 .. n |-> IF i = 1 THEN seqs[i] ELSE f[i - 1] \o seqs[i]]
               flatten == CHOOSE f : f = flat(f)
               g == [i \in 1 .. n |-> r[i]]
    <2>1. CASE n = 0
      BY <1>4, <1>7, <2>1 DEF FlattenSeq, IsRun
    <2>2. CASE n # 0
      <3>1. FlattenSeq(seqs) = flatten[n]
        BY <1>4, <2>2 DEF FlattenSeq
      <3> HIDE DEF flatten
      <3>2. g = flat(g)
        <4>1. ASSUME NEW i \in 1 .. n
              PROVE  g[i] = IF i = 1 THEN seqs[i] ELSE g[i - 1] \o seqs[i]
          <5>1. CASE i = 1
            <6>1. r[1] = r[1 - 1] \o seqs[1] /\ 1 - 1 = 0
              BY <1>8, <5>1, 1 - 1 = 0
            <6>2. \A t \in Seq(TextChars) : <<>> \o t = t
              OBVIOUS
            <6> QED
              BY <1>3, <1>7, <5>1, <6>1, <6>2, ZenonT(40) DEF IsRun
          <5>2. CASE i # 1
            <6>1. i - 1 \in 1 .. n
              BY <1>1, <5>2
            <6> QED
              BY <1>8, <5>2, <6>1
          <5> QED
            BY <5>1, <5>2
        <4> QED
          BY <4>1
      <3>3. flatten = flat(flatten)
        BY <3>2 DEF flatten
      <3> DEFINE Good == {0} \cup {i \in 1 .. n : flatten[i] = r[i]}
      <3>4. ASSUME NEW k \in 1 .. n, k - 1 \in Good
            PROVE  k \in Good
        <4>1. flatten[k] = IF k = 1 THEN seqs[k] ELSE flatten[k - 1] \o seqs[k]
          BY <3>3
        <4>2. g[k] = IF k = 1 THEN seqs[k] ELSE g[k - 1] \o seqs[k]
          BY <3>2
        <4>3. k # 1 => k - 1 \in 1 .. n /\ flatten[k - 1] = r[k - 1] /\ g[k - 1] = r[k - 1]
          BY <1>1, <3>4
        <4> QED
          BY <4>1, <4>2, <4>3
      <3> HIDE DEF Good
      <3>5. \A k \in 1 .. n : k - 1 \in Good => k \in Good
        BY <3>4
      <3>6. 0 \in Good
        BY DEF Good
      <3>7. \A k \in 0 .. n : k \in Good
        BY <1>1, <3>5, <3>6, UpTo
      <3>8. n \in Good /\ n # 0
        BY <1>1, <2>2, <3>7
      <3> QED
        BY <3>1, <3>8 DEF Good
    <2> QED
      BY <2>1, <2>2
  <1>10. Netascii = FlattenSeq(seqs)
    BY DEF Netascii, seqs
  <1>11. PrefixesOf(r)
    BY <1>2, <1>7, <1>8, <1>9, <1>10 DEF PrefixesOf, n, IsRun
  <1> QED
    BY <1>11

\* The text after j characters begins the text after i.
Extends(prefix, i, j) ==
  /\ Len(prefix[j]) <= Len(prefix[i])
  /\ j < i => Len(prefix[j]) < Len(prefix[i])
  /\ \A k \in 1 .. Len(prefix[j]) : prefix[i][k] = prefix[j][k]

\* One character more makes the text longer, at its end.
LEMMA PrefixGrows ==
  ASSUME file \in Seq(Chars), NEW prefix, PrefixesOf(prefix), NEW i \in 1 .. Len(file)
  PROVE  /\ Len(prefix[i]) = Len(prefix[i - 1]) + Len(Converted(file[i]))
         /\ Len(prefix[i - 1]) < Len(prefix[i])
         /\ \A k \in 1 .. Len(prefix[i - 1]) : prefix[i][k] = prefix[i - 1][k]
         /\ \A k \in 1 .. Len(Converted(file[i])) :
              prefix[i][Len(prefix[i - 1]) + k] = Converted(file[i])[k]
  <1> DEFINE c == Converted(file[i])
             p == prefix[i - 1]
  <1>1. file[i] \in Chars /\ i - 1 \in 0 .. Len(file)
    OBVIOUS
  <1>2. c \in Seq(TextChars) /\ Len(c) \in 1 .. 2
    BY <1>1, ConvertedTyped
  <1>3. p \in Seq(TextChars) /\ prefix[i] = p \o c
    BY <1>1 DEF PrefixesOf
  <1> HIDE DEF c, p
  <1>4. /\ Len(p \o c) = Len(p) + Len(c) /\ Len(p) \in Nat /\ Len(c) \in Nat
        /\ \A k \in 1 .. Len(p) : (p \o c)[k] = p[k]
        /\ \A k \in 1 .. Len(c) : (p \o c)[Len(p) + k] = c[k]
    BY <1>2, <1>3
  <1>5. \A a, l : \A b \in 1 .. 2 : a \in Nat /\ l = a + b => a < l
    OBVIOUS
  <1>6. Len(p) < Len(p \o c)
    BY <1>2, <1>4, <1>5, Zenon
  <1> QED
    BY <1>3, <1>4, <1>6, Zenon DEF c, p

\* The text of a part of the file begins the text of more of it.
LEMMA PrefixesExtend ==
  ASSUME file \in Seq(Chars), NEW prefix, PrefixesOf(prefix), NEW i \in 0 .. Len(file),
         NEW j \in 0 .. i
  PROVE  Extends(prefix, i, j)
  <1> DEFINE n == Len(file)
             Good == {a \in 0 .. n : \A b \in 0 .. a : Extends(prefix, a, b)}
  <1>1. n \in Nat /\ \A a \in 0 .. n : Len(prefix[a]) \in Nat
    BY DEF PrefixesOf
  <1>2. 0 \in Good
    <2>1. \A b \in 0 .. 0 : b = 0
      OBVIOUS
    <2>2. Extends(prefix, 0, 0)
      BY <1>1 DEF Extends
    <2> QED
      BY <1>1, <2>1, <2>2
  <1>3. ASSUME NEW a \in 1 .. n, a - 1 \in Good
        PROVE  a \in Good
    <2>1. a \in Nat /\ a - 1 \in 0 .. n /\ a \in 0 .. n
      BY <1>1
    <2>2. /\ Len(prefix[a - 1]) < Len(prefix[a]) /\ Len(prefix[a - 1]) \in Nat /\ Len(prefix[a]) \in Nat
          /\ \A k \in 1 .. Len(prefix[a - 1]) : prefix[a][k] = prefix[a - 1][k]
      BY <1>1, <2>1, PrefixGrows
    <2>3. ASSUME NEW b \in 0 .. a
          PROVE  Extends(prefix, a, b)
      <3>1. CASE b = a
        BY <2>2, <3>1 DEF Extends
      <3>2. CASE b # a
        <4>1. b \in 0 .. a - 1 /\ b < a
          BY <2>1, <3>2
        <4>2. Extends(prefix, a - 1, b) /\ Len(prefix[b]) \in Nat
          BY <1>1, <1>3, <2>1, <4>1
        <4> QED
          BY <2>2, <4>1, <4>2, SMTT(30) DEF Extends
      <3> QED
        BY <3>1, <3>2
    <2> QED
      BY <2>1, <2>3
  <1> HIDE DEF Good, n
  <1>4. \A a \in 1 .. n : a - 1 \in Good => a \in Good
    BY <1>3
  <1>5. \A a \in 0 .. n : a \in Good
    BY <1>1, <1>2, <1>4, UpTo
  <1>6. i \in Good
    BY <1>5 DEF n
  <1> QED
    BY <1>6 DEF Good

\* Where the text of each character is.
LEMMA TextAt ==
  ASSUME file \in Seq(Chars), NEW prefix, PrefixesOf(prefix)
  PROVE  /\ Netascii \in Seq(TextChars)
         /\ Len(prefix[0]) = 0 /\ Len(prefix[Len(file)]) = Len(Netascii)
         /\ \A i \in 0 .. Len(file) : /\ Len(prefix[i]) \in Nat
                                      /\ Len(prefix[i]) <= Len(Netascii)
                                      /\ i < Len(file) => Len(prefix[i]) < Len(Netascii)
         /\ \A i \in 1 .. Len(file) :
              /\ Len(prefix[i]) = Len(prefix[i - 1]) + Len(Converted(file[i]))
              /\ \A k \in 1 .. Len(Converted(file[i])) :
                   Netascii[Len(prefix[i - 1]) + k] = Converted(file[i])[k]
  <1> DEFINE n == Len(file)
             text == Netascii
  <1>1. n \in Nat /\ text = prefix[n] /\ prefix[0] = <<>> /\ \A i \in 0 .. n : prefix[i] \in Seq(TextChars)
    BY DEF PrefixesOf
  <1> HIDE DEF text
  <1>2. n \in 0 .. n /\ text \in Seq(TextChars) /\ \A i \in 0 .. n : Len(prefix[i]) \in Nat
    BY <1>1
  <1>3. ASSUME NEW i \in 0 .. n
        PROVE  Extends(prefix, n, i)
    BY <1>2, PrefixesExtend
  <1>4. ASSUME NEW i \in 1 .. n
        PROVE  /\ Len(prefix[i]) = Len(prefix[i - 1]) + Len(Converted(file[i]))
               /\ \A k \in 1 .. Len(Converted(file[i])) :
                    text[Len(prefix[i - 1]) + k] = Converted(file[i])[k]
    <2>1. i \in 0 .. n /\ i - 1 \in 0 .. n /\ Len(prefix[i - 1]) \in Nat
      BY <1>1, <1>2
    <2>2. /\ Len(prefix[i]) = Len(prefix[i - 1]) + Len(Converted(file[i]))
          /\ \A k \in 1 .. Len(Converted(file[i])) :
               prefix[i][Len(prefix[i - 1]) + k] = Converted(file[i])[k]
      BY PrefixGrows
    <2>3. \A k \in 1 .. Len(prefix[i]) : text[k] = prefix[i][k]
      BY <1>1, <1>3, <2>1 DEF Extends
    <2>4. Len(Converted(file[i])) \in 1 .. 2
      <3>1. file[i] \in Chars
        OBVIOUS
      <3> QED
        BY <3>1, ConvertedTyped
    <2>5. ASSUME NEW k \in 1 .. Len(Converted(file[i]))
          PROVE  Len(prefix[i - 1]) + k \in 1 .. Len(prefix[i])
      <3>1. \A a, l : \A b \in 1 .. 2 : \A j \in 1 .. b :
              a \in Nat /\ l = a + b => a + j \in 1 .. l
        OBVIOUS
      <3> QED
        BY <2>1, <2>2, <2>4, <2>5, <3>1, Zenon
    <2>6. \A k \in 1 .. Len(Converted(file[i])) :
            text[Len(prefix[i - 1]) + k] = Converted(file[i])[k]
      BY <2>2, <2>3, <2>5
    <2> QED
      BY <2>2, <2>6
  <1> HIDE DEF n
  <1>5. \A i \in 0 .. n : Len(prefix[i]) <= Len(text) /\ (i < n => Len(prefix[i]) < Len(text))
    BY <1>1, <1>3 DEF Extends
  <1>6. Len(prefix[0]) = 0
    BY <1>1
  <1> QED
    BY <1>1, <1>2, <1>4, <1>5, <1>6 DEF n, text

-----------------------------------------------------------------------------
\* The reader in mid-block.
States == [head : 0 .. Len(file), newline : BOOLEAN, prevchar : TextChars, data : Seq(TextChars)]

\* One round of the loop.
ReadOne(s) ==
  IF s.newline THEN Second(s) ELSE IF EOF(s) THEN s ELSE First(s)

\* A round leaves the reader within the file.
LEMMA ReadOneTyped ==
  ASSUME file \in Seq(Chars), NEW s \in States
  PROVE  ReadOne(s) \in States
  <1>1. /\ s.head \in 0 .. Len(file) /\ s.newline \in BOOLEAN /\ s.prevchar \in TextChars
        /\ s.data \in Seq(TextChars)
    BY DEF States
  <1>2. \A c \in TextChars : Append(s.data, c) \in Seq(TextChars)
    BY <1>1
  <1>3. CASE s.newline
    <2> DEFINE c == IF s.prevchar = "LF" THEN "LF" ELSE "NUL"
    <2>1. Append(s.data, c) \in Seq(TextChars)
      BY <1>2 DEF TextChars
    <2>2. Second(s) = [s EXCEPT !.newline = FALSE, !.data = Append(s.data, c)]
      BY DEF Second
    <2> HIDE DEF c
    <2>3. Second(s) \in States
      BY <2>1, <2>2 DEF States
    <2> QED
      BY <1>3, <2>3 DEF ReadOne
  <1>4. CASE ~s.newline /\ ~EOF(s)
    <2> DEFINE c == file[s.head + 1]
    <2>1. s.head + 1 \in 1 .. Len(file) /\ s.head + 1 \in 0 .. Len(file)
      BY <1>1, <1>4 DEF EOF
    <2>2. c \in Chars
      BY <2>1
    <2>3. /\ c \in TextChars /\ Append(s.data, c) \in Seq(TextChars)
          /\ Append(s.data, "CR") \in Seq(TextChars)
      BY <1>2, <2>2 DEF Chars, TextChars
    <2>4. First(s) = IF c \in {"LF", "CR"}
                            THEN [s EXCEPT !.head = s.head + 1, !.newline = TRUE, !.prevchar = c,
                                           !.data = Append(s.data, "CR")]
                            ELSE [s EXCEPT !.head = s.head + 1, !.data = Append(s.data, c)]
      BY DEF First
    <2> HIDE DEF c
    <2>5. [s EXCEPT !.head = s.head + 1, !.newline = TRUE, !.prevchar = c,
                    !.data = Append(s.data, "CR")] \in States
      BY <2>1, <2>3 DEF States
    <2>6. [s EXCEPT !.head = s.head + 1, !.data = Append(s.data, c)] \in States
      BY <2>1, <2>3 DEF States
    <2> QED
      BY <1>4, <2>4, <2>5, <2>6 DEF ReadOne
  <1>5. CASE ~s.newline /\ EOF(s)
    BY <1>5 DEF ReadOne
  <1> QED
    BY <1>1, <1>3, <1>4, <1>5

\* The reader at the beginning of a block.
Start(position) ==
  [head |-> position, newline |-> newline, prevchar |-> prevchar, data |-> <<>>]

\* Fill goes round the loop as often as a block has characters.
LEMMA FillRun ==
  ASSUME file \in Seq(Chars), newline \in BOOLEAN, prevchar \in TextChars,
         Size \in Nat, NEW position \in 0 .. Len(file)
  PROVE  \E r \in [0 .. Size -> States] :
           /\ r[0] = Start(position)
           /\ \A i \in 1 .. Size : r[i] = ReadOne(r[i - 1])
           /\ Fill(position) = r[Size]
  <1> DEFINE step == [i \in 1 .. Size |-> [s \in States |-> ReadOne(s)]]
             rounds(f) == [i \in 0 .. Size |-> IF i = 0 THEN Start(position) ELSE ReadOne(f[i - 1])]
             r == CHOOSE r : r = rounds(r)
  <1>1. Start(position) \in States
    <2>1. <<>> \in Seq(TextChars)
      OBVIOUS
    <2> QED
      BY <2>1 DEF Start, States
  <1>2. step \in [1 .. Size -> [States -> States]]
    BY ReadOneTyped
  <1>3. PICK g \in [0 .. Size -> States] : IsRun(g, Size, Start(position), step)
    <2> HIDE DEF step
    <2> QED
      BY <1>1, <1>2, StepsExist
  <1>4. g[0] = Start(position) /\ \A i \in 1 .. Size : g[i] = ReadOne(g[i - 1])
    <2>1. \A i \in 1 .. Size : i - 1 \in 0 .. Size
      OBVIOUS
    <2> QED
      BY <1>3, <2>1 DEF IsRun
  <1>5. g = rounds(g)
    BY <1>4
  <1>6. Fill(position) = r[Size]
    BY DEF Fill, ReadOne, Start
  <1>7. r = rounds(r)
    <2> HIDE DEF rounds
    <2> QED
      BY <1>5
  <1> HIDE DEF r
  <1> DEFINE Good == {i \in 0 .. Size : r[i] = g[i]}
  <1>8. 0 \in Good
    BY <1>4, <1>7
  <1>9. ASSUME NEW k \in 1 .. Size, k - 1 \in Good
        PROVE  k \in Good
    <2>1. r[k] = ReadOne(r[k - 1]) /\ g[k] = ReadOne(g[k - 1]) /\ k \in 0 .. Size
      BY <1>4, <1>7
    <2> QED
      BY <1>9, <2>1
  <1> HIDE DEF Good
  <1>10. \A k \in 1 .. Size : k - 1 \in Good => k \in Good
    BY <1>9
  <1>11. \A k \in 0 .. Size : k \in Good
    BY <1>8, <1>10, UpTo
  <1>12. Size \in Good
    BY <1>11
  <1> QED
    BY <1>4, <1>6, <1>12 DEF Good

-----------------------------------------------------------------------------
\* Where in the text a reader is whose next character is at h, and which may
\* still have the second half of the one before to give.
Where(prefix, h, half) == Len(prefix[h]) - (IF half THEN 1 ELSE 0)

\* It may only have that if it read a line end there.
Halfway(h, half, c) == half => h > 0 /\ file[h] = c /\ c \in {"LF", "CR"}

\* One round gives the next character of the text, if there is one.
LEMMA ReadsNext ==
  ASSUME file \in Seq(Chars), NEW prefix, PrefixesOf(prefix), NEW s \in States,
         Halfway(s.head, s.newline, s.prevchar)
  PROVE  LET t == ReadOne(s)
             here == Where(prefix, s.head, s.newline)
             there == Where(prefix, t.head, t.newline)
         IN /\ Halfway(t.head, t.newline, t.prevchar)
            /\ here \in Nat /\ here <= Len(Netascii)
            /\ \/ here = Len(Netascii) /\ t = s
               \/ /\ here < Len(Netascii) /\ there = here + 1
                  /\ t.data = Append(s.data, Netascii[here + 1])
  <1> DEFINE n == Len(file)
             text == Netascii
             O(i) == Len(prefix[i])
             t == ReadOne(s)
             h == s.head
             Goal == /\ Halfway(t.head, t.newline, t.prevchar)
                     /\ Where(prefix, h, s.newline) \in Nat
                     /\ Where(prefix, h, s.newline) <= Len(text)
                     /\ \/ Where(prefix, h, s.newline) = Len(text) /\ t = s
                        \/ /\ Where(prefix, h, s.newline) < Len(text)
                           /\ Where(prefix, t.head, t.newline) = Where(prefix, h, s.newline) + 1
                           /\ t.data = Append(s.data, text[Where(prefix, h, s.newline) + 1])
  <1>1. /\ h \in 0 .. n /\ n \in Nat /\ s.newline \in BOOLEAN /\ s.data \in Seq(TextChars)
        /\ s.prevchar \in TextChars
    BY DEF States
  <1>2. /\ O(0) = 0 /\ O(n) = Len(text) /\ Len(text) \in Nat
        /\ \A i \in 0 .. n : O(i) \in Nat /\ O(i) <= Len(text) /\ (i < n => O(i) < Len(text))
        /\ \A i \in 1 .. n :
             /\ O(i) = O(i - 1) + Len(Converted(file[i]))
             /\ \A k \in 1 .. Len(Converted(file[i])) :
                  text[O(i - 1) + k] = Converted(file[i])[k]
    <2>1. Len(text) \in Nat
      BY TextAt
    <2> QED
      BY <2>1, TextAt
  <1>3. /\ Converted("LF") = <<"CR", "LF">>
        /\ Converted("CR") = <<"CR", "NUL">>
        /\ Converted("x") = <<"x">>
    BY DEF Converted
  <1>4. \A i \in 1 .. n : file[i] = "LF" \/ file[i] = "CR" \/ file[i] = "x"
    <2> SUFFICES ASSUME NEW i \in 1 .. n PROVE file[i] \in Chars
      BY DEF Chars
    <2> QED
      OBVIOUS
  \* What a character of the file has become.
  <1>5. ASSUME NEW i \in 1 .. n
        PROVE  /\ i - 1 \in 0 .. n /\ i \in 0 .. n /\ O(i - 1) \in Nat /\ O(i) \in Nat
               /\ file[i] \in {"LF", "CR"} =>
                    /\ O(i) = O(i - 1) + 2 /\ text[O(i - 1) + 1] = "CR"
                    /\ text[O(i - 1) + 2] = IF file[i] = "LF" THEN "LF" ELSE "NUL"
               /\ file[i] \notin {"LF", "CR"} => O(i) = O(i - 1) + 1 /\ text[O(i - 1) + 1] = file[i]
    <2>1. i - 1 \in 0 .. n /\ i \in 0 .. n /\ O(i - 1) \in Nat /\ O(i) \in Nat
      BY <1>1, <1>2
    <2>2. CASE file[i] = "LF"
      <3>1. Len(<<"CR", "LF">>) = 2 /\ <<"CR", "LF">>[1] = "CR" /\ <<"CR", "LF">>[2] = "LF"
            /\ 1 \in 1 .. 2 /\ 2 \in 1 .. 2
        OBVIOUS
      <3> HIDE DEF O, text
      <3> QED
        BY <1>2, <1>3, <2>1, <2>2, <3>1, ZenonT(40)
    <2>3. CASE file[i] = "CR"
      <3>1. Len(<<"CR", "NUL">>) = 2 /\ <<"CR", "NUL">>[1] = "CR" /\ <<"CR", "NUL">>[2] = "NUL"
            /\ 1 \in 1 .. 2 /\ 2 \in 1 .. 2
        OBVIOUS
      <3> HIDE DEF O, text
      <3> QED
        BY <1>2, <1>3, <2>1, <2>3, <3>1, ZenonT(40)
    <2>4. CASE file[i] = "x"
      <3>1. Len(<<"x">>) = 1 /\ <<"x">>[1] = "x" /\ 1 \in 1 .. 1
        OBVIOUS
      <3> HIDE DEF O, text
      <3> QED
        BY <1>2, <1>3, <2>1, <2>4, <3>1
    <2> QED
      BY <1>4, <2>2, <2>3, <2>4
  <1> HIDE DEF text, n, t
  <1>6. CASE s.newline
    <2>1. h \in 1 .. n /\ file[h] = s.prevchar /\ file[h] \in {"LF", "CR"}
      BY <1>1, <1>6 DEF Halfway
    <2> DEFINE c == IF s.prevchar = "LF" THEN "LF" ELSE "NUL"
    <2>2. t = [s EXCEPT !.newline = FALSE, !.data = Append(s.data, c)]
      BY <1>6 DEF ReadOne, Second, t
    <2>3. O(h) \in Nat /\ O(h - 1) \in Nat /\ O(h) = O(h - 1) + 2 /\ text[O(h - 1) + 2] = c /\ O(h) <= Len(text)
      BY <1>1, <1>2, <1>5, <2>1
    <2> HIDE DEF c
    <2>4. t.head = h /\ t.newline = FALSE /\ t.data = Append(s.data, c)
      BY <2>2 DEF States
    <2> HIDE DEF h, O
    <2>5. /\ Where(prefix, h, s.newline) = O(h) - 1
          /\ Where(prefix, t.head, t.newline) = O(h)
          /\ Halfway(t.head, t.newline, t.prevchar)
      <3>1. Where(prefix, h, s.newline) = O(h) - 1
        BY <1>6 DEF Where, O
      <3>2. Where(prefix, t.head, t.newline) = O(h) - 0
        BY <2>4 DEF Where, O
      <3>3. Halfway(t.head, t.newline, t.prevchar)
        BY <2>4 DEF Halfway
      <3> QED
        BY <2>3, <3>1, <3>2, <3>3
    <2>6. O(h) - 1 \in Nat /\ O(h) - 1 < Len(text) /\ O(h) - 1 + 1 = O(h) /\ O(h) - 1 + 1 = O(h - 1) + 2
          /\ O(h) - 1 <= Len(text)
      BY <1>2, <2>3
    <2>7. t.data = Append(s.data, text[O(h) - 1 + 1])
      BY <2>3, <2>4, <2>6
    <2>8. Goal
      BY <2>5, <2>6, <2>7
    <2> QED
      BY <2>8 DEF t, text, h
  <1>7. CASE ~s.newline /\ h = n
    <2>1. t = s
      BY <1>7 DEF ReadOne, EOF, t, n
    <2>2. Where(prefix, h, s.newline) = Len(text)
      BY <1>1, <1>2, <1>7 DEF Where
    <2>3. Goal
      BY <1>2, <2>1, <2>2 DEF Halfway
    <2> QED
      BY <2>3 DEF t, text, h
  <1>8. CASE ~s.newline /\ h # n
    <2> DEFINE i == h + 1
               c == file[i]
    <2>1. i \in 1 .. n /\ i - 1 = h /\ i > 0 /\ h < n
      BY <1>1, <1>8
    <2>2. t = IF c \in {"LF", "CR"}
              THEN [s EXCEPT !.head = i, !.newline = TRUE, !.prevchar = c, !.data = Append(s.data, "CR")]
              ELSE [s EXCEPT !.head = i, !.data = Append(s.data, c)]
      BY <1>8 DEF ReadOne, First, EOF, t, n
    <2>3. /\ O(h) \in Nat /\ O(i) \in Nat /\ O(h) < Len(text)
          /\ c \in {"LF", "CR"} => O(i) = O(h) + 2 /\ text[O(h) + 1] = "CR"
          /\ c \notin {"LF", "CR"} => O(i) = O(h) + 1 /\ text[O(h) + 1] = c
      <3>1. h \in 0 .. n
        BY <1>1
      <3> HIDE DEF i, O, h
      <3>2. O(i - 1) = O(h)
        BY <2>1
      <3> QED
        BY <1>2, <1>5, <2>1, <3>1, <3>2
    <2>4. /\ t.head = i
          /\ c \in {"LF", "CR"} => t.newline = TRUE /\ t.prevchar = c /\ t.data = Append(s.data, "CR")
          /\ c \notin {"LF", "CR"} => t.newline = s.newline /\ t.data = Append(s.data, c)
      <3> HIDE DEF i, c
      <3> QED
        BY <2>2 DEF States
    <2>5. t.data = Append(s.data, text[O(h) + 1])
      BY <2>3, <2>4
    <2>6. Halfway(t.head, t.newline, t.prevchar)
      BY <1>8, <2>1, <2>4 DEF Halfway
    <2> HIDE DEF h, O, i, c
    <2>7. Where(prefix, h, s.newline) = O(h)
      BY <1>8, <2>3 DEF Where, O
    <2>8. Where(prefix, t.head, t.newline) = O(h) + 1
      <3>1. CASE c \in {"LF", "CR"}
        <4>1. Where(prefix, t.head, t.newline) = O(i) - 1
          BY <2>4, <3>1 DEF Where, O
        <4> QED
          BY <2>3, <3>1, <4>1
      <3>2. CASE c \notin {"LF", "CR"}
        <4>1. Where(prefix, t.head, t.newline) = O(i) - 0
          BY <1>8, <2>4, <3>2 DEF Where, O
        <4> QED
          BY <2>3, <3>2, <4>1
      <3> QED
        BY <3>1, <3>2
    <2>9. Goal
      BY <1>2, <2>3, <2>5, <2>6, <2>7, <2>8
    <2> QED
      BY <2>9 DEF t, text, h
  <1> QED
    BY <1>1, <1>6, <1>7, <1>8

\* What a reader that began at here has given when it is at there.
Given(data, here, there) ==
  /\ Len(data) = there - here /\ here <= there
  /\ \A k \in 1 .. there - here : data[k] = Netascii[here + k]

\* One character more.
LEMMA GivenMore ==
  ASSUME NEW data \in Seq(TextChars), NEW here \in Nat, NEW there \in Nat, Given(data, here, there),
         Netascii[there + 1] \in TextChars
  PROVE  Given(Append(data, Netascii[there + 1]), here, there + 1)
  <1> DEFINE c == Netascii[there + 1]
             n == Len(data)
             more == Append(data, c)
  <1>1. n \in Nat /\ n = there - here /\ here <= there
    BY DEF Given
  <1>2. Len(more) = n + 1 /\ more[n + 1] = c /\ \A k \in 1 .. n : more[k] = data[k]
    OBVIOUS
  <1>3. (there + 1) - here = n + 1 /\ here + (n + 1) = there + 1 /\ here <= there + 1
    BY <1>1
  <1>4. \A k \in 1 .. n + 1 : k \in 1 .. n \/ k = n + 1
    BY <1>1
  <1> HIDE DEF n, more
  <1>5. \A k \in 1 .. n : data[k] = Netascii[here + k]
    BY <1>1 DEF Given
  <1>6. \A k \in 1 .. n + 1 : more[k] = Netascii[here + k]
    BY <1>2, <1>3, <1>4, <1>5
  <1> QED
    BY <1>2, <1>3, <1>6 DEF Given, more

\* A block holds the characters from where the reader is to the end of the
\* block or of the text.
LEMMA FillRight ==
  ASSUME file \in Seq(Chars), newline \in BOOLEAN, prevchar \in TextChars, Size \in Nat,
         NEW prefix, PrefixesOf(prefix), NEW position \in 0 .. Len(file),
         Halfway(position, newline, prevchar)
  PROVE  LET s == Fill(position)
             here == Where(prefix, position, newline)
             there == Where(prefix, s.head, s.newline)
         IN /\ s \in States /\ Halfway(s.head, s.newline, s.prevchar)
            /\ here \in Nat /\ here <= Len(Netascii) /\ there \in Nat
            /\ there = IF here + Size > Len(Netascii) THEN Len(Netascii) ELSE here + Size
            /\ Given(s.data, here, there)
  <1> DEFINE text == Netascii
             here == Where(prefix, position, newline)
  <1>1. PICK r \in [0 .. Size -> States] :
          /\ r[0] = Start(position)
          /\ \A i \in 1 .. Size : r[i] = ReadOne(r[i - 1])
          /\ Fill(position) = r[Size]
    BY FillRun
  <1> DEFINE at(i) == Where(prefix, r[i].head, r[i].newline)
             Right(i) == /\ Halfway(r[i].head, r[i].newline, r[i].prevchar)
                         /\ at(i) \in Nat
                         /\ at(i) = here + i \/ (at(i) = Len(text) /\ Len(text) <= here + i)
                         /\ Given(r[i].data, here, at(i))
             Good == {i \in 0 .. Size : Right(i)}
  <1>2. /\ text \in Seq(TextChars) /\ Len(text) \in Nat
        /\ \A k \in 1 .. Len(text) : text[k] \in TextChars
    <2>1. text \in Seq(TextChars)
      BY TextAt
    <2> HIDE DEF text
    <2> QED
      BY <2>1
  <1>3. /\ r[0] \in States /\ r[0].head = position /\ r[0].newline = newline
        /\ r[0].prevchar = prevchar /\ r[0].data = <<>>
    BY <1>1 DEF Start
  <1>4. here \in Nat /\ here <= Len(text)
    <2>1. Halfway(r[0].head, r[0].newline, r[0].prevchar)
      BY <1>3
    <2>2. Where(prefix, r[0].head, r[0].newline) \in Nat
          /\ Where(prefix, r[0].head, r[0].newline) <= Len(text)
      BY <1>3, <2>1, ReadsNext
    <2> QED
      BY <1>3, <2>2
  <1> HIDE DEF text, here
  <1>5. 0 \in Good
    <2>1. at(0) = here
      BY <1>3 DEF here
    <2>2. Given(<<>>, here, here)
      <3>1. Len(<<>>) = 0 /\ 1 .. 0 = {} /\ here - here = 0
        BY <1>4
      <3> QED
        BY <1>4, <3>1 DEF Given
    <2> HIDE DEF at
    <2>3. Right(0)
      BY <1>3, <1>4, <2>1, <2>2
    <2> QED
      BY <2>3
  <1>6. ASSUME NEW k \in 1 .. Size, k - 1 \in Good
        PROVE  k \in Good
    <2> DEFINE s == r[k - 1]
               was == at(k - 1)
               now == at(k)
    <2>1. k \in Nat /\ k - 1 \in 0 .. Size /\ k \in 0 .. Size /\ k - 1 \in Nat
      OBVIOUS
    <2>2. s \in States /\ r[k] = ReadOne(s) /\ s.data \in Seq(TextChars)
      BY <1>1, <2>1 DEF States
    <2>3. /\ Halfway(s.head, s.newline, s.prevchar) /\ was \in Nat
          /\ was = here + (k - 1) \/ (was = Len(text) /\ Len(text) <= here + (k - 1))
          /\ Given(s.data, here, was)
      BY <1>6
    <2>4. /\ Halfway(r[k].head, r[k].newline, r[k].prevchar)
          /\ was <= Len(text)
          /\ \/ was = Len(text) /\ r[k] = s
             \/ was < Len(text) /\ now = was + 1 /\ r[k].data = Append(s.data, text[was + 1])
      BY <2>2, <2>3, ReadsNext DEF text
    <2>5. CASE was = Len(text) /\ r[k] = s
      <3>1. now = was
        BY <2>5
      <3> HIDE DEF at, was, now
      <3>2. Len(text) <= here + k
        BY <1>2, <1>4, <2>1, <2>3, <2>5
      <3>3. Right(k)
        BY <2>3, <2>4, <2>5, <3>1, <3>2 DEF now
      <3> QED
        BY <2>1, <3>3
    <2>6. CASE was < Len(text) /\ now = was + 1 /\ r[k].data = Append(s.data, text[was + 1])
      <3> HIDE DEF at, was, now
      <3>1. was = here + (k - 1) /\ now = here + k
        BY <1>2, <1>4, <2>1, <2>3, <2>6
      <3>2. text[was + 1] \in TextChars
        <4>1. was + 1 \in 1 .. Len(text)
          BY <1>2, <2>3, <2>6
        <4> QED
          BY <1>2, <4>1
      <3>3. Given(Append(s.data, text[was + 1]), here, was + 1)
        BY <1>4, <2>2, <2>3, <3>2, GivenMore DEF text
      <3>4. now \in Nat
        BY <2>3, <2>6
      <3>5. Right(k)
        BY <2>4, <2>6, <3>1, <3>3, <3>4 DEF now
      <3> QED
        BY <2>1, <3>5
    <2> QED
      BY <2>4, <2>5, <2>6
  <1> HIDE DEF Good
  <1>7. \A k \in 1 .. Size : k - 1 \in Good => k \in Good
    BY <1>6
  <1>8. \A k \in 0 .. Size : k \in Good
    BY <1>5, <1>7, UpTo
  <1>9. Right(Size)
    BY <1>8 DEF Good
  <1>10. r[Size] \in States
    BY <1>1
  <1>11. at(Size) <= Len(text)
    BY <1>9, <1>10, ReadsNext DEF text
  <1>12. at(Size) = IF here + Size > Len(text) THEN Len(text) ELSE here + Size
    <2> HIDE DEF at
    <2> QED
      BY <1>2, <1>4, <1>9, <1>11
  <1> QED
    BY <1>1, <1>4, <1>9, <1>10, <1>12 DEF here, text

\* What was given from the beginning of a block is the block.
LEMMA GivenIsBlock ==
  ASSUME Netascii \in Seq(TextChars), NEW data \in Seq(TextChars), NEW n \in Nat, Size \in Nat,
         NEW there \in Nat, n * Size <= Len(Netascii), Given(data, n * Size, there),
         there = IF n * Size + Size > Len(Netascii) THEN Len(Netascii) ELSE n * Size + Size
  PROVE  data = BlockOf(Netascii, n)
  <1> DEFINE text == Netascii
             here == n * Size
             block == SubSeq(text, here + 1, there)
  <1>1. here \in Nat /\ (n + 1) * Size = here + Size
    OBVIOUS
  <1>2. BlockOf(text, n) = block
    BY <1>1 DEF BlockOf
  <1>3. text \in Seq(TextChars) /\ Len(text) \in Nat
    OBVIOUS
  <1>4. /\ Len(data) = there - here /\ here <= there
        /\ \A k \in 1 .. there - here : data[k] = text[here + k]
    BY DEF Given
  <1> HIDE DEF here, text
  <1>5. there <= Len(text)
    BY <1>1, <1>3 DEF here, text
  <1>6. here + 1 \in Nat /\ 1 <= here + 1 /\ there - (here + 1) + 1 = there - here
    BY <1>1
  <1>7. Len(block) = there - here
    BY <1>1, <1>3, <1>4, <1>5, <1>6
  <1>8. \A k \in 1 .. there - here : block[k] = text[here + k]
    <2> SUFFICES ASSUME NEW k \in 1 .. there - here PROVE block[k] = text[here + k]
      OBVIOUS
    <2>1. (here + 1) + k - 1 = here + k
      BY <1>1
    <2>2. block[k] = text[(here + 1) + k - 1]
      BY <1>1, <1>3, <1>4, <1>5, <1>6
    <2> QED
      BY <2>1, <2>2
  <1>9. block \in Seq(TextChars)
    <2> SUFFICES ASSUME NEW k \in here + 1 .. there PROVE text[k] \in TextChars
      BY <1>1, <1>3
    <2>1. k \in 1 .. Len(text)
      BY <1>1, <1>3, <1>5
    <2> QED
      BY <1>3, <2>1
  <1> HIDE DEF block
  <1>10. data = block
    <2>1. Len(data) = Len(block)
      BY <1>4, <1>7
    <2>2. \A k \in 1 .. Len(data) : data[k] = block[k]
      BY <1>4, <1>8
    <2> QED
      BY <1>9, <2>1, <2>2, SeqEqual
  <1> QED
    BY <1>2, <1>10 DEF text

-----------------------------------------------------------------------------
(***************************************************************************)
(* The reader's invariant.                                                 *)
(***************************************************************************)

\* No block was read again with another character in mid-conversion.
Consistent(reads) ==
  \A j, k \in DOMAIN reads : reads[j].number = reads[k].number => reads[j].temp = reads[k].temp

Reads == [number : Nat, temp : TextChars \cup {"none"}, data : Seq(TextChars)]

ReaderTyped ==
  /\ file \in Seq(Chars) /\ head \in 0 .. Len(file) /\ newline \in BOOLEAN /\ prevchar \in TextChars
  /\ prev_file_pos \in 0 .. Len(file) /\ prev_block_number \in Nat
  /\ blocks \in Seq(Reads)

\* A reader that is at the beginning of block n.
AtBlock(n, h, half, c) ==
  /\ Halfway(h, half, c)
  /\ \A prefix : PrefixesOf(prefix) => Where(prefix, h, half) = n * Size

\* As long as the reads are consistent the reader is where the block that it
\* has read ends, and knows where it began.
InStep ==
  Consistent(blocks) =>
    /\ Halfway(head, newline, prevchar)
    /\ blocks = <<>> => AtBlock(0, prev_file_pos, newline, prevchar)
    /\ blocks # <<>> =>
         /\ \A prefix : PrefixesOf(prefix) =>
              Where(prefix, head, newline)
                = IF (prev_block_number + 1) * Size > Len(Netascii) THEN Len(Netascii)
                  ELSE (prev_block_number + 1) * Size
         /\ \E j \in DOMAIN blocks :
              /\ blocks[j].number = prev_block_number
              /\ AtBlock(prev_block_number, prev_file_pos, blocks[j].temp # "none", blocks[j].temp)

ReaderInv == ReaderTyped /\ InStep /\ Exact

\* With nothing in mid-conversion the other half of *temp does not matter.
LEMMA AtBlockTemp ==
  ASSUME ReaderTyped, NEW n, NEW h
  PROVE  AtBlock(n, h, newline, prevchar) <=> AtBlock(n, h, Temp # "none", Temp)
  <1>1. prevchar # "none" /\ newline \in BOOLEAN
    BY DEF ReaderTyped, TextChars
  <1>2. CASE newline
    <2>1. Temp = prevchar /\ (Temp # "none") = newline
      BY <1>1, <1>2 DEF Temp
    <2> QED
      BY <2>1
  <1>3. CASE ~newline
    <2>1. (Temp # "none") = newline /\ newline = FALSE
      BY <1>1, <1>3 DEF Temp
    <2> QED
      BY <2>1 DEF AtBlock, Halfway
  <1> QED
    BY <1>2, <1>3

\* A block is read, for the first time or again.
LEMMA ConvertKeeps ==
  ASSUME Size \in Nat, ReaderInv, NEW n \in Nat, NEW position \in 0 .. Len(file),
         Convert(n, position),
         Consistent(blocks') => AtBlock(n, position, newline, prevchar)
  PROVE  ReaderInv'
  <1> DEFINE s == Fill(position)
             read == [number |-> n, temp |-> Temp, data |-> s.data]
             text == Netascii
             last == Len(blocks')
  <1>1. ReaderTyped /\ InStep /\ Exact
    BY DEF ReaderInv
  <1>2. /\ head' = s.head /\ newline' = s.newline /\ prevchar' = s.prevchar
        /\ prev_block_number' = n /\ prev_file_pos' = position
        /\ blocks' = Append(blocks, read) /\ file' = file
    BY DEF Convert
  <1>3. text' = text
    BY <1>2 DEF Netascii
  <1>4. \A prefix : PrefixesOf(prefix)' <=> PrefixesOf(prefix)
    BY <1>2, <1>3 DEF PrefixesOf
  <1>5. s \in States
    <2>1. PICK r \in [0 .. Size -> States] : Fill(position) = r[Size]
      BY <1>1, FillRun DEF ReaderTyped
    <2> QED
      BY <2>1
  <1> HIDE DEF s, text
  <1>6. read \in Reads
    <2>1. Temp \in TextChars \cup {"none"}
      BY <1>1 DEF Temp, ReaderTyped
    <2>2. s.data \in Seq(TextChars)
      BY <1>5 DEF States
    <2> QED
      BY <2>1, <2>2 DEF Reads
  <1>7. /\ read.number = n /\ read.temp = Temp /\ read.data = s.data
    OBVIOUS
  <1> HIDE DEF read
  <1>8. /\ blocks' \in Seq(Reads) /\ last = Len(blocks) + 1 /\ last \in Nat
        /\ DOMAIN blocks = 1 .. last - 1 /\ DOMAIN blocks' = 1 .. last
        /\ blocks'[last] = read /\ \A i \in 1 .. last - 1 : blocks'[i] = blocks[i]
        /\ blocks' # <<>>
    BY <1>1, <1>2, <1>6 DEF ReaderTyped
  <1> HIDE DEF last
  <1>9. ReaderTyped'
    BY <1>1, <1>2, <1>5, <1>8 DEF ReaderTyped, States
  <1>10. ASSUME Consistent(blocks')
         PROVE  /\ Halfway(s.head, s.newline, s.prevchar)
                /\ \A prefix : PrefixesOf(prefix) =>
                     Where(prefix, s.head, s.newline) = IF (n + 1) * Size > Len(text) THEN Len(text)
                                                        ELSE (n + 1) * Size
                /\ s.data = BlockOf(text, n)
    <2>1. AtBlock(n, position, newline, prevchar)
      BY <1>10
    <2>2. ASSUME NEW prefix, PrefixesOf(prefix)
          PROVE  /\ Halfway(s.head, s.newline, s.prevchar)
                 /\ n * Size <= Len(text)
                 /\ Where(prefix, s.head, s.newline) \in Nat
                 /\ Where(prefix, s.head, s.newline)
                      = IF n * Size + Size > Len(text) THEN Len(text) ELSE n * Size + Size
                 /\ Given(s.data, n * Size, Where(prefix, s.head, s.newline))
      <3>1. Where(prefix, position, newline) = n * Size /\ Halfway(position, newline, prevchar)
        BY <2>1, <2>2 DEF AtBlock
      <3> QED
        BY <1>1, <2>2, <3>1, FillRight DEF ReaderTyped, s, text
    <2>3. PICK prefix : PrefixesOf(prefix)
      BY <1>1, PrefixesExist DEF ReaderTyped
    <2>4. text \in Seq(TextChars) /\ s.data \in Seq(TextChars)
      BY <1>1, <1>5, <2>3, TextAt DEF ReaderTyped, States, text
    <2>5. s.data = BlockOf(text, n)
      BY <2>2, <2>3, <2>4, GivenIsBlock DEF text
    <2>6. (n + 1) * Size = n * Size + Size
      OBVIOUS
    <2> QED
      BY <2>2, <2>3, <2>5, <2>6
  <1>11. InStep'
    <2> SUFFICES ASSUME Consistent(blocks')
                 PROVE  /\ Halfway(head, newline, prevchar)'
                        /\ (\A prefix : PrefixesOf(prefix) =>
                              Where(prefix, head, newline)
                                = IF (prev_block_number + 1) * Size > Len(Netascii)
                                  THEN Len(Netascii) ELSE (prev_block_number + 1) * Size)'
                        /\ (\E j \in DOMAIN blocks :
                              /\ blocks[j].number = prev_block_number
                              /\ AtBlock(prev_block_number, prev_file_pos,
                                         blocks[j].temp # "none", blocks[j].temp))'
      BY <1>8 DEF InStep
    <2>1. Halfway(head, newline, prevchar)'
      BY <1>2, <1>10 DEF Halfway
    <2>2. (\A prefix : PrefixesOf(prefix) =>
             Where(prefix, head, newline)
               = IF (prev_block_number + 1) * Size > Len(Netascii)
                 THEN Len(Netascii) ELSE (prev_block_number + 1) * Size)'
      <3> SUFFICES ASSUME NEW prefix, PrefixesOf(prefix)'
                   PROVE  Where(prefix, head', newline')
                            = IF (n + 1) * Size > Len(text) THEN Len(text) ELSE (n + 1) * Size
        BY <1>2, <1>3 DEF text, Where
      <3> QED
        BY <1>2, <1>4, <1>10
    <2>3. AtBlock(n, position, read.temp # "none", read.temp)
      BY <1>1, <1>7, AtBlockTemp
    <2>4. PICK c : c = read.temp
      OBVIOUS
    <2>5. PICK m : m = last
      OBVIOUS
    <2>6. m \in DOMAIN blocks' /\ blocks'[m].number = n /\ blocks'[m].temp = c
      BY <1>7, <1>8, <2>4, <2>5
    <2>7. Halfway(position, c # "none", c)
          /\ \A prefix : PrefixesOf(prefix) => Where(prefix, position, c # "none") = n * Size
      BY <2>3, <2>4 DEF AtBlock
    <2>8. Halfway(position, c # "none", c)'
      BY <1>2, <2>7 DEF Halfway
    <2>9. (\A prefix : PrefixesOf(prefix) => Where(prefix, position, c # "none") = n * Size)'
      BY <1>4, <2>7 DEF Where
    <2>10. AtBlock(n, position, c # "none", c)'
      BY <2>8, <2>9 DEF AtBlock
    <2>11. (AtBlock(prev_block_number, prev_file_pos, blocks[m].temp # "none", blocks[m].temp))'
      BY <1>2, <2>6, <2>10
    <2>12. (\E j \in DOMAIN blocks :
              /\ blocks[j].number = prev_block_number
              /\ AtBlock(prev_block_number, prev_file_pos,
                         blocks[j].temp # "none", blocks[j].temp))'
      BY <1>2, <2>6, <2>11
    <2> QED
      BY <2>1, <2>2, <2>12
  <1>12. Exact'
    <2> SUFFICES ASSUME NEW i \in 1 .. last,
                        \A j, k \in 1 .. i :
                          blocks'[j].number = blocks'[k].number => blocks'[j].temp = blocks'[k].temp
                 PROVE  blocks'[i].data = BlockOf(text, blocks'[i].number)
      BY <1>3, <1>8 DEF Exact, BlockOf, text
    <2>1. CASE i = last
      BY <1>7, <1>8, <1>10, <2>1 DEF Consistent
    <2>2. CASE i # last
      <3>1. i \in 1 .. last - 1 /\ \A j \in 1 .. i : j \in 1 .. last - 1
        BY <1>8, <2>2
      <3>2. \A j, k \in 1 .. i : blocks[j].number = blocks[k].number => blocks[j].temp = blocks[k].temp
        BY <1>8, <3>1
      <3>3. blocks[i].data = BlockOf(text, blocks[i].number)
        BY <1>1, <1>8, <3>1, <3>2 DEF Exact, text
      <3> QED
        BY <1>8, <3>1, <3>3
    <2> QED
      BY <2>1, <2>2
  <1> QED
    BY <1>9, <1>11, <1>12 DEF ReaderInv

\* Reading on does not make inconsistent reads consistent.
LEMMA ConsistentBefore ==
  ASSUME ReaderTyped, NEW read \in Reads, Consistent(Append(blocks, read))
  PROVE  /\ Consistent(blocks)
         /\ \A j \in DOMAIN blocks : blocks[j].number = read.number => blocks[j].temp = read.temp
  <1> DEFINE more == Append(blocks, read)
  <1>1. /\ Len(blocks) \in Nat /\ DOMAIN blocks = 1 .. Len(blocks) /\ DOMAIN more = 1 .. Len(blocks) + 1
        /\ more[Len(blocks) + 1] = read /\ \A i \in 1 .. Len(blocks) : more[i] = blocks[i]
    BY DEF ReaderTyped
  <1> HIDE DEF more
  <1>2. \A i \in 1 .. Len(blocks) : i \in DOMAIN more
    BY <1>1
  <1>3. Len(blocks) + 1 \in DOMAIN more
    BY <1>1
  <1>4. Consistent(more)
    BY DEF more
  <1> QED
    BY <1>1, <1>2, <1>3, <1>4 DEF Consistent

\* What Convert appends.
LEMMA ConvertReads ==
  ASSUME Size \in Nat, ReaderTyped, NEW n \in Nat, NEW position \in 0 .. Len(file),
         Convert(n, position)
  PROVE  \E read \in Reads : blocks' = Append(blocks, read) /\ read.number = n /\ read.temp = Temp
  <1> DEFINE s == Fill(position)
             read == [number |-> n, temp |-> Temp, data |-> s.data]
  <1>1. PICK r \in [0 .. Size -> States] : s = r[Size]
    BY FillRun DEF ReaderTyped
  <1>2. s.data \in Seq(TextChars)
    BY <1>1 DEF States
  <1>3. blocks' = Append(blocks, read)
    BY DEF Convert
  <1>4. Temp \in TextChars \cup {"none"}
    BY DEF Temp, ReaderTyped
  <1> HIDE DEF s
  <1>5. read \in Reads /\ read.number = n /\ read.temp = Temp
    BY <1>2, <1>4 DEF Reads
  <1> QED
    BY <1>3, <1>5

\* A reader begins in step.
LEMMA ReaderStarts ==
  ASSUME MaxLength \in Nat, Size \in Nat, ReaderInit
  PROVE  ReaderInv
  <1>1. /\ file \in UNION {[1 .. n -> Chars] : n \in 0 .. MaxLength}
        /\ head = 0 /\ newline = FALSE /\ prevchar = "NUL"
        /\ prev_block_number = 0 /\ prev_file_pos = 0 /\ blocks = <<>>
    BY DEF ReaderInit, Chars
  <1>2. file \in Seq(Chars) /\ Len(file) \in Nat
    <2>1. PICK n \in 0 .. MaxLength : file \in [1 .. n -> Chars]
      BY <1>1
    <2>2. file \in Seq(Chars)
      BY <2>1
    <2> QED
      BY <2>2
  <1>3. ReaderTyped
    <2>1. 0 \in 0 .. Len(file) /\ <<>> \in Seq(Reads) /\ "NUL" \in TextChars
      BY <1>2 DEF TextChars
    <2> QED
      BY <1>1, <1>2, <2>1 DEF ReaderTyped
  <1>4. Halfway(0, FALSE, "NUL")
    BY DEF Halfway
  <1>5. ASSUME NEW prefix, PrefixesOf(prefix)
        PROVE  Where(prefix, 0, FALSE) = 0
    <2>1. Len(prefix[0]) = 0
      BY <1>2, <1>5, TextAt
    <2> QED
      BY <2>1 DEF Where
  <1>6. AtBlock(0, prev_file_pos, newline, prevchar)
    <2>1. 0 * Size = 0
      OBVIOUS
    <2> QED
      BY <1>1, <1>4, <1>5, <2>1 DEF AtBlock
  <1>7. InStep
    BY <1>1, <1>4, <1>6 DEF InStep
  <1>8. Exact
    BY <1>1 DEF Exact
  <1> QED
    BY <1>3, <1>7, <1>8 DEF ReaderInv

\* A reader that has not come to the end of the file is at the end of a whole
\* block.
LEMMA AtNextBlock ==
  ASSUME Size \in Nat, ReaderInv, Consistent(blocks), blocks # <<>>, head # Len(file)
  PROVE  AtBlock(prev_block_number + 1, head, newline, prevchar)
  <1>1. ReaderTyped /\ InStep
    BY DEF ReaderInv
  <1>2. /\ file \in Seq(Chars) /\ head \in 0 .. Len(file) /\ Len(file) \in Nat /\ newline \in BOOLEAN
        /\ prev_block_number \in Nat
    BY <1>1 DEF ReaderTyped
  <1>3. ASSUME NEW prefix, PrefixesOf(prefix)
        PROVE  Where(prefix, head, newline) = (prev_block_number + 1) * Size
    <2> DEFINE here == Where(prefix, head, newline)
               p == Len(prefix[head])
               end == (prev_block_number + 1) * Size
               n == Len(Netascii)
    <2>1. head < Len(file)
      BY <1>2
    <2>2. p \in Nat /\ p < n /\ n \in Nat
      <3>1. p \in Nat /\ p < n /\ Netascii \in Seq(TextChars)
        BY <1>2, <1>3, <2>1, TextAt
      <3> QED
        BY <3>1
    <2>3. here = IF end > n THEN n ELSE end
      BY <1>1, <1>3 DEF InStep
    <2>4. end \in Nat
      BY <1>2
    <2>5. here = p \/ here = p - 1
      <3>1. CASE newline
        BY <3>1 DEF Where
      <3>2. CASE ~newline
        <4>1. here = p - 0
          BY <3>2 DEF Where
        <4> QED
          BY <2>2, <4>1
      <3> QED
        BY <1>2, <3>1, <3>2
    <2> HIDE DEF here, p, end, n
    <2>6. here = end
      BY <2>2, <2>3, <2>4, <2>5
    <2> QED
      BY <2>6 DEF here, end
  <1>4. Halfway(head, newline, prevchar)
    BY <1>1 DEF InStep
  <1> QED
    BY <1>3, <1>4 DEF AtBlock

\* Every block of a netascii transfer has the text that its number stands for,
\* wherever the line ends fall, for every file and every size of block.
THEOREM BlocksExact == ReaderSpec => []Exact
  <1> USE ReadAssumption
  <1>1. ReaderInit => ReaderInv
    BY ReaderStarts
  <1>2. ReaderInv /\ [ReaderNext]_readerVars => ReaderInv'
    <2> SUFFICES ASSUME ReaderInv, [ReaderNext]_readerVars PROVE ReaderInv'
      OBVIOUS
    <2>1. ReaderTyped /\ InStep
      BY DEF ReaderInv
    <2>2. /\ prev_file_pos \in 0 .. Len(file) /\ head \in 0 .. Len(file)
          /\ prev_block_number \in Nat /\ prev_block_number + 1 \in Nat
      BY <2>1 DEF ReaderTyped
    <2>3. ASSUME NEW n \in Nat, NEW position \in 0 .. Len(file), Convert(n, position),
                 Consistent(blocks')
          PROVE  /\ Consistent(blocks)
                 /\ \A j \in DOMAIN blocks : blocks[j].number = n => blocks[j].temp = Temp
      BY <2>1, <2>3, ConvertReads, ConsistentBefore, ZenonT(40)
    <2>4. CASE ReadFirst
      <3>1. Convert(0, prev_file_pos) /\ blocks = <<>>
        BY <2>4 DEF ReadFirst
      <3>2. Consistent(blocks') => AtBlock(0, prev_file_pos, newline, prevchar)
        BY <2>1, <2>2, <2>3, <3>1 DEF InStep
      <3> QED
        BY <2>2, <3>1, <3>2, ConvertKeeps
    <2>5. CASE ReadNext
      <3>1. Convert(prev_block_number + 1, head) /\ blocks # <<>> /\ head # Len(file)
        BY <2>5 DEF ReadNext
      <3>2. Consistent(blocks') => AtBlock(prev_block_number + 1, head, newline, prevchar)
        BY <2>2, <2>3, <3>1, AtNextBlock
      <3> QED
        BY <2>2, <3>1, <3>2, ConvertKeeps
    <2>6. CASE ReadAgain
      <3>1. Convert(prev_block_number, prev_file_pos) /\ blocks # <<>>
        BY <2>6 DEF ReadAgain
      <3>2. ASSUME Consistent(blocks')
            PROVE  AtBlock(prev_block_number, prev_file_pos, newline, prevchar)
        <4>1. /\ Consistent(blocks)
              /\ \A j \in DOMAIN blocks : blocks[j].number = prev_block_number => blocks[j].temp = Temp
          BY <2>2, <2>3, <3>1, <3>2
        <4>2. PICK j \in DOMAIN blocks :
                /\ blocks[j].number = prev_block_number
                /\ AtBlock(prev_block_number, prev_file_pos, blocks[j].temp # "none", blocks[j].temp)
          BY <2>1, <3>1, <4>1 DEF InStep
        <4>3. blocks[j].temp = Temp
          BY <4>1, <4>2
        <4> QED
          BY <2>1, <4>2, <4>3, AtBlockTemp
      <3> QED
        BY <2>2, <3>1, <3>2, ConvertKeeps
    <2>7. CASE UNCHANGED readerVars
      <3>1. /\ file' = file /\ head' = head /\ newline' = newline /\ prevchar' = prevchar
            /\ prev_block_number' = prev_block_number /\ prev_file_pos' = prev_file_pos
            /\ blocks' = blocks
        BY <2>7 DEF readerVars
      <3>2. Netascii' = Netascii
        BY <3>1 DEF Netascii
      <3>3. \A prefix : PrefixesOf(prefix)' <=> PrefixesOf(prefix)
        BY <3>1, <3>2 DEF PrefixesOf
      <3>4. ReaderTyped'
        BY <2>1, <3>1 DEF ReaderTyped
      <3>5. Exact'
        BY <3>1, <3>2 DEF ReaderInv, Exact, BlockOf
      <3>6. InStep'
        BY <2>1, <3>1, <3>2, <3>3 DEF InStep, AtBlock, Halfway, Where
      <3> QED
        BY <3>4, <3>5, <3>6 DEF ReaderInv
    <2>8. CASE ReaderOver
      BY <2>7, <2>8 DEF ReaderOver
    <2> QED
      BY <2>4, <2>5, <2>6, <2>7, <2>8 DEF ReaderNext
  <1>3. ReaderInv => Exact
    BY DEF ReaderInv
  <1> QED
    BY <1>1, <1>2, <1>3, PTL DEF ReaderSpec

=============================================================================

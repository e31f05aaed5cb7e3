---------------------------- MODULE MapLinkProofs ----------------------------
(***************************************************************************)
(* Theorems about MapLink, for every width of the id and every lifetime of *)
(* a datagram below it, every size of a datagram and every number of       *)
(* packets.                                                                *)
(***************************************************************************)
EXTENDS MapLink, TLAPS, SequenceTheorems

\* What the network still holds counts back to the server's id, and only the
\* datagram built last is younger than one step.
NetworkAges ==
    /\ \A d \in toServer :
          behind <= d.age /\ d.ack + d.age \in {server_packet_id, server_packet_id + IdWidth}
    /\ \A d \in toClient :
          /\ d.id + d.age \in {server_packet_id, server_packet_id + IdWidth}
          /\ d.age = 0 => d = server_packet_data

BuiltLast == server_packet_data.id = server_packet_id /\ server_packet_data.age = 0

LinkInv ==
    /\ TypeOK
    /\ BuiltLast
    /\ NetworkAges
    /\ OneOpenDatagram
    /\ NothingLostOrRepeated

Open == IF last = server_packet_id THEN <<>> ELSE server_packet_data.batch
Numbered(n) == [i \in 1 .. n |-> i]

-----------------------------------------------------------------------------
(* Arithmetic of the wrapping id.                                          *)

LEMMA NextId ==
    ASSUME NEW x \in Ids
    PROVE  /\ (x + 1) % IdWidth = IF x + 1 < IdWidth THEN x + 1 ELSE 0
           /\ (x + 1) % IdWidth \in Ids
           /\ (x + 1) % IdWidth # x
<1>1. CASE x + 1 < IdWidth
  BY <1>1, WidthAssumption DEF Ids
<1>2. CASE x + 1 = IdWidth
  BY <1>2, WidthAssumption DEF Ids
<1> QED
  BY <1>1, <1>2, WidthAssumption DEF Ids

\* A datagram that counted back to the server's id still does one id later.
LEMMA CountsOn ==
    ASSUME NEW id \in Ids, NEW x \in Ids, NEW a \in Ages, a + 1 < MaxAge,
           x + a \in {id, id + IdWidth}
    PROVE  x + (a + 1) \in {(id + 1) % IdWidth, ((id + 1) % IdWidth) + IdWidth}
<1> DEFINE y == (id + 1) % IdWidth
<1>1. y = IF id + 1 < IdWidth THEN id + 1 ELSE 0
  BY NextId
<1> HIDE DEF y
<1>2. x + (a + 1) \in {y, y + IdWidth}
  BY <1>1, WidthAssumption DEF Ids, Ages
<1> QED
  BY <1>2 DEF y

\* A datagram with the server's own id is of no age.
LEMMA OwnIdIsYoung ==
    ASSUME NEW id \in Ids, NEW a \in Ages, id + a \in {id, id + IdWidth}
    PROVE  a = 0
BY WidthAssumption DEF Ids, Ages

\* No datagram lives long enough for its id to come round.
LEMMA NextIdIsDead ==
    ASSUME NEW id \in Ids, NEW a \in Ages,
           ((id + 1) % IdWidth) + a \in {id, id + IdWidth}
    PROVE  FALSE
<1> DEFINE y == (id + 1) % IdWidth
<1>1. y = IF id + 1 < IdWidth THEN id + 1 ELSE 0
  BY NextId
<1>2. y + a \in {id, id + IdWidth}
  OBVIOUS
<1> HIDE DEF y
<1> QED
  BY <1>1, <1>2, WidthAssumption DEF Ids, Ages

-----------------------------------------------------------------------------
(* Sequences.                                                              *)

LEMMA Split ==
    ASSUME NEW S, NEW s \in Seq(S), NEW n \in 0 .. Len(s)
    PROVE  /\ SubSeq(s, 1, n) \in Seq(S)
           /\ SubSeq(s, n + 1, Len(s)) \in Seq(S)
           /\ SubSeq(s, 1, n) \o SubSeq(s, n + 1, Len(s)) = s
<1>1. SubSeq(s, 1, n) \in Seq(S) /\ SubSeq(s, n + 1, Len(s)) \in Seq(S)
  <2>1. Len(s) \in Nat /\ \A i \in 1 .. Len(s) : s[i] \in S
    BY ElementOfSeq, LenProperties
  <2> QED
    BY <2>1, SubSeqProperties
<1>2. SubSeq(s, 1, n) \o SubSeq(s, n + 1, Len(s)) = SubSeq(s, 1, Len(s))
  <2>1. Len(s) \in Nat
    BY LenProperties
  <2>2. 1 \in 1 .. Len(s) + 1 /\ n \in 1 - 1 .. Len(s) /\ Len(s) \in n .. Len(s)
    BY <2>1
  <2> QED
    BY <2>2, ConcatAdjacentSubSeq
<1>3. SubSeq(s, 1, Len(s)) = s
  BY SubSeqFull
<1> QED
  BY <1>1, <1>2, <1>3

LEMMA Associative ==
    \A s, t, u \in Seq(Packets) : s \o t \o u = s \o (t \o u)
<1> TAKE s, t, u \in Seq(Packets)
<1> QED
  BY ConcatAssociative

LEMMA NumberedAppend ==
    ASSUME NEW n \in Nat
    PROVE  Numbered(n) \o <<n + 1>> = Numbered(n + 1)
<1>1. Numbered(n) \in Seq(Nat) /\ Len(Numbered(n)) = n
  BY DEF Numbered
<1>2. Numbered(n + 1) \in Seq(Nat) /\ Len(Numbered(n + 1)) = n + 1
  BY DEF Numbered
<1>3. <<n + 1>> \in Seq(Nat) /\ Len(<<n + 1>>) = 1 /\ <<n + 1>>[1] = n + 1
  OBVIOUS
<1> DEFINE c == Numbered(n) \o <<n + 1>>
<1>4. c \in Seq(Nat) /\ Len(c) = n + 1
  BY <1>1, <1>3, ConcatProperties
<1>5. \A i \in 1 .. n + 1 : c[i] = Numbered(n + 1)[i]
  <2> TAKE i \in 1 .. n + 1
  <2>1. c[i] = IF i <= n THEN Numbered(n)[i] ELSE <<n + 1>>[i - n]
    BY <1>1, <1>3, ConcatProperties
  <2>2. CASE i <= n
    BY <2>1, <2>2 DEF Numbered
  <2>3. CASE i = n + 1
    BY <2>1, <2>3, <1>3 DEF Numbered
  <2> QED
    BY <2>2, <2>3, i <= n \/ i = n + 1
<1> HIDE DEF c
<1>6. c = Numbered(n + 1)
  BY <1>2, <1>4, <1>5, SeqEqual
<1> QED
  BY <1>6 DEF c

\* What precedes the rest of the numbered packets is numbered too.
LEMMA NumberedPrefix ==
    ASSUME NEW n \in Nat, NEW S, NEW s \in Seq(S), NEW t \in Seq(S), s \o t = Numbered(n)
    PROVE  Len(s) <= n /\ s = Numbered(Len(s))
<1>1. Len(Numbered(n)) = n
  BY DEF Numbered
<1>2. Len(s) \in Nat /\ Len(t) \in Nat /\ Len(s) + Len(t) = n
  BY <1>1, ConcatProperties, LenProperties
<1>3. \A i \in 1 .. Len(s) : s[i] = i
  <2> TAKE i \in 1 .. Len(s)
  <2>1. (s \o t)[i] = s[i]
    BY <1>2, ConcatProperties
  <2>2. Numbered(n)[i] = i
    BY <1>2 DEF Numbered
  <2> QED
    BY <2>1, <2>2
<1>4. Numbered(Len(s)) \in Seq(Nat) /\ Len(Numbered(Len(s))) = Len(s)
  BY <1>2 DEF Numbered
<1>5. s = Numbered(Len(s))
  BY <1>2, <1>3 DEF Numbered
<1> QED
  BY <1>2, <1>5

-----------------------------------------------------------------------------
(* The parts of the invariant.                                             *)

LEMMA TypeFacts ==
    ASSUME TypeOK
    PROVE  /\ PacketList \in Seq(Packets) /\ got \in Seq(Packets)
           /\ server_packet_data.batch \in Seq(Packets)
           /\ Open \in Seq(Packets)
           /\ Taken \in 0 .. Len(PacketList)
<1>1. PacketList \in Seq(Packets) /\ got \in Seq(Packets)
  BY DEF TypeOK
<1>2. server_packet_data.batch \in Seq(Packets)
  BY DEF TypeOK, ServerDatagram
<1>3. Open \in Seq(Packets)
  BY <1>2, EmptySeq DEF Open
<1>4. Taken \in 0 .. Len(PacketList)
  BY <1>1, LenProperties, WidthAssumption DEF Taken
<1> QED
  BY <1>1, <1>2, <1>3, <1>4

LEMMA AllPackets ==
    NothingLostOrRepeated <=> got \o Open \o PacketList = Numbered(pushed)
BY DEF NothingLostOrRepeated, Open, Numbered

\* Ageing keeps only datagrams that are still alive, one step older.
LEMMA AgedToServer ==
    ASSUME toServer \subseteq ClientDatagram
    PROVE  \A d \in Aged(toServer) :
              \E e \in toServer : /\ e.age + 1 < MaxAge
                                  /\ d = [ack |-> e.ack, age |-> e.age + 1]
<1> TAKE d \in Aged(toServer)
<1>1. PICK e \in toServer : e.age + 1 < MaxAge /\ d = [e EXCEPT !.age = @ + 1]
  BY DEF Aged
<1>2. e \in ClientDatagram
  OBVIOUS
<1>3. d = [ack |-> e.ack, age |-> e.age + 1]
  BY <1>1, <1>2 DEF ClientDatagram
<1> QED
  BY <1>1, <1>3

LEMMA AgedToClient ==
    ASSUME toClient \subseteq ServerDatagram
    PROVE  \A d \in Aged(toClient) :
              \E e \in toClient :
                 /\ e.age + 1 < MaxAge
                 /\ d = [id |-> e.id, batch |-> e.batch, age |-> e.age + 1]
<1> TAKE d \in Aged(toClient)
<1>1. PICK e \in toClient : e.age + 1 < MaxAge /\ d = [e EXCEPT !.age = @ + 1]
  BY DEF Aged
<1>2. e \in ServerDatagram
  OBVIOUS
<1>3. d = [id |-> e.id, batch |-> e.batch, age |-> e.age + 1]
  BY <1>1, <1>2 DEF ServerDatagram
<1> QED
  BY <1>1, <1>3

-----------------------------------------------------------------------------
(* One lemma per action.                                                   *)

LEMMA InitInv == Init => LinkInv
<1> SUFFICES ASSUME Init PROVE LinkInv
  OBVIOUS
<1>1. TypeOK
  BY EmptySeq, WidthAssumption DEF Init, TypeOK, Ids, Ages, ServerDatagram
<1>2. BuiltLast /\ NetworkAges
  BY DEF Init, BuiltLast, NetworkAges
<1>3. OneOpenDatagram
  BY DEF Init, OneOpenDatagram
<1>4. NothingLostOrRepeated
  <2>1. <<>> \o <<>> \o <<>> = <<>>
    BY EmptySeq, ConcatEmptySeq
  <2>2. [i \in 1 .. 0 |-> i] = <<>>
    OBVIOUS
  <2> QED
    BY <2>1, <2>2, AllPackets DEF Init, Open, Numbered
<1> QED
  BY <1>1, <1>2, <1>3, <1>4 DEF LinkInv

LEMMA PushInv == LinkInv /\ Push => LinkInv'
<1> SUFFICES ASSUME LinkInv, Push PROVE LinkInv'
  OBVIOUS
<1> USE DEF LinkInv
<1>1. pushed \in Nat /\ pushed + 1 \in Packets
  BY WidthAssumption DEF TypeOK, Push, Packets
<1>2. TypeOK'
  <2>1. PacketList' \in Seq(Packets)
    BY <1>1, AppendProperties DEF Push, TypeOK
  <2> QED
    BY <2>1, <1>1, WidthAssumption DEF Push, TypeOK, Packets
<1>3. BuiltLast' /\ NetworkAges' /\ OneOpenDatagram'
  BY DEF Push, BuiltLast, NetworkAges, OneOpenDatagram
<1>4. NothingLostOrRepeated'
  <2>1. Open' = Open /\ got' = got
    BY DEF Push, Open
  <2>2. PacketList' = PacketList \o <<pushed + 1>>
    BY <1>1, TypeFacts, AppendIsConcat DEF Push
  <2>3. <<pushed + 1>> \in Seq(Packets) /\ got \o Open \in Seq(Packets)
    BY <1>1, TypeFacts, ConcatProperties
  <2>4. got \o Open \o (PacketList \o <<pushed + 1>>)
           = got \o Open \o PacketList \o <<pushed + 1>>
    <3>1. PICK a, b : a = got \o Open /\ b = <<pushed + 1>>
      OBVIOUS
    <3>2. a \in Seq(Packets) /\ b \in Seq(Packets) /\ PacketList \in Seq(Packets)
      BY <2>3, <3>1, TypeFacts
    <3>3. a \o PacketList \o b = a \o (PacketList \o b)
      BY <3>2, Associative
    <3> QED
      BY <3>1, <3>3
  <2>5. got' \o Open' \o PacketList' = Numbered(pushed) \o <<pushed + 1>>
    BY <2>1, <2>2, <2>4, AllPackets
  <2>6. got' \o Open' \o PacketList' = Numbered(pushed')
    BY <2>5, <1>1, NumberedAppend DEF Push
  <2> QED
    BY <2>6 DEF NothingLostOrRepeated, Open, Numbered
<1> QED
  BY <1>2, <1>3, <1>4

\* An acknowledgement of the last datagram shows that the client has it.
LEMMA AcknowledgedMeansRead ==
    ASSUME LinkInv, NEW d \in toServer, Acknowledged(d)
    PROVE  d.age = 0 /\ behind = 0 /\ last = server_packet_id /\ Open = <<>>
<1>1. d.ack \in Ids /\ d.age \in Ages
  BY DEF LinkInv, TypeOK, ClientDatagram
<1>2. behind <= d.age /\ d.ack + d.age \in {server_packet_id, server_packet_id + IdWidth}
  BY DEF LinkInv, NetworkAges
<1>3. d.age = 0
  BY <1>1, <1>2, OwnIdIsYoung DEF Acknowledged
<1>4. behind = 0
  BY <1>2, <1>3 DEF LinkInv, TypeOK
<1> QED
  BY <1>3, <1>4 DEF LinkInv, OneOpenDatagram, Open

LEMMA BuildInv ==
    ASSUME LinkInv, NEW d \in toServer, Acknowledged(d), Build,
           UNCHANGED <<last, pushed, got>>
    PROVE  LinkInv'
<1> USE DEF LinkInv
<1> DEFINE built == [id |-> (server_packet_id + 1) % IdWidth,
                     batch |-> SubSeq(PacketList, 1, Taken), age |-> 0]
<1>1. /\ server_packet_id' = (server_packet_id + 1) % IdWidth
      /\ PacketList' = SubSeq(PacketList, Taken + 1, Len(PacketList))
      /\ server_packet_data' = built
      /\ toClient' = Aged(toClient) \cup {built}
      /\ toServer' = Aged(toServer)
      /\ behind' = behind + 1
      /\ last' = last /\ pushed' = pushed /\ got' = got
  BY DEF Build
<1>2. behind = 0 /\ last = server_packet_id /\ Open = <<>>
  BY AcknowledgedMeansRead
<1>3. /\ SubSeq(PacketList, 1, Taken) \in Seq(Packets)
      /\ SubSeq(PacketList, Taken + 1, Len(PacketList)) \in Seq(Packets)
      /\ SubSeq(PacketList, 1, Taken) \o SubSeq(PacketList, Taken + 1, Len(PacketList))
            = PacketList
  BY TypeFacts, Split
<1>4. server_packet_id' \in Ids /\ server_packet_id' # server_packet_id
  BY <1>1, NextId DEF TypeOK
<1>5. built \in ServerDatagram
  BY <1>1, <1>3, <1>4, WidthAssumption DEF ServerDatagram, Ages
<1>6. \A e \in toServer' :
         /\ e \in ClientDatagram
         /\ 1 <= e.age
         /\ e.ack + e.age \in {server_packet_id', server_packet_id' + IdWidth}
  <2> TAKE e \in toServer'
  <2>1. PICK f \in toServer : f.age + 1 < MaxAge /\ e = [ack |-> f.ack, age |-> f.age + 1]
    BY <1>1, AgedToServer DEF TypeOK
  <2>2. f.ack \in Ids /\ f.age \in Ages
    BY DEF TypeOK, ClientDatagram
  <2>3. f.ack + f.age \in {server_packet_id, server_packet_id + IdWidth}
    BY DEF NetworkAges
  <2>4. f.age + 1 \in Ages /\ 1 <= f.age + 1
    BY <2>1, <2>2, WidthAssumption DEF Ages
  <2>5. f.ack + (f.age + 1) \in {server_packet_id', server_packet_id' + IdWidth}
    BY <1>1, <2>1, <2>2, <2>3, CountsOn DEF TypeOK
  <2> QED
    BY <2>1, <2>2, <2>4, <2>5 DEF ClientDatagram
<1>7. \A e \in toClient' :
         /\ e \in ServerDatagram
         /\ e.id + e.age \in {server_packet_id', server_packet_id' + IdWidth}
         /\ e.age = 0 => e = server_packet_data'
  <2> TAKE e \in toClient'
  <2>1. CASE e = built
    BY <1>1, <1>4, <1>5, <2>1, WidthAssumption DEF Ids
  <2>2. CASE e \in Aged(toClient)
    <3>1. PICK f \in toClient : /\ f.age + 1 < MaxAge
                                /\ e = [id |-> f.id, batch |-> f.batch, age |-> f.age + 1]
      BY <2>2, AgedToClient DEF TypeOK
    <3>2. f.id \in Ids /\ f.age \in Ages /\ f.batch \in Seq(Packets)
      BY DEF TypeOK, ServerDatagram
    <3>3. f.id + f.age \in {server_packet_id, server_packet_id + IdWidth}
      BY DEF NetworkAges
    <3>4. f.age + 1 \in Ages /\ f.age + 1 # 0
      BY <3>1, <3>2, WidthAssumption DEF Ages
    <3>5. f.id + (f.age + 1) \in {server_packet_id', server_packet_id' + IdWidth}
      BY <1>1, <3>1, <3>2, <3>3, CountsOn DEF TypeOK
    <3> QED
      BY <3>1, <3>2, <3>4, <3>5 DEF ServerDatagram
  <2> QED
    BY <1>1, <2>1, <2>2
<1>8. TypeOK'
  <2>1. toServer' \subseteq ClientDatagram /\ toClient' \subseteq ServerDatagram
    BY <1>6, <1>7
  <2>2. PacketList' \in Seq(Packets) /\ server_packet_data' \in ServerDatagram
    BY <1>1, <1>3, <1>5
  <2> QED
    BY <1>1, <1>2, <1>4, <2>1, <2>2 DEF TypeOK
<1>9. BuiltLast' /\ NetworkAges'
  BY <1>1, <1>2, <1>6, <1>7 DEF BuiltLast, NetworkAges
<1>10. OneOpenDatagram'
  BY <1>1, <1>2, <1>4 DEF OneOpenDatagram
<1>11. NothingLostOrRepeated'
  <2>1. Open' = SubSeq(PacketList, 1, Taken)
    BY <1>1, <1>2, <1>4 DEF Open
  <2>2. got \o Open = got
    BY <1>2, TypeFacts, ConcatEmptySeq
  <2>3. got' \o Open' \o PacketList' = got \o PacketList
    <3> DEFINE a == SubSeq(PacketList, 1, Taken)
               b == SubSeq(PacketList, Taken + 1, Len(PacketList))
    <3>1. got \in Seq(Packets)
      BY TypeFacts
    <3>2. a \in Seq(Packets) /\ b \in Seq(Packets) /\ a \o b = PacketList
      BY <1>3
    <3>3. got' = got /\ Open' = a /\ PacketList' = b
      BY <1>1, <2>1
    <3> HIDE DEF a, b
    <3>4. (got \o a) \o b = got \o (a \o b)
      BY <3>1, <3>2, Associative
    <3> QED
      BY <3>2, <3>3, <3>4
  <2>4. got' \o Open' \o PacketList' = Numbered(pushed')
    BY <1>1, <2>2, <2>3, AllPackets
  <2> QED
    BY <2>4 DEF NothingLostOrRepeated, Open, Numbered
<1> QED
  BY <1>8, <1>9, <1>10, <1>11

LEMMA ResendInv ==
    ASSUME LinkInv, Resend, UNCHANGED <<last, pushed, got>>
    PROVE  LinkInv'
<1> USE DEF LinkInv
<1>1. TypeOK'
  BY DEF Resend, TypeOK
<1>2. BuiltLast' /\ OneOpenDatagram' /\ NothingLostOrRepeated'
  BY DEF Resend, BuiltLast, OneOpenDatagram, NothingLostOrRepeated
<1>3. NetworkAges'
  <2>1. server_packet_id + 0 = server_packet_id
    BY DEF TypeOK, Ids
  <2> QED
    BY <2>1 DEF Resend, NetworkAges, BuiltLast
<1> QED
  BY <1>1, <1>2, <1>3

LEMMA PollInv == LinkInv /\ Poll => LinkInv'
<1> SUFFICES ASSUME LinkInv, Poll PROVE LinkInv'
  OBVIOUS
<1> USE DEF LinkInv
<1> DEFINE poll == [ack |-> last, age |-> behind]
<1>1. poll \in ClientDatagram
  BY WidthAssumption DEF TypeOK, ClientDatagram, Ages
<1>2. last + behind \in {server_packet_id, server_packet_id + IdWidth}
  <2>1. CASE behind = 0
    BY <2>1 DEF OneOpenDatagram, TypeOK, Ids
  <2>2. CASE behind = 1
    <3>1. server_packet_id = IF last + 1 < IdWidth THEN last + 1 ELSE 0
      BY <2>2, NextId DEF OneOpenDatagram, TypeOK
    <3> QED
      BY <2>2, <3>1, WidthAssumption DEF TypeOK, Ids
  <2> QED
    BY <2>1, <2>2 DEF TypeOK
<1>3. TypeOK'
  BY <1>1 DEF Poll, TypeOK
<1>4. BuiltLast' /\ OneOpenDatagram' /\ NothingLostOrRepeated'
  BY DEF Poll, BuiltLast, OneOpenDatagram, NothingLostOrRepeated
<1>5. NetworkAges'
  BY <1>2 DEF Poll, NetworkAges, TypeOK
<1> QED
  BY <1>3, <1>4, <1>5

\* The client can only accept the datagram the server built last, and only while
\* that one is open.
LEMMA AcceptsTheOpenOne ==
    ASSUME LinkInv, NEW d \in toClient, d.id = (last + 1) % IdWidth
    PROVE  /\ behind = 1 /\ d = server_packet_data /\ d.age = 0
           /\ d.id = server_packet_id /\ Open = d.batch
<1>1. last \in Ids /\ d.age \in Ages
  BY DEF LinkInv, TypeOK, ServerDatagram
<1>2. d.id + d.age \in {server_packet_id, server_packet_id + IdWidth}
  BY DEF LinkInv, NetworkAges
<1>3. behind # 0
  <2>1. SUFFICES ASSUME behind = 0 PROVE FALSE
    OBVIOUS
  <2>2. last = server_packet_id
    BY <2>1 DEF LinkInv, OneOpenDatagram
  <2> QED
    BY <1>1, <1>2, <2>2, NextIdIsDead
<1>4. behind = 1 /\ server_packet_id = d.id /\ last # server_packet_id
  BY <1>1, <1>3, NextId DEF LinkInv, TypeOK, OneOpenDatagram
<1>5. d.age = 0
  BY <1>1, <1>2, <1>4, OwnIdIsYoung DEF LinkInv, TypeOK
<1>6. d = server_packet_data
  BY <1>5 DEF LinkInv, NetworkAges
<1> QED
  BY <1>4, <1>5, <1>6 DEF Open

LEMMA AcceptInv ==
    ASSUME LinkInv, NEW d \in toClient, Accept(d)
    PROVE  LinkInv'
<1> USE DEF LinkInv
<1>1. /\ behind = 1 /\ d = server_packet_data /\ d.age = 0
      /\ d.id = server_packet_id /\ Open = d.batch
  BY AcceptsTheOpenOne DEF Accept
<1>2. /\ last' = server_packet_id /\ behind' = 0 /\ got' = got \o Open
      /\ server_packet_id' = server_packet_id
      /\ UNCHANGED <<PacketList, server_packet_data, toServer, toClient, pushed>>
  BY <1>1 DEF Accept
<1>3. TypeOK'
  <2>1. got' \in Seq(Packets)
    BY <1>2, TypeFacts, ConcatProperties
  <2> QED
    BY <1>2, <2>1 DEF TypeOK
<1>4. BuiltLast' /\ OneOpenDatagram'
  BY <1>2 DEF BuiltLast, OneOpenDatagram
<1>5. NetworkAges'
  <2>1. \A e \in toServer : 0 <= e.age
    BY DEF TypeOK, ClientDatagram, Ages
  <2> QED
    BY <1>2, <2>1 DEF NetworkAges
<1>6. NothingLostOrRepeated'
  <2>1. Open' = <<>>
    BY <1>2 DEF Open
  <2>2. got' \o Open' = got \o Open
    BY <1>2, <2>1, TypeFacts, ConcatProperties, ConcatEmptySeq
  <2>3. got' \o Open' \o PacketList' = Numbered(pushed')
    BY <1>2, <2>2, AllPackets
  <2> QED
    BY <2>3 DEF NothingLostOrRepeated, Open, Numbered
<1> QED
  BY <1>3, <1>4, <1>5, <1>6

LEMMA LoseInv == LinkInv /\ Lose => LinkInv'
<1> SUFFICES ASSUME LinkInv, Lose PROVE LinkInv'
  OBVIOUS
<1>1. toServer' \subseteq toServer /\ toClient' \subseteq toClient
  BY DEF Lose
<1>2. UNCHANGED <<PacketList, server_packet_id, server_packet_data, last, behind,
                  pushed, got>>
  BY DEF Lose
<1> QED
  BY <1>1, <1>2 DEF LinkInv, TypeOK, BuiltLast, NetworkAges, OneOpenDatagram,
                    NothingLostOrRepeated

LEMMA NextInv == LinkInv /\ [Next]_vars => LinkInv'
<1> SUFFICES ASSUME LinkInv, [Next]_vars PROVE LinkInv'
  OBVIOUS
<1>1. CASE Push
  BY <1>1, PushInv
<1>2. ASSUME NEW d \in toServer, Serve(d) PROVE LinkInv'
  <2>1. CASE Acknowledged(d)
    BY <1>2, <2>1, BuildInv DEF Serve
  <2>2. CASE ~ Acknowledged(d)
    BY <1>2, <2>2, ResendInv DEF Serve
  <2> QED
    BY <2>1, <2>2
<1>3. CASE Poll
  BY <1>3, PollInv
<1>4. ASSUME NEW d \in toClient, Accept(d) PROVE LinkInv'
  BY <1>4, AcceptInv
<1>5. CASE Lose
  BY <1>5, LoseInv
<1>6. CASE UNCHANGED vars
  BY <1>6 DEF vars, LinkInv, TypeOK, BuiltLast, NetworkAges, OneOpenDatagram,
              NothingLostOrRepeated
<1> QED
  BY <1>1, <1>2, <1>3, <1>4, <1>5, <1>6 DEF Next

-----------------------------------------------------------------------------
(* The theorems.                                                           *)

\* What the network still holds never confuses client and server (do_sockets).
THEOREM LinkInvariant == Spec => []LinkInv
BY InitInv, NextInv, PTL DEF Spec

\* Every reachable state of the link is well typed.
THEOREM LinkTypeCorrect == Spec => []TypeOK
<1>1. LinkInv => TypeOK
  BY DEF LinkInv
<1> QED
  BY <1>1, LinkInvariant, PTL

\* The client is never more than one datagram behind, although the ids wrap.
THEOREM OneOpenCorrect == Spec => []OneOpenDatagram
<1>1. LinkInv => OneOpenDatagram
  BY DEF LinkInv
<1> QED
  BY <1>1, LinkInvariant, PTL

\* No packet is lost, repeated or read out of order.
THEOREM NothingLostCorrect == Spec => []NothingLostOrRepeated
<1>1. LinkInv => NothingLostOrRepeated
  BY DEF LinkInv
<1> QED
  BY <1>1, LinkInvariant, PTL

LEMMA FifoInit == Init => Fifo!Init
BY DEF Init, Fifo!Init

\* What the client reads next is what comes next in the order of the pushes.
LEMMA AcceptDelivers ==
    ASSUME LinkInv, LinkInv', NEW d \in toClient, Accept(d)
    PROVE  Fifo!Deliver \/ UNCHANGED <<pushed, got>>
<1>1. pushed' = pushed /\ got' = got \o d.batch
  BY DEF Accept
<1>2. got \in Seq(Packets) /\ got' \in Seq(Packets) /\ pushed \in Nat
      /\ d.batch \in Seq(Packets)
  BY DEF LinkInv, TypeOK, ServerDatagram
<1>3. Len(got') \in Nat /\ Len(got') <= pushed /\ got' = Numbered(Len(got'))
  <2>1. got' \o Open' \o PacketList' = Numbered(pushed)
    BY <1>1 DEF LinkInv, NothingLostOrRepeated, Open, Numbered
  <2>2. Open' \in Seq(Packets) /\ PacketList' \in Seq(Packets)
    BY EmptySeq DEF LinkInv, TypeOK, ServerDatagram, Open
  <2>3. Open' \o PacketList' \in Seq(Packets)
    BY <2>2, ConcatProperties
  <2>4. got' \o (Open' \o PacketList') = Numbered(pushed)
    <3>1. got' \o Open' \o PacketList' = got' \o (Open' \o PacketList')
      <4>1. PICK o, q : o = Open' /\ q = PacketList'
        OBVIOUS
      <4>2. o \in Seq(Packets) /\ q \in Seq(Packets)
        BY <2>2, <4>1
      <4>3. got' \o o \o q = got' \o (o \o q)
        BY <1>2, <4>2, Associative
      <4> QED
        BY <4>1, <4>3
    <3> QED
      BY <2>1, <3>1
  <2> QED
    BY <2>3, <2>4, <1>2, NumberedPrefix, LenProperties
<1>4. CASE d.batch = <<>>
  BY <1>1, <1>2, <1>4, ConcatEmptySeq
<1>5. CASE d.batch # <<>>
  <2>1. Len(got) \in Nat /\ Len(got') >= Len(got) + 1
    BY <1>1, <1>2, <1>5, ConcatProperties, EmptySeq, LenProperties
  <2>2. Len(got') \in Len(got) + 1 .. pushed
    BY <1>2, <1>3, <2>1
  <2>3. got' = [i \in 1 .. Len(got') |-> i]
    BY <1>3 DEF Numbered
  <2> QED
    BY <1>1, <2>2, <2>3 DEF Fifo!Deliver
<1> QED
  BY <1>4, <1>5

LEMMA FifoStep ==
    LinkInv /\ LinkInv' /\ [Next]_vars => [Fifo!Next]_<<pushed, got>>
<1> SUFFICES ASSUME LinkInv, LinkInv', [Next]_vars PROVE [Fifo!Next]_<<pushed, got>>
  OBVIOUS
<1>1. CASE Push
  BY <1>1 DEF Push, Fifo!Push, Fifo!Next
<1>2. ASSUME NEW d \in toServer, Serve(d) PROVE UNCHANGED <<pushed, got>>
  BY <1>2 DEF Serve
<1>3. CASE Poll
  BY <1>3 DEF Poll
<1>4. ASSUME NEW d \in toClient, Accept(d) PROVE [Fifo!Next]_<<pushed, got>>
  BY <1>4, AcceptDelivers DEF Fifo!Next
<1>5. CASE Lose
  BY <1>5 DEF Lose
<1>6. CASE UNCHANGED vars
  BY <1>6 DEF vars
<1> QED
  BY <1>1, <1>2, <1>3, <1>4, <1>5, <1>6 DEF Next

\* The link delivers what a FIFO channel would: do_sockets, parse and send_parse
\* together implement FifoLink.
THEOREM LinkImplementsFifo == Spec => ImplementsFifo
BY LinkInvariant, FifoInit, FifoStep, PTL DEF Spec, ImplementsFifo, Fifo!Spec
=============================================================================

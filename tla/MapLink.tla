------------------------------- MODULE MapLink -------------------------------
(***************************************************************************)
(* The map server's side of the UDP link to one client (src/src/map/       *)
(* map.cpp: do_sockets, parse, send_parse) between two logins.  The server *)
(* sends only in answer to a datagram of the client.  It keeps the last    *)
(* datagram it built; a client datagram that does not acknowledge it gets  *)
(* the same datagram again, one that does gets a new one with what has     *)
(* gathered in the character's PacketList.                                 *)
(*                                                                         *)
(* The network loses, repeats and reorders datagrams.  The client is not   *)
(* part of the repository: it is modelled from what parse expects of it.   *)
(* It sends nothing that unpacks to more than 1800 bytes: parse and        *)
(* send_parse give up on that, and do_sockets sends it back and keeps it   *)
(* as server_packet_data, in place of the datagram it had.                 *)
(***************************************************************************)
EXTENDS Integers, Sequences, FiniteSets, SequencesExt

CONSTANTS
    IdWidth,    \* server_packet_id counts modulo this (2^16)
    MaxAge,     \* a datagram is dead once the server has built this many later ones
    BatchSize,  \* packets that fit in a datagram of 1800 bytes
    Bulky,      \* packets that make their datagram grow past 1800 bytes when compressed
    MaxPush     \* bound: packets the game pushes

ASSUME WidthAssumption ==
    /\ IdWidth \in Nat /\ MaxAge \in Nat \ {0, 1} /\ MaxAge < IdWidth
    /\ BatchSize \in Nat \ {0}
    /\ MaxPush \in Nat /\ Bulky \subseteq 1 .. MaxPush

VARIABLES
    PacketList,         \* the character's queue of packets
    server_packet_id,
    server_packet_data, \* the datagram built last
    toServer,           \* client datagrams in the network
    toClient,           \* server datagrams in the network
    last,               \* client: id of the datagram it accepted last
    behind,             \* history: datagrams built after the one the client has
    pushed,             \* history: packets pushed so far
    got                 \* history: packets the client has read, in order

vars == <<PacketList, server_packet_id, server_packet_data, toServer, toClient,
          last, behind, pushed, got>>

Ids == 0 .. IdWidth - 1
Ages == 0 .. MaxAge - 1
Packets == 1 .. MaxPush
ClientDatagram == [ack : Ids, age : Ages]
ServerDatagram == [id : Ids, batch : Seq(Packets), age : Ages]

TypeOK ==
    /\ PacketList \in Seq(Packets)
    /\ server_packet_id \in Ids
    /\ server_packet_data \in ServerDatagram
    /\ toServer \subseteq ClientDatagram
    /\ toClient \subseteq ServerDatagram
    /\ last \in Ids
    /\ behind \in 0 .. 1
    /\ pushed \in 0 .. MaxPush
    /\ got \in Seq(Packets)

Init ==
    /\ PacketList = <<>>
    /\ server_packet_id = 0
    /\ server_packet_data = [id |-> 0, batch |-> <<>>, age |-> 0]
    /\ toServer = {} /\ toClient = {}
    /\ last = 0 /\ behind = 0
    /\ pushed = 0 /\ got = <<>>

-----------------------------------------------------------------------------
(* The server.                                                             *)

\* A handler or a timer pushes a packet for the client.
Push ==
    /\ pushed < MaxPush
    /\ pushed' = pushed + 1
    /\ PacketList' = Append(PacketList, pushed + 1)
    /\ UNCHANGED <<server_packet_id, server_packet_data, toServer, toClient, last,
                   behind, got>>

\* One more datagram has been built: what is in the network grows older.
Aged(net) == {[d EXCEPT !.age = @ + 1] : d \in {e \in net : e.age + 1 < MaxAge}}

TakenNothing == 0                                      \* mutant: pops nothing
Taken == IF BatchSize < Len(PacketList) THEN BatchSize ELSE Len(PacketList)

\* Pops packets while they fit, under the next id.
Build ==
    LET d == [id |-> (server_packet_id + 1) % IdWidth,
              batch |-> SubSeq(PacketList, 1, Taken), age |-> 0]
    IN  /\ server_packet_id' = d.id
        /\ PacketList' = SubSeq(PacketList, Taken + 1, Len(PacketList))
        /\ server_packet_data' = d
        /\ toClient' = Aged(toClient) \cup {d}
        /\ toServer' = Aged(toServer)
        /\ behind' = behind + 1

Resend ==
    /\ toClient' = toClient \cup {server_packet_data}
    /\ UNCHANGED <<PacketList, server_packet_id, server_packet_data, toServer, behind>>

AcknowledgedAlways(d) == TRUE                          \* mutant: never resends
Acknowledged(d) == d.ack = server_packet_id

\* do_sockets for a datagram that deciphers.
Serve(d) ==
    /\ d \in toServer
    /\ IF Acknowledged(d) THEN Build ELSE Resend
    /\ UNCHANGED <<last, pushed, got>>

-----------------------------------------------------------------------------
(* The client and the network.                                             *)

\* A client polls with the id of the last datagram it could read.
Poll ==
    /\ toServer' = toServer \cup {[ack |-> last, age |-> behind]}
    /\ UNCHANGED <<PacketList, server_packet_id, server_packet_data, toClient, last,
                   behind, pushed, got>>

\* send_parse gives up on a datagram that grew too large when compressed, but
\* do_sockets sends and keeps the buffer anyway: no client can read it.
Readable(d) == \A i \in DOMAIN d.batch : d.batch[i] \notin Bulky

Accept(d) ==
    /\ d \in toClient
    /\ Readable(d)
    /\ d.id = (last + 1) % IdWidth
    /\ last' = d.id
    /\ behind' = d.age
    /\ got' = got \o d.batch
    /\ UNCHANGED <<PacketList, server_packet_id, server_packet_data, toServer, toClient,
                   pushed>>

\* Datagrams stay in the network, to arrive again, until they are lost.
Lose ==
    /\ \/ \E d \in toServer : toServer' = toServer \ {d} /\ UNCHANGED toClient
       \/ \E d \in toClient : toClient' = toClient \ {d} /\ UNCHANGED toServer
    /\ UNCHANGED <<PacketList, server_packet_id, server_packet_data, last, behind,
                   pushed, got>>

Next ==
    \/ Push
    \/ \E d \in toServer : Serve(d)
    \/ Poll
    \/ \E d \in toClient : Accept(d)
    \/ Lose

Spec == Init /\ [][Next]_vars

\* The client polls again and again, and of what is sent again and again
\* something arrives.
Fairness ==
    /\ WF_vars(Poll)
    /\ SF_vars(\E d \in toServer : d.ack = last /\ Serve(d))
    /\ SF_vars(\E d \in toClient : Accept(d))

FairSpec == Spec /\ Fairness

-----------------------------------------------------------------------------
(* Properties.                                                             *)

\* "If the previous packet was lost, we do not build a new one but send the
\* previous one again" (map.cpp:349): what the client has read, the datagram it
\* has not acknowledged and the queue are together all packets, once, in order.
NothingLostOrRepeated ==
    LET open == IF last = server_packet_id THEN <<>> ELSE server_packet_data.batch
    IN  got \o open \o PacketList = [i \in 1 .. pushed |-> i]

\* The client is never more than one datagram behind, so its id and the
\* server's, which both wrap, are never mistaken.
OneOpenDatagram ==
    /\ behind \in 0 .. 1
    /\ behind = 0 <=> last = server_packet_id
    /\ behind = 1 => server_packet_id = (last + 1) % IdWidth

\* The link implements FifoLink.
Fifo == INSTANCE FifoLink
ImplementsFifo == Fifo!Spec

\* Every packet arrives in the end; a bulky one is at worst skipped.
EveryPacketArrives ==
    \A n \in Packets \ Bulky : pushed >= n ~> n \in ToSet(got)
=============================================================================

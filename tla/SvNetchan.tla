----------------------------- MODULE SvNetchan -----------------------------
(***************************************************************************)
(* The channel from the server to one client: SV_Netchan_Transmit and its  *)
(* queue (server/sv_net_chan.c) feeding Netchan_Transmit, a network that   *)
(* loses, duplicates, delays and reorders datagrams, and the client's      *)
(* Netchan_Process.                                                        *)
(*                                                                         *)
(* Netchan_TransmitNextFragment sends one fragment per call, paced by the  *)
(* rate of the client, so several messages may be handed to the channel    *)
(* while one is still going out; the queue keeps them apart.               *)
(***************************************************************************)
EXTENDS Netchan

CONSTANTS
  Payloads,      \* messages, svc_EOF included, the server may send
  MaxMessages    \* bound: messages handed to the channel in a behaviour

ASSUME SvNetchanAssumption ==
  /\ Payloads \subseteq Messages
  /\ MaxMessages \in Nat

VARIABLES
  netchan,              \* the sending half of client->netchan
  netchan_queue,        \* netchan_start_queue .. netchan_end_queue
  network,              \* every datagram ever sent to this client
  clNetchan,            \* the receiving half of clc.netchan
  accepted,             \* history: messages given to SV_Netchan_Transmit
  delivered             \* history: messages Netchan_Process returned

vars == <<netchan, netchan_queue, network, clNetchan, accepted, delivered>>

Init ==
  /\ netchan = SetupOut
  /\ netchan_queue = <<>>
  /\ network = {}
  /\ clNetchan = SetupIn
  /\ accepted = <<>>
  /\ delivered = <<>>

\* Mutant: a message does not wait behind those already queued.
BusyWithFragments == netchan.unsentFragments

Busy == netchan.unsentFragments \/ netchan_queue # <<>>

NetchanTransmit(data) ==
  /\ network' = network \cup {TransmitPacket(netchan, data)}
  /\ netchan' = Transmit(netchan, data)

\* SV_Netchan_Transmit: unsent fragments or waiting messages stack this one.
SV_Netchan_Transmit(data) ==
  /\ Len(accepted) < MaxMessages
  /\ accepted' = Append(accepted, data)
  /\ IF Busy
     THEN /\ netchan_queue' = Append(netchan_queue, data)
          /\ UNCHANGED <<netchan, network>>
     ELSE /\ NetchanTransmit(data)
          /\ UNCHANGED netchan_queue
  /\ UNCHANGED <<clNetchan, delivered>>

\* SV_Netchan_TransmitNextFragment: the next fragment goes first ...
SV_SendFragment ==
  /\ netchan.unsentFragments
  /\ network' = network \cup {NextFragment(netchan)}
  /\ netchan' = TransmitNextFragment(netchan)
  /\ UNCHANGED <<netchan_queue, clNetchan, accepted, delivered>>

\* ... else the next queued message, popped by SV_Netchan_TransmitNextInQueue.
SV_Netchan_TransmitNextInQueue ==
  /\ ~netchan.unsentFragments
  /\ netchan_queue # <<>>
  /\ NetchanTransmit(Head(netchan_queue))
  /\ netchan_queue' = Tail(netchan_queue)
  /\ UNCHANGED <<clNetchan, accepted, delivered>>

SV_Netchan_TransmitNextFragment ==
  SV_SendFragment \/ SV_Netchan_TransmitNextInQueue

\* CL_Netchan_Process: any datagram of the past may arrive, any number of
\* times and in any order; one that never arrives is lost.
CL_Netchan_Process(p) ==
  /\ clNetchan' = Process(clNetchan, p)
  /\ delivered' = IF Completes(clNetchan, p)
                  THEN Append(delivered, Message(clNetchan, p))
                  ELSE delivered
  /\ UNCHANGED <<netchan, netchan_queue, network, accepted>>

Next ==
  \/ \E data \in Payloads : SV_Netchan_Transmit(data)
  \/ SV_Netchan_TransmitNextFragment
  \/ \E p \in network : CL_Netchan_Process(p)

Spec == Init /\ [][Next]_vars

\* SV_SendQueuedMessages calls SV_Netchan_TransmitNextFragment for every
\* client with something unsent, each time its rate allows one more packet.
FairSpec == Spec /\ WF_vars(SV_Netchan_TransmitNextFragment)

-----------------------------------------------------------------------------
\* The values the state takes.
TypeOK ==
  /\ netchan \in OutType
  /\ netchan_queue \in Seq(Payloads)
  /\ network \in SUBSET PacketType
  /\ clNetchan \in InType
  /\ accepted \in Seq(Payloads)
  /\ delivered \in Seq([sequence : Nat, data : Seq(Nat)])

\* What the client reads out of its fragment buffer is, byte for byte, the
\* message the server sent under that sequence number, whatever the network
\* did to its fragments and however messages collided in the server's queue.
DeliveredIntact ==
  \A i \in DOMAIN delivered :
    /\ delivered[i].sequence \in DOMAIN accepted
    /\ delivered[i].data = accepted[delivered[i].sequence]

\* No message is processed twice or after a later one.
DeliveredInOrder ==
  \A i, j \in DOMAIN delivered :
    i < j => delivered[i].sequence < delivered[j].sequence

\* The sequence number of the n-th message waiting in the queue is known: it
\* follows the message being transmitted and the ones queued before it.
Pending == IF netchan.unsentFragments THEN 1 ELSE 0

QueueInv ==
  /\ netchan.outgoingSequence >= 1
  /\ netchan.outgoingSequence + Pending + Len(netchan_queue) = Len(accepted) + 1
  /\ \A i \in DOMAIN netchan_queue :
       netchan_queue[i] = accepted[netchan.outgoingSequence - 1 + Pending + i]
  /\ netchan.unsentFragments =>
       /\ netchan.unsentBuffer = accepted[netchan.outgoingSequence]
       /\ NeedsFragments(netchan.unsentBuffer)
       /\ netchan.unsentFragmentStart <= Len(netchan.unsentBuffer)

\* A sequence number on the wire belongs to one message: a packet sent while
\* fragments of another message are pending never borrows its number.
NetworkInv ==
  \A p \in network :
    p.sequence \in DOMAIN accepted /\ Carries(p, accepted[p.sequence])

\* The fragment buffer never mixes two messages.
AssemblyInv ==
  clNetchan.fragmentBuffer # <<>> =>
    /\ clNetchan.fragmentSequence \in DOMAIN accepted
    /\ AssembledFrom(clNetchan, accepted[clNetchan.fragmentSequence])

\* Nothing at or below incomingSequence will be delivered again.
DeliveredInv ==
  \A i \in DOMAIN delivered :
    delivered[i].sequence \in 1 .. clNetchan.incomingSequence

\* The inductive invariant behind the two delivery properties: what the queue,
\* the wire and the fragment buffer hold is determined by the messages accepted.
ChannelInv ==
  /\ QueueInv
  /\ NetworkInv
  /\ AssemblyInv
  /\ DeliveredInv
  /\ DeliveredIntact
  /\ DeliveredInOrder

\* The server side of the client's netchan carries messages as the layers
\* above assume.
Channel == INSTANCE MessageChannel
             WITH Payloads  <- Payloads,
                  accepted  <- accepted,
                  delivered <- delivered
ImplementsChannel == Channel!Spec

\* A message handed to the channel is on the wire in full eventually: unsent
\* fragments and the queue never wait for each other.
EverythingSent ==
  \A n \in 1 .. MaxMessages :
    (Len(accepted) >= n) ~> (netchan.outgoingSequence > n)
=============================================================================

-------------------------- MODULE SvNetchanProofs --------------------------
(***************************************************************************)
(* For every fragment size, every set of messages and every behaviour of   *)
(* the network: what the client reads from the channel is what the server  *)
(* wrote to it, at most once and in order, and the channel implements      *)
(* MessageChannel.                                                         *)
(***************************************************************************)
EXTENDS SvNetchan, SequenceTheorems, TLAPS

-----------------------------------------------------------------------------
(* One half of a channel: the operators of Netchan *)

\* A fragment holds the bytes of the message from start on, at most
\* FRAGMENT_SIZE of them, and is shorter only at the end of the message.
LEMMA FragmentData ==
  ASSUME NEW data \in Seq(Nat), NEW start \in 0 .. Len(data), NEW sequence \in Nat
  PROVE  LET p   == Fragment(sequence, data, start)
             len == SmallerOf(start + FRAGMENT_SIZE, Len(data)) - start
         IN  /\ p \in PacketType
             /\ p.sequence = sequence /\ p.fragmented /\ p.start = start
             /\ Len(p.data) = len
             /\ len \in Nat /\ len <= FRAGMENT_SIZE
             /\ len # FRAGMENT_SIZE => start + len = Len(data)
             /\ start + len <= Len(data)
             /\ p.data = SubSeq(data, start + 1, start + len)
<1> DEFINE end == SmallerOf(start + FRAGMENT_SIZE, Len(data))
           sub == SubSeq(data, start + 1, end)
<1>1. Len(data) \in Nat /\ \A i \in 1 .. Len(data) : data[i] \in Nat
  BY LenProperties, ElementOfSeq
<1>2. end \in start .. Len(data) /\ end <= start + FRAGMENT_SIZE
      /\ (end - start # FRAGMENT_SIZE => end = Len(data))
  BY <1>1, NetchanAssumption DEF SmallerOf, NetchanAssumption
<1>3. sub \in Seq(Nat) /\ Len(sub) = end - start
  <2>1. start + 1 \in Int /\ end \in Int /\ \A i \in start + 1 .. end : data[i] \in Nat
    BY <1>1, <1>2
  <2> HIDE DEF end
  <2>2. /\ sub \in Seq(Nat)
        /\ Len(sub) = IF start + 1 <= end THEN end - (start + 1) + 1 ELSE 0
    BY <2>1, SubSeqProperties
  <2>3. QED BY <2>2, <1>2, <1>1
<1>4. Fragment(sequence, data, start) =
        [sequence |-> sequence, fragmented |-> TRUE, start |-> start, data |-> sub]
  BY DEF Fragment
<1>5. start \in Nat /\ start + (end - start) = end /\ end - start \in Nat
  BY <1>1, <1>2
<1> DEFINE p == [sequence |-> sequence, fragmented |-> TRUE, start |-> start, data |-> sub]
<1> HIDE DEF end, sub
<1>6. /\ p \in PacketType
      /\ p.sequence = sequence /\ p.fragmented /\ p.start = start
      /\ Len(p.data) = end - start /\ p.data = sub
  BY <1>3, <1>5 DEF PacketType
<1>7. /\ end - start <= FRAGMENT_SIZE
      /\ end - start # FRAGMENT_SIZE => start + (end - start) = Len(data)
      /\ start + (end - start) <= Len(data)
  BY <1>1, <1>2, <1>5, NetchanAssumption DEF NetchanAssumption
<1>8. sub = SubSeq(data, start + 1, start + (end - start))
  BY <1>5 DEF sub
<1> HIDE DEF p
<1>9. QED
  BY <1>4, <1>5, <1>6, <1>7, <1>8 DEF end, p, sub

\* Sending the next fragment moves the channel on by the bytes it carried.
LEMMA TransmitNextFragmentStep ==
  ASSUME NEW out \in OutType, out.unsentFragments,
         out.unsentFragmentStart <= Len(out.unsentBuffer)
  PROVE  /\ TransmitNextFragment(out) \in OutType
         /\ NextFragment(out) \in PacketType
         /\ NextFragment(out).sequence = out.outgoingSequence
         /\ NeedsFragments(out.unsentBuffer) =>
              Carries(NextFragment(out), out.unsentBuffer)
         /\ TransmitNextFragment(out).unsentBuffer = out.unsentBuffer
         /\ TransmitNextFragment(out).unsentFragmentStart <= Len(out.unsentBuffer)
         /\ TransmitNextFragment(out).outgoingSequence =
              IF TransmitNextFragment(out).unsentFragments
              THEN out.outgoingSequence ELSE out.outgoingSequence + 1
<1> DEFINE start == out.unsentFragmentStart
           data  == out.unsentBuffer
           p     == NextFragment(out)
<1>1. data \in Seq(Nat) /\ start \in 0 .. Len(data) /\ out.outgoingSequence \in Nat
  BY LenProperties DEF OutType
<1>2. p = Fragment(out.outgoingSequence, data, start)
  BY DEF NextFragment
<1>3. /\ p \in PacketType /\ p.sequence = out.outgoingSequence /\ p.start = start
      /\ Len(p.data) \in Nat /\ start + Len(p.data) <= Len(data)
  BY <1>1, <1>2, FragmentData
<1>4. NeedsFragments(data) => Carries(p, data)
  BY <1>1, <1>2, <1>3 DEF Carries
<1> DEFINE last == start + Len(p.data) = Len(data) /\ Len(p.data) # FRAGMENT_SIZE
           next == TransmitNextFragment(out)
<1>5. next =
        [out EXCEPT !.unsentFragmentStart = start + Len(p.data),
                    !.unsentFragments     = ~last,
                    !.outgoingSequence    =
                       IF last THEN out.outgoingSequence + 1 ELSE out.outgoingSequence]
  BY DEF TransmitNextFragment
<1>6. start + Len(p.data) \in Nat /\ last \in BOOLEAN
  BY <1>1, <1>3, LenProperties
<1> HIDE DEF p, last, next
<1>7. CASE last
  <2>1. next = [out EXCEPT !.unsentFragmentStart = start + Len(p.data),
                           !.unsentFragments     = FALSE,
                           !.outgoingSequence    = out.outgoingSequence + 1]
    BY <1>5, <1>7, Zenon
  <2>2. /\ next \in OutType
        /\ next.unsentBuffer = data
        /\ next.unsentFragmentStart = start + Len(p.data)
        /\ ~next.unsentFragments
        /\ next.outgoingSequence = out.outgoingSequence + 1
    <3>1. out.outgoingSequence + 1 \in Nat
      BY <1>1
    <3>2. QED BY <1>6, <2>1, <3>1 DEF OutType
  <2>3. QED BY <1>3, <1>4, <2>2 DEF p, next
<1>8. CASE ~last
  <2>1. next = [out EXCEPT !.unsentFragmentStart = start + Len(p.data),
                           !.unsentFragments     = TRUE,
                           !.outgoingSequence    = out.outgoingSequence]
    BY <1>5, <1>8, Zenon
  <2>2. /\ next \in OutType
        /\ next.unsentBuffer = data
        /\ next.unsentFragmentStart = start + Len(p.data)
        /\ next.unsentFragments
        /\ next.outgoingSequence = out.outgoingSequence
    BY <1>1, <1>6, <2>1 DEF OutType
  <2>3. QED BY <1>3, <1>4, <2>2 DEF p, next
<1>9. QED
  BY <1>7, <1>8

\* Starting a message sends its first packet under the next sequence number
\* and keeps that number for as long as fragments remain.
LEMMA TransmitStep ==
  ASSUME NEW out \in OutType, ~out.unsentFragments, NEW data \in Messages
  PROVE  /\ TransmitPacket(out, data) \in PacketType
         /\ TransmitPacket(out, data).sequence = out.outgoingSequence
         /\ Carries(TransmitPacket(out, data), data)
         /\ Transmit(out, data) \in OutType
         /\ Transmit(out, data).unsentFragments =>
              /\ Transmit(out, data).unsentBuffer = data
              /\ NeedsFragments(data)
              /\ Transmit(out, data).unsentFragmentStart <= Len(data)
         /\ Transmit(out, data).outgoingSequence =
              IF Transmit(out, data).unsentFragments
              THEN out.outgoingSequence ELSE out.outgoingSequence + 1
<1>1. data \in Seq(Nat) /\ out.outgoingSequence \in Nat
  BY DEF Messages, OutType
<1>2. CASE NeedsFragments(data)
  <2> DEFINE loaded == LoadFragments(out, data)
  <2>1. /\ loaded \in OutType /\ loaded.unsentFragments
        /\ loaded.unsentFragmentStart = 0 /\ loaded.unsentBuffer = data
        /\ loaded.outgoingSequence = out.outgoingSequence
    BY <1>1 DEF LoadFragments, OutType
  <2>2. loaded.unsentFragmentStart <= Len(loaded.unsentBuffer)
    BY <1>1, <2>1, LenProperties
  <2>3. TransmitPacket(out, data) = NextFragment(loaded)
        /\ Transmit(out, data) = TransmitNextFragment(loaded)
    BY <1>2, Zenon DEF TransmitPacket, Transmit
  <2> HIDE DEF loaded
  <2>4. QED
    BY <1>2, <2>1, <2>2, <2>3, TransmitNextFragmentStep
<1>3. CASE ~NeedsFragments(data)
  <2>1. TransmitPacket(out, data) = Datagram(out.outgoingSequence, data)
        /\ Transmit(out, data) = [out EXCEPT !.unsentFragmentStart = 0,
                                             !.outgoingSequence = out.outgoingSequence + 1]
    BY <1>3, Zenon DEF TransmitPacket, Transmit
  <2>2. /\ Datagram(out.outgoingSequence, data) \in PacketType
        /\ Datagram(out.outgoingSequence, data).sequence = out.outgoingSequence
    BY <1>1 DEF Datagram, PacketType
  <2>3. Carries(Datagram(out.outgoingSequence, data), data)
    BY <1>3, <2>2 DEF Carries
  <2>4. /\ Transmit(out, data) \in OutType
        /\ Transmit(out, data).unsentFragments = out.unsentFragments
        /\ Transmit(out, data).outgoingSequence = out.outgoingSequence + 1
    <3>1. out.outgoingSequence + 1 \in Nat /\ 0 \in Nat
      BY <1>1
    <3>2. Transmit(out, data).unsentFragments = out.unsentFragments
      BY <2>1 DEF OutType
    <3>3. /\ Transmit(out, data) \in OutType
          /\ Transmit(out, data).outgoingSequence = out.outgoingSequence + 1
      <4> DEFINE f == out.unsentFragments
      <4>1. f \in BOOLEAN
        BY DEF OutType
      <4>2. QED BY <2>1, <3>1, <4>1 DEF OutType
    <3>4. QED BY <3>2, <3>3
  <2>5. QED
    BY <2>1, <2>2, <2>3, <2>4
<1>4. QED
  BY <1>2, <1>3

\* Appending the fragment of a message that starts where a prefix of it ends
\* gives a longer prefix; the last fragment makes it the whole message.
LEMMA AssemblyStep ==
  ASSUME NEW data \in Seq(Nat), NEW sequence \in Nat, NEW start \in 0 .. Len(data),
         NEW have \in Seq(Nat), Len(have) = start, have = SubSeq(data, 1, start)
  PROVE  LET p    == Fragment(sequence, data, start)
             more == have \o p.data
         IN  /\ more \in Seq(Nat)
             /\ Len(more) <= Len(data)
             /\ more = SubSeq(data, 1, Len(more))
             /\ LastFragment(p) => more = data
<1> DEFINE p   == Fragment(sequence, data, start)
           len == SmallerOf(start + FRAGMENT_SIZE, Len(data)) - start
<1>1. /\ p \in PacketType /\ Len(p.data) = len /\ len \in Nat
      /\ len # FRAGMENT_SIZE => start + len = Len(data)
      /\ start + len <= Len(data)
      /\ p.data = SubSeq(data, start + 1, start + len)
  BY FragmentData
<1>2. p.data \in Seq(Nat)
  BY <1>1 DEF PacketType
<1> HIDE DEF p, len
<1>3. Len(data) \in Nat
  BY LenProperties
<1>4. 1 \in 1 .. Len(data) + 1 /\ start \in 1 - 1 .. Len(data)
      /\ start + len \in start .. Len(data)
  BY <1>1, <1>3
<1>5. have \o p.data = SubSeq(data, 1, start + len)
  BY <1>1, <1>4, ConcatAdjacentSubSeq
<1>6. have \o p.data \in Seq(Nat) /\ Len(have \o p.data) = start + len
  BY <1>1, <1>2, ConcatProperties
<1>7. LastFragment(p) => start + len = Len(data)
  BY <1>1 DEF LastFragment
<1>8. SubSeq(data, 1, Len(data)) = data
  BY SubSeqFull
<1>9. QED
  BY <1>1, <1>5, <1>6, <1>7, <1>8 DEF p

\* Netchan_Process on a packet of a message: what it returns is that message,
\* and what it keeps assembled is a prefix of it or what it had before.
LEMMA ProcessStep ==
  ASSUME NEW in \in InType, NEW p \in PacketType, NEW data \in Messages,
         Carries(p, data),
         p.sequence = in.fragmentSequence /\ in.fragmentBuffer # <<>>
           => AssembledFrom(in, data)
  PROVE  LET next == Process(in, p)
         IN  /\ next \in InType
             /\ next.incomingSequence =
                  IF Completes(in, p) THEN p.sequence ELSE in.incomingSequence
             /\ Completes(in, p) =>
                  /\ in.incomingSequence < p.sequence
                  /\ Message(in, p) = [sequence |-> p.sequence, data |-> data]
             /\ next.fragmentBuffer # <<>> =>
                  \/ next.fragmentSequence = p.sequence /\ AssembledFrom(next, data)
                  \/ /\ next.fragmentSequence = in.fragmentSequence
                     /\ next.fragmentBuffer = in.fragmentBuffer
<1> DEFINE next == Process(in, p)
           have == Assembled(in, p)
<1>1. /\ data \in Seq(Nat) /\ Len(data) \in Nat
      /\ p.sequence \in Nat /\ p.data \in Seq(Nat) /\ p.fragmented \in BOOLEAN
      /\ in.incomingSequence \in Nat /\ in.fragmentSequence \in Nat
      /\ in.fragmentBuffer \in Seq(Nat)
  BY LenProperties DEF Messages, PacketType, InType
<1>2. have \in Seq(Nat) /\ Len(have) \in Nat
  BY <1>1, EmptySeq, LenProperties DEF Assembled
<1>3. Len(have) <= Len(data) /\ have = SubSeq(data, 1, Len(have))
  <2>1. CASE p.sequence = in.fragmentSequence /\ in.fragmentBuffer # <<>>
    BY <2>1 DEF AssembledFrom, Assembled
  <2>2. CASE ~(p.sequence = in.fragmentSequence /\ in.fragmentBuffer # <<>>)
    <3>1. have = <<>>
      BY <2>2 DEF Assembled
    <3>2. SubSeq(data, 1, 0) = <<>>
      BY SubSeqEmpty
    <3>3. QED BY <1>1, <3>1, <3>2, EmptySeq
  <2>3. QED BY <2>1, <2>2
<1>4. CASE OutOfOrder(in, p)
  BY <1>4 DEF Process, Completes
<1>5. CASE ~OutOfOrder(in, p) /\ ~p.fragmented
  <2>1. next = [in EXCEPT !.incomingSequence = p.sequence]
    BY <1>5, Zenon DEF Process
  <2>2. p.data = data
    <3>1. Fragment(p.sequence, data, p.start).fragmented
      BY DEF Fragment
    <3>2. p = Datagram(p.sequence, data)
      BY <1>5, <3>1 DEF Carries
    <3>3. QED BY <3>2 DEF Datagram
  <2>3. Completes(in, p) /\ Message(in, p) = [sequence |-> p.sequence, data |-> data]
    BY <1>5, <2>2 DEF Completes, Message
  <2>4. in.incomingSequence < p.sequence
    BY <1>1, <1>5 DEF OutOfOrder
  <2>5. /\ next \in InType /\ next.incomingSequence = p.sequence
        /\ next.fragmentSequence = in.fragmentSequence
        /\ next.fragmentBuffer = in.fragmentBuffer
    BY <1>1, <2>1 DEF InType
  <2>6. QED BY <2>3, <2>4, <2>5
<1>6. CASE ~OutOfOrder(in, p) /\ p.fragmented /\ ~Contiguous(in, p)
  <2>1. next = [in EXCEPT !.fragmentSequence = p.sequence, !.fragmentBuffer = have]
    BY <1>6, Zenon DEF Process
  <2>2. ~Completes(in, p)
    BY <1>6 DEF Completes
  <2>3. /\ next \in InType /\ next.incomingSequence = in.incomingSequence
        /\ next.fragmentSequence = p.sequence /\ next.fragmentBuffer = have
    BY <1>1, <1>2, <2>1 DEF InType
  <2>4. AssembledFrom(next, data)
    BY <1>3, <2>3 DEF AssembledFrom
  <2>5. QED BY <2>2, <2>3, <2>4
<1>7. CASE ~OutOfOrder(in, p) /\ p.fragmented /\ Contiguous(in, p)
  <2> DEFINE more == have \o p.data
  <2>1. Len(have) = p.start
    BY <1>7 DEF Contiguous
  <2>2. /\ more \in Seq(Nat) /\ Len(more) <= Len(data)
        /\ more = SubSeq(data, 1, Len(more))
        /\ LastFragment(p) => more = data
    <3>1. ~Datagram(p.sequence, data).fragmented
      BY DEF Datagram
    <3>2. p = Fragment(p.sequence, data, p.start)
      BY <1>7, <3>1 DEF Carries
    <3>3. /\ data \in Seq(Nat) /\ p.sequence \in Nat /\ p.start \in 0 .. Len(data)
          /\ have \in Seq(Nat) /\ Len(have) = p.start /\ have = SubSeq(data, 1, p.start)
      BY <1>1, <1>2, <1>3, <1>7, <2>1, <3>1 DEF Carries
    <3> HIDE DEF have
    <3>4. LET q == Fragment(p.sequence, data, p.start)
              m == have \o q.data
          IN  /\ m \in Seq(Nat) /\ Len(m) <= Len(data)
              /\ m = SubSeq(data, 1, Len(m))
              /\ LastFragment(q) => m = data
      BY <3>3, AssemblyStep
    <3>5. QED BY <3>2, <3>4, Zenon
  <2>3. in.incomingSequence < p.sequence
    BY <1>1, <1>7 DEF OutOfOrder
  <2>4. Message(in, p) = [sequence |-> p.sequence, data |-> more]
    BY <1>7 DEF Message
  <2>5. next = [ incomingSequence |-> IF LastFragment(p) THEN p.sequence
                                      ELSE in.incomingSequence,
                 fragmentSequence |-> p.sequence,
                 fragmentBuffer   |-> IF LastFragment(p) THEN <<>> ELSE more ]
    BY <1>7, Zenon DEF Process
  <2> HIDE DEF next, have, more
  <2>6. CASE LastFragment(p)
    <3>1. /\ next \in InType /\ next.incomingSequence = p.sequence
          /\ next.fragmentBuffer = <<>>
      BY <1>1, <2>5, <2>6, EmptySeq DEF InType
    <3>2. Completes(in, p)
      BY <1>7, <2>6 DEF Completes
    <3>3. QED BY <2>2, <2>3, <2>4, <2>6, <3>1, <3>2 DEF next
  <2>7. CASE ~LastFragment(p)
    <3>1. /\ next \in InType /\ next.incomingSequence = in.incomingSequence
          /\ next.fragmentSequence = p.sequence /\ next.fragmentBuffer = more
      BY <1>1, <2>2, <2>5, <2>7 DEF InType
    <3>2. ~Completes(in, p)
      BY <1>7, <2>7 DEF Completes
    <3>3. AssembledFrom(next, data)
      BY <2>2, <3>1 DEF AssembledFrom
    <3>4. QED BY <3>1, <3>2, <3>3 DEF next
  <2>8. QED BY <2>6, <2>7
<1>8. QED
  BY <1>1, <1>4, <1>5, <1>6, <1>7

-----------------------------------------------------------------------------
(* The two halves with the queue and the wire between them *)

\* What every step may use of the state before it.
LEMMA StateFacts ==
  ASSUME TypeOK
  PROVE  /\ Len(accepted) \in Nat /\ DOMAIN accepted = 1 .. Len(accepted)
         /\ \A n \in DOMAIN accepted : accepted[n] \in Messages
         /\ Len(delivered) \in Nat /\ DOMAIN delivered = 1 .. Len(delivered)
         /\ Len(netchan_queue) \in Nat
         /\ DOMAIN netchan_queue = 1 .. Len(netchan_queue)
         /\ netchan.outgoingSequence \in Nat /\ netchan.unsentFragments \in BOOLEAN
         /\ Pending \in {0, 1}
<1>1. \A n \in 1 .. Len(accepted) : accepted[n] \in Payloads
  BY ElementOfSeq DEF TypeOK
<1>2. /\ netchan.outgoingSequence \in Nat /\ netchan.unsentFragments \in BOOLEAN
  BY DEF TypeOK, OutType
<1>3. QED
  BY <1>1, <1>2, LenProperties, SvNetchanAssumption
  DEF TypeOK, SvNetchanAssumption, Pending

\* Accepting a message disturbs nothing that is said of the ones before it.
LEMMA AcceptStep ==
  ASSUME TypeOK, ChannelInv, NEW data \in Payloads, accepted' = Append(accepted, data)
  PROVE  /\ accepted' \in Seq(Payloads)
         /\ Len(accepted') = Len(accepted) + 1
         /\ DOMAIN accepted' = 1 .. Len(accepted) + 1
         /\ \A n \in 1 .. Len(accepted) : accepted'[n] = accepted[n]
         /\ accepted'[Len(accepted) + 1] = data
         /\ \A p \in network :
              p.sequence \in DOMAIN accepted' /\ Carries(p, accepted'[p.sequence])
         /\ UNCHANGED <<clNetchan, delivered>> =>
              (AssemblyInv /\ DeliveredInv /\ DeliveredIntact /\ DeliveredInOrder)'
<1>1. /\ accepted' \in Seq(Payloads)
      /\ Len(accepted') = Len(accepted) + 1
      /\ \A n \in 1 .. Len(accepted) : accepted'[n] = accepted[n]
      /\ accepted'[Len(accepted) + 1] = data
  BY AppendProperties DEF TypeOK
<1>2. DOMAIN accepted' = 1 .. Len(accepted) + 1
  BY <1>1, LenProperties
<1>3. Len(accepted) \in Nat /\ DOMAIN accepted = 1 .. Len(accepted)
  BY StateFacts
<1>4. \A n \in DOMAIN accepted : n \in DOMAIN accepted' /\ accepted'[n] = accepted[n]
  BY <1>1, <1>2, <1>3
<1>5. \A p \in network :
        p.sequence \in DOMAIN accepted' /\ Carries(p, accepted'[p.sequence])
  BY <1>4 DEF ChannelInv, NetworkInv
<1>6. ASSUME UNCHANGED <<clNetchan, delivered>>
      PROVE  (AssemblyInv /\ DeliveredInv /\ DeliveredIntact /\ DeliveredInOrder)'
  <2>1. AssemblyInv'
    BY <1>4, <1>6 DEF ChannelInv, AssemblyInv, AssembledFrom
  <2>2. DeliveredInv' /\ DeliveredInOrder'
    BY <1>6 DEF ChannelInv, DeliveredInv, DeliveredInOrder
  <2>3. DeliveredIntact'
    BY <1>4, <1>6 DEF ChannelInv, DeliveredIntact
  <2>4. QED BY <2>1, <2>2, <2>3
<1>7. QED
  BY <1>1, <1>2, <1>5, <1>6

\* SV_Netchan_Transmit preserves the invariant.
LEMMA TransmitInv ==
  ASSUME TypeOK, ChannelInv, NEW data \in Payloads, SV_Netchan_Transmit(data)
  PROVE  (TypeOK /\ ChannelInv)'
<1>1. accepted' = Append(accepted, data) /\ UNCHANGED <<clNetchan, delivered>>
  BY DEF SV_Netchan_Transmit
<1>2. /\ accepted' \in Seq(Payloads)
      /\ Len(accepted') = Len(accepted) + 1
      /\ DOMAIN accepted' = 1 .. Len(accepted) + 1
      /\ \A n \in 1 .. Len(accepted) : accepted'[n] = accepted[n]
      /\ accepted'[Len(accepted) + 1] = data
  BY <1>1, AcceptStep
<1>3. \A p \in network :
        p.sequence \in DOMAIN accepted' /\ Carries(p, accepted'[p.sequence])
  BY <1>1, AcceptStep
<1>4. (AssemblyInv /\ DeliveredInv /\ DeliveredIntact /\ DeliveredInOrder)'
  BY <1>1, AcceptStep
<1>5. data \in Messages /\ data \in Seq(Nat)
  BY SvNetchanAssumption DEF SvNetchanAssumption, Messages
<1>6. CASE Busy
  <2>1. netchan_queue' = Append(netchan_queue, data) /\ UNCHANGED <<netchan, network>>
    BY <1>6 DEF SV_Netchan_Transmit
  <2>2. /\ netchan_queue' \in Seq(Payloads)
        /\ Len(netchan_queue') = Len(netchan_queue) + 1
        /\ \A i \in 1 .. Len(netchan_queue) : netchan_queue'[i] = netchan_queue[i]
        /\ netchan_queue'[Len(netchan_queue) + 1] = data
    BY <2>1, AppendProperties DEF TypeOK
  <2>3. DOMAIN netchan_queue' = 1 .. Len(netchan_queue) + 1
    BY <2>2, LenProperties
  <2>4. Pending' = Pending /\ netchan'.outgoingSequence = netchan.outgoingSequence
    BY <2>1 DEF Pending
  <2> DEFINE out == netchan.outgoingSequence
  <2>12. out \in Nat /\ Pending \in Nat /\ Len(netchan_queue) \in Nat
        /\ out + Pending + Len(netchan_queue) = Len(accepted) + 1
    BY StateFacts DEF ChannelInv, QueueInv
  <2> HIDE DEF out
  <2>5. out + Pending + Len(netchan_queue') = Len(accepted') + 1
    BY <1>2, <2>2, <2>12
  <2>6. ASSUME NEW i \in DOMAIN netchan_queue'
        PROVE  netchan_queue'[i] = accepted'[netchan'.outgoingSequence - 1 + Pending' + i]
    <3>1. CASE i \in 1 .. Len(netchan_queue)
      <4>1. netchan_queue[i] = accepted[out - 1 + Pending + i]
        BY <3>1, StateFacts DEF ChannelInv, QueueInv, out
      <4>2. out >= 1
        BY DEF ChannelInv, QueueInv, out
      <4>3. out - 1 + Pending + i \in 1 .. Len(accepted)
        BY <3>1, <2>12, <4>2, StateFacts
      <4>4. QED BY <3>1, <4>1, <4>3, <1>2, <2>2, <2>4 DEF out
    <3>2. CASE i = Len(netchan_queue) + 1
      <4>1. out - 1 + Pending + i = Len(accepted) + 1
        BY <3>2, <2>12, StateFacts
      <4>2. QED BY <3>2, <4>1, <1>2, <2>2, <2>4 DEF out
    <3>3. QED BY <2>3, <3>1, <3>2, StateFacts
  <2>7. netchan'.unsentFragments =>
          /\ netchan'.unsentBuffer = accepted'[netchan'.outgoingSequence]
          /\ NeedsFragments(netchan'.unsentBuffer)
          /\ netchan'.unsentFragmentStart <= Len(netchan'.unsentBuffer)
    BY <1>2, <2>1, StateFacts DEF ChannelInv, QueueInv, Pending
  <2>8. QueueInv'
    BY <2>1, <2>4, <2>5, <2>6, <2>7 DEF ChannelInv, QueueInv, out
  <2>9. NetworkInv'
    BY <1>3, <2>1 DEF NetworkInv
  <2>10. TypeOK'
    BY <1>1, <1>2, <2>1, <2>2 DEF TypeOK
  <2>11. QED BY <1>4, <2>8, <2>9, <2>10 DEF ChannelInv
<1>7. CASE ~Busy
  <2> DEFINE p == TransmitPacket(netchan, data)
  <2>1. /\ network' = network \cup {p} /\ netchan' = Transmit(netchan, data)
        /\ netchan_queue' = netchan_queue
    BY <1>7 DEF SV_Netchan_Transmit, NetchanTransmit
  <2>2. ~netchan.unsentFragments /\ netchan_queue = <<>> /\ netchan \in OutType
    BY <1>7 DEF Busy, TypeOK
  <2>3. netchan.outgoingSequence = Len(accepted) + 1
    BY <2>2, StateFacts DEF ChannelInv, QueueInv, Pending
  <2>4. /\ p \in PacketType /\ p.sequence = Len(accepted) + 1 /\ Carries(p, data)
        /\ netchan' \in OutType
        /\ netchan'.unsentFragments =>
             /\ netchan'.unsentBuffer = data
             /\ NeedsFragments(data)
             /\ netchan'.unsentFragmentStart <= Len(data)
        /\ netchan'.outgoingSequence =
             IF netchan'.unsentFragments THEN Len(accepted) + 1 ELSE Len(accepted) + 2
    BY <1>5, <2>1, <2>2, <2>3, StateFacts, TransmitStep
  <2> HIDE DEF p
  <2>5. NetworkInv'
    BY <1>2, <1>3, <2>1, <2>4, StateFacts DEF NetworkInv
  <2>6. QueueInv'
    <3>1. Len(netchan_queue') = 0 /\ DOMAIN netchan_queue' = {}
      BY <2>1, <2>2
    <3>2. netchan'.outgoingSequence + Pending' = Len(accepted') + 1
      BY <1>2, <2>4, StateFacts DEF Pending
    <3>3. netchan'.outgoingSequence >= 1
      BY <2>4, StateFacts
    <3>4. netchan'.unsentFragments =>
            netchan'.outgoingSequence = Len(accepted) + 1
      BY <2>4
    <3>5. netchan'.outgoingSequence + Pending' + Len(netchan_queue') = Len(accepted') + 1
      BY <1>2, <3>1, <3>2, StateFacts
    <3>6. QED BY <1>2, <2>4, <3>1, <3>3, <3>4, <3>5 DEF QueueInv
  <2>7. TypeOK'
    BY <1>1, <1>2, <2>1, <2>4 DEF TypeOK
  <2>8. QED BY <1>4, <2>5, <2>6, <2>7 DEF ChannelInv
<1>8. QED
  BY <1>6, <1>7

\* SV_Netchan_TransmitNextFragment, sending a fragment, preserves it.
LEMMA SendFragmentInv ==
  ASSUME TypeOK, ChannelInv, SV_SendFragment
  PROVE  (TypeOK /\ ChannelInv)'
<1> DEFINE out  == netchan.outgoingSequence
           data == netchan.unsentBuffer
           p    == NextFragment(netchan)
<1>1. /\ netchan.unsentFragments
      /\ network' = network \cup {p} /\ netchan' = TransmitNextFragment(netchan)
      /\ UNCHANGED <<netchan_queue, clNetchan, accepted, delivered>>
  BY DEF SV_SendFragment
<1>2. /\ netchan \in OutType /\ out \in Nat /\ out >= 1
      /\ Len(accepted) \in Nat /\ Len(netchan_queue) \in Nat
      /\ out + 1 + Len(netchan_queue) = Len(accepted) + 1
      /\ data = accepted[out] /\ NeedsFragments(data)
      /\ netchan.unsentFragmentStart <= Len(data)
  BY <1>1, StateFacts DEF TypeOK, ChannelInv, QueueInv, Pending
<1>3. out \in DOMAIN accepted
  BY <1>2, StateFacts
<1>4. /\ p \in PacketType /\ p.sequence = out /\ Carries(p, data)
      /\ netchan' \in OutType
      /\ netchan'.unsentBuffer = data
      /\ netchan'.unsentFragmentStart <= Len(data)
      /\ netchan'.outgoingSequence = IF netchan'.unsentFragments THEN out ELSE out + 1
  BY <1>1, <1>2, TransmitNextFragmentStep
<1> HIDE DEF p
<1>5. NetworkInv'
  BY <1>1, <1>2, <1>3, <1>4 DEF ChannelInv, NetworkInv
<1>6. QueueInv'
  <2>1. netchan'.outgoingSequence + Pending' = out + 1
    BY <1>2, <1>4 DEF Pending
  <2>2. netchan'.outgoingSequence - 1 + Pending' = out - 1 + Pending
    <3>1. Pending = 1 /\ Pending' \in {0, 1}
      BY <1>1 DEF Pending
    <3>2. netchan'.outgoingSequence \in Nat
      BY <1>4 DEF OutType
    <3>3. QED BY <1>2, <2>1, <3>1, <3>2
  <2> HIDE DEF out, data
  <2>3. \A i \in DOMAIN netchan_queue' :
          netchan_queue'[i] = accepted'[netchan'.outgoingSequence - 1 + Pending' + i]
    BY <1>1, <2>2 DEF ChannelInv, QueueInv, out
  <2>4. netchan'.outgoingSequence >= 1
    BY <1>2, <1>4
  <2>5. netchan'.unsentFragments => netchan'.outgoingSequence = out
    BY <1>4
  <2>6. netchan'.outgoingSequence + Pending' + Len(netchan_queue') = Len(accepted') + 1
    BY <1>1, <1>2, <2>1
  <2>7. QED BY <1>1, <1>2, <1>4, <2>3, <2>4, <2>5, <2>6 DEF QueueInv
<1>7. TypeOK'
  BY <1>1, <1>4 DEF TypeOK
<1>8. (AssemblyInv /\ DeliveredInv /\ DeliveredIntact /\ DeliveredInOrder)'
  BY <1>1 DEF ChannelInv, AssemblyInv, DeliveredInv, DeliveredIntact, DeliveredInOrder
<1>9. QED
  BY <1>5, <1>6, <1>7, <1>8 DEF ChannelInv

\* SV_Netchan_TransmitNextFragment, popping the queue, preserves it.
LEMMA NextInQueueInv ==
  ASSUME TypeOK, ChannelInv, SV_Netchan_TransmitNextInQueue
  PROVE  (TypeOK /\ ChannelInv)'
<1> DEFINE out  == netchan.outgoingSequence
           data == Head(netchan_queue)
           p    == TransmitPacket(netchan, data)
<1>1. /\ ~netchan.unsentFragments /\ netchan_queue # <<>>
      /\ network' = network \cup {p} /\ netchan' = Transmit(netchan, data)
      /\ netchan_queue' = Tail(netchan_queue)
      /\ UNCHANGED <<clNetchan, accepted, delivered>>
  BY DEF SV_Netchan_TransmitNextInQueue, NetchanTransmit
<1>2. /\ data \in Payloads /\ netchan_queue' \in Seq(Payloads)
      /\ Len(netchan_queue') = Len(netchan_queue) - 1
      /\ \A i \in 1 .. Len(netchan_queue') : netchan_queue'[i] = netchan_queue[i + 1]
      /\ data = netchan_queue[1]
      /\ Len(netchan_queue) >= 1
  <2>1. netchan_queue \in Seq(Payloads) /\ netchan_queue # <<>>
    BY <1>1 DEF TypeOK
  <2>2. Len(netchan_queue) \in Nat \ {0}
    BY <2>1, EmptySeq
  <2>3. data = netchan_queue[1]
    OBVIOUS
  <2>4. QED BY <1>1, <2>1, <2>2, <2>3, HeadTailProperties
<1>3. /\ netchan \in OutType /\ out \in Nat /\ out >= 1
      /\ Len(accepted) \in Nat /\ Len(netchan_queue) \in Nat
      /\ out + Len(netchan_queue) = Len(accepted) + 1
      /\ \A i \in 1 .. Len(netchan_queue) : netchan_queue[i] = accepted[out - 1 + i]
  BY <1>1, StateFacts DEF TypeOK, ChannelInv, QueueInv, Pending
<1>4. data = accepted[out] /\ out \in DOMAIN accepted
  <2>1. 1 \in 1 .. Len(netchan_queue) /\ out - 1 + 1 = out /\ out \in 1 .. Len(accepted)
    BY <1>2, <1>3
  <2> HIDE DEF out, data
  <2>2. QED BY <1>2, <1>3, <2>1, StateFacts
<1>5. data \in Messages
  BY <1>2, SvNetchanAssumption DEF SvNetchanAssumption
<1>6. /\ p \in PacketType /\ p.sequence = out /\ Carries(p, data)
      /\ netchan' \in OutType
      /\ netchan'.unsentFragments =>
           /\ netchan'.unsentBuffer = data
           /\ NeedsFragments(data)
           /\ netchan'.unsentFragmentStart <= Len(data)
      /\ netchan'.outgoingSequence = IF netchan'.unsentFragments THEN out ELSE out + 1
  BY <1>1, <1>3, <1>5, TransmitStep
<1> HIDE DEF p, data
<1>7. NetworkInv'
  BY <1>1, <1>4, <1>6 DEF ChannelInv, NetworkInv
<1>8. QueueInv'
  <2>1. netchan'.outgoingSequence + Pending' = out + 1
        /\ netchan'.outgoingSequence \in Nat /\ Pending' \in {0, 1}
    BY <1>3, <1>6 DEF Pending
  <2>2. netchan'.outgoingSequence >= 1
    BY <1>3, <1>6
  <2>3. netchan'.unsentFragments => netchan'.outgoingSequence = out
    BY <1>6
  <2> HIDE DEF out
  <2>4. netchan'.outgoingSequence + Pending' + Len(netchan_queue') = Len(accepted') + 1
    BY <1>1, <1>2, <1>3, <2>1
  <2>5. ASSUME NEW i \in DOMAIN netchan_queue'
        PROVE  netchan_queue'[i] = accepted'[netchan'.outgoingSequence - 1 + Pending' + i]
    <3>1. i \in 1 .. Len(netchan_queue')
      BY <1>2, LenProperties
    <3>2. i + 1 \in 1 .. Len(netchan_queue) /\ i \in Nat
      BY <1>2, <1>3, <3>1
    <3>3. netchan'.outgoingSequence - 1 + Pending' + i = out - 1 + (i + 1)
      <4> DEFINE next == netchan'.outgoingSequence
                 pend == Pending'
      <4>1. next + pend = out + 1 /\ next \in Nat /\ pend \in Nat /\ out \in Nat
        BY <1>3, <2>1
      <4> HIDE DEF next, pend
      <4>2. next - 1 + pend + i = out - 1 + (i + 1)
        BY <3>2, <4>1
      <4>3. QED BY <4>2 DEF next, pend
    <3>4. QED BY <1>1, <1>2, <1>3, <3>1, <3>2, <3>3
  <2>6. QED BY <1>1, <1>4, <1>6, <2>2, <2>3, <2>4, <2>5 DEF QueueInv
<1>9. TypeOK'
  BY <1>1, <1>2, <1>6 DEF TypeOK
<1>10. (AssemblyInv /\ DeliveredInv /\ DeliveredIntact /\ DeliveredInOrder)'
  BY <1>1 DEF ChannelInv, AssemblyInv, DeliveredInv, DeliveredIntact, DeliveredInOrder
<1>11. QED
  BY <1>7, <1>8, <1>9, <1>10 DEF ChannelInv

\* CL_Netchan_Process of any packet the network holds preserves it.
LEMMA ProcessInv ==
  ASSUME TypeOK, ChannelInv, NEW p \in network, CL_Netchan_Process(p)
  PROVE  (TypeOK /\ ChannelInv)'
<1> DEFINE data == accepted[p.sequence]
<1>1. /\ clNetchan' = Process(clNetchan, p)
      /\ UNCHANGED <<netchan, netchan_queue, network, accepted>>
  BY DEF CL_Netchan_Process
<1>2. /\ p \in PacketType /\ p.sequence \in DOMAIN accepted
      /\ data \in Messages /\ Carries(p, data) /\ clNetchan \in InType
  BY StateFacts DEF TypeOK, ChannelInv, NetworkInv
<1>3. p.sequence = clNetchan.fragmentSequence /\ clNetchan.fragmentBuffer # <<>>
        => AssembledFrom(clNetchan, data)
  BY DEF ChannelInv, AssemblyInv
<1>4. LET next == Process(clNetchan, p)
      IN  /\ next \in InType
          /\ next.incomingSequence =
               IF Completes(clNetchan, p) THEN p.sequence ELSE clNetchan.incomingSequence
          /\ Completes(clNetchan, p) =>
               /\ clNetchan.incomingSequence < p.sequence
               /\ Message(clNetchan, p) = [sequence |-> p.sequence, data |-> data]
          /\ next.fragmentBuffer # <<>> =>
               \/ next.fragmentSequence = p.sequence /\ AssembledFrom(next, data)
               \/ /\ next.fragmentSequence = clNetchan.fragmentSequence
                  /\ next.fragmentBuffer = clNetchan.fragmentBuffer
  <2> HIDE DEF data
  <2>1. QED BY <1>2, <1>3, ProcessStep
<1>5. /\ clNetchan' \in InType
      /\ clNetchan'.incomingSequence =
           IF Completes(clNetchan, p) THEN p.sequence ELSE clNetchan.incomingSequence
      /\ Completes(clNetchan, p) =>
           /\ clNetchan.incomingSequence < p.sequence
           /\ Message(clNetchan, p) = [sequence |-> p.sequence, data |-> data]
      /\ clNetchan'.fragmentBuffer # <<>> =>
           \/ clNetchan'.fragmentSequence = p.sequence /\ AssembledFrom(clNetchan', data)
           \/ /\ clNetchan'.fragmentSequence = clNetchan.fragmentSequence
              /\ clNetchan'.fragmentBuffer = clNetchan.fragmentBuffer
  BY <1>1, <1>4, Zenon
<1>6. QueueInv' /\ NetworkInv'
  BY <1>1 DEF ChannelInv, QueueInv, NetworkInv, Pending
<1>7. AssemblyInv'
  BY <1>1, <1>2, <1>5 DEF ChannelInv, AssemblyInv, AssembledFrom
<1>8. (DeliveredInv /\ DeliveredIntact /\ DeliveredInOrder)'
      /\ delivered' \in Seq([sequence : Nat, data : Seq(Nat)])
  <2>1. CASE ~Completes(clNetchan, p)
    <3>1. delivered' = delivered /\ clNetchan'.incomingSequence = clNetchan.incomingSequence
      BY <1>5, <2>1 DEF CL_Netchan_Process
    <3>2. QED
      BY <1>1, <3>1 DEF TypeOK, ChannelInv, DeliveredInv, DeliveredIntact, DeliveredInOrder
  <2>2. CASE Completes(clNetchan, p)
    <3> DEFINE m == [sequence |-> p.sequence, data |-> data]
    <3>1. /\ delivered' = Append(delivered, m)
          /\ clNetchan'.incomingSequence = p.sequence
          /\ clNetchan.incomingSequence < p.sequence
      BY <1>5, <2>2 DEF CL_Netchan_Process
    <3>2. m \in [sequence : Nat, data : Seq(Nat)] /\ p.sequence \in Nat
          /\ clNetchan.incomingSequence \in Nat /\ p.sequence \in 1 .. Len(accepted)
          /\ Len(delivered) \in Nat
      BY <1>2, StateFacts DEF Messages, PacketType, InType
    <3>3. m.sequence = p.sequence /\ m.data = data
      OBVIOUS
    <3> HIDE DEF m, data
    <3>4. /\ delivered' \in Seq([sequence : Nat, data : Seq(Nat)])
          /\ Len(delivered') = Len(delivered) + 1
          /\ \A i \in 1 .. Len(delivered) : delivered'[i] = delivered[i]
          /\ delivered'[Len(delivered) + 1] = m
      BY <3>1, <3>2, AppendProperties DEF TypeOK
    <3>5. DOMAIN delivered' = 1 .. Len(delivered) + 1
      BY <3>4, LenProperties
    <3>6. \A i \in 1 .. Len(delivered) :
            delivered[i].sequence \in 1 .. clNetchan.incomingSequence
      BY StateFacts DEF ChannelInv, DeliveredInv
    <3>7. DeliveredInv'
      <4>1. \A i \in 1 .. Len(delivered) : delivered[i].sequence \in 1 .. p.sequence
        BY <3>1, <3>2, <3>6
      <4>2. QED BY <3>1, <3>2, <3>3, <3>4, <3>5, <4>1 DEF DeliveredInv
    <3>8. DeliveredIntact'
      <4>1. \A i \in 1 .. Len(delivered) :
              /\ delivered[i].sequence \in DOMAIN accepted
              /\ delivered[i].data = accepted[delivered[i].sequence]
        BY StateFacts DEF ChannelInv, DeliveredIntact
      <4>2. ASSUME NEW i \in DOMAIN delivered'
            PROVE  /\ delivered'[i].sequence \in DOMAIN accepted
                   /\ delivered'[i].data = accepted[delivered'[i].sequence]
        <5>1. CASE i \in 1 .. Len(delivered)
          BY <3>4, <4>1, <5>1
        <5>2. CASE i = Len(delivered) + 1
          BY <1>2, <3>3, <3>4, <5>2 DEF data
        <5>3. QED BY <3>2, <3>5, <5>1, <5>2
      <4>3. QED BY <1>1, <4>2 DEF DeliveredIntact
    <3>9. DeliveredInOrder'
      <4>1. \A i \in 1 .. Len(delivered) : delivered[i].sequence < p.sequence
        BY <3>1, <3>2, <3>6
      <4>2. \A i, j \in 1 .. Len(delivered) :
              i < j => delivered[i].sequence < delivered[j].sequence
        BY StateFacts DEF ChannelInv, DeliveredInOrder
      <4>3. ASSUME NEW i \in DOMAIN delivered', NEW j \in DOMAIN delivered', i < j
            PROVE  delivered'[i].sequence < delivered'[j].sequence
        <5>1. i \in 1 .. Len(delivered)
          BY <3>2, <3>5, <4>3
        <5>2. CASE j \in 1 .. Len(delivered)
          BY <3>4, <4>2, <4>3, <5>1, <5>2
        <5>3. CASE j = Len(delivered) + 1
          BY <3>3, <3>4, <4>1, <5>1, <5>3
        <5>4. QED BY <3>2, <3>5, <5>2, <5>3
      <4>4. QED BY <4>3 DEF DeliveredInOrder
    <3>10. QED BY <3>4, <3>7, <3>8, <3>9
  <2>3. QED BY <2>1, <2>2
<1>9. TypeOK'
  BY <1>1, <1>5, <1>8 DEF TypeOK
<1>10. QED
  BY <1>6, <1>7, <1>8, <1>9 DEF ChannelInv

-----------------------------------------------------------------------------
\* The invariant holds in every reachable state: the queue of the server, the
\* packets on the wire and the client's fragment buffer always hold parts of
\* the messages accepted, under the sequence numbers they were accepted in.
THEOREM ChannelInvariant == Spec => [](TypeOK /\ ChannelInv)
<1>1. Init => TypeOK /\ ChannelInv
  <2> SUFFICES ASSUME Init PROVE TypeOK /\ ChannelInv
    OBVIOUS
  <2>1. TypeOK
    BY EmptySeq DEF Init, TypeOK, SetupOut, SetupIn, OutType, InType
  <2>2. QueueInv
    BY DEF Init, QueueInv, SetupOut, Pending
  <2>3. AssemblyInv /\ NetworkInv
    BY DEF Init, AssemblyInv, NetworkInv, SetupIn
  <2>4. DeliveredInv /\ DeliveredIntact /\ DeliveredInOrder
    BY DEF Init, DeliveredInv, DeliveredIntact, DeliveredInOrder
  <2>5. QED BY <2>1, <2>2, <2>3, <2>4 DEF ChannelInv
<1>2. TypeOK /\ ChannelInv /\ [Next]_vars => (TypeOK /\ ChannelInv)'
  <2> SUFFICES ASSUME TypeOK, ChannelInv, [Next]_vars
               PROVE  (TypeOK /\ ChannelInv)'
    OBVIOUS
  <2>1. CASE \E data \in Payloads : SV_Netchan_Transmit(data)
    BY <2>1, TransmitInv
  <2>2. CASE SV_Netchan_TransmitNextFragment
    BY <2>2, SendFragmentInv, NextInQueueInv DEF SV_Netchan_TransmitNextFragment
  <2>3. CASE \E p \in network : CL_Netchan_Process(p)
    BY <2>3, ProcessInv
  <2>4. CASE UNCHANGED vars
    BY <2>4 DEF vars, TypeOK, ChannelInv, QueueInv, NetworkInv, AssemblyInv,
                DeliveredInv, DeliveredIntact, DeliveredInOrder, Pending
  <2>5. QED BY <2>1, <2>2, <2>3, <2>4 DEF Next
<1>3. QED
  BY <1>1, <1>2, PTL DEF Spec

\* Every message the client reads is the message the server wrote under that
\* sequence number, whatever was lost, duplicated, reordered or queued.
THEOREM DeliveryIntact == Spec => []DeliveredIntact
<1>1. ChannelInv => DeliveredIntact
  BY DEF ChannelInv
<1>2. QED
  BY <1>1, ChannelInvariant, PTL

\* No message is read twice, or after a later one.
THEOREM DeliveryInOrder == Spec => []DeliveredInOrder
<1>1. ChannelInv => DeliveredInOrder
  BY DEF ChannelInv
<1>2. QED
  BY <1>1, ChannelInvariant, PTL

\* The server's queue, the fragmentation and the reassembly together implement
\* the channel the layers above rely on.
THEOREM Refinement == Spec => ImplementsChannel
<1>1. Init => Channel!Init
  BY DEF Init, Channel!Init
<1>2. TypeOK /\ ChannelInv /\ [Next]_vars => [Channel!Next]_(Channel!vars)
  <2> SUFFICES ASSUME TypeOK, ChannelInv, [Next]_vars
               PROVE  [Channel!Next]_(Channel!vars)
    OBVIOUS
  <2>1. CASE \E data \in Payloads : SV_Netchan_Transmit(data)
    BY <2>1 DEF SV_Netchan_Transmit, Channel!Next, Channel!Send
  <2>2. CASE SV_Netchan_TransmitNextFragment
    BY <2>2 DEF SV_Netchan_TransmitNextFragment, SV_SendFragment,
                SV_Netchan_TransmitNextInQueue, Channel!vars
  <2>3. ASSUME NEW p \in network, CL_Netchan_Process(p)
        PROVE  [Channel!Next]_(Channel!vars)
    <3>1. CASE ~Completes(clNetchan, p)
      BY <2>3, <3>1 DEF CL_Netchan_Process, Channel!vars
    <3>2. CASE Completes(clNetchan, p)
      <4> DEFINE data == accepted[p.sequence]
      <4>1. /\ p \in PacketType /\ p.sequence \in 1 .. Len(accepted)
            /\ data \in Messages /\ Carries(p, data) /\ clNetchan \in InType
            /\ (p.sequence = clNetchan.fragmentSequence
                  /\ clNetchan.fragmentBuffer # <<>> => AssembledFrom(clNetchan, data))
        BY StateFacts DEF TypeOK, ChannelInv, NetworkInv, AssemblyInv
      <4> HIDE DEF data
      <4>2. /\ clNetchan.incomingSequence < p.sequence
            /\ Message(clNetchan, p) = [sequence |-> p.sequence, data |-> data]
        BY <3>2, <4>1, ProcessStep
      <4>3. /\ delivered' = Append(delivered, [sequence |-> p.sequence, data |-> data])
            /\ accepted' = accepted
        BY <2>3, <3>2, <4>2 DEF CL_Netchan_Process
      <4>4. Channel!LastDelivered \in Nat
            /\ Channel!LastDelivered <= clNetchan.incomingSequence
        <5>1. CASE delivered = <<>>
          BY <5>1, <4>1 DEF Channel!LastDelivered, InType
        <5>2. CASE delivered # <<>>
          <6>1. Len(delivered) \in Nat \ {0}
            BY <5>2, EmptySeq DEF TypeOK
          <6>2. Len(delivered) \in DOMAIN delivered
            BY <6>1, StateFacts
          <6>3. delivered[Len(delivered)].sequence \in 1 .. clNetchan.incomingSequence
            BY <6>2 DEF ChannelInv, DeliveredInv
          <6>4. QED BY <4>1, <5>2, <6>3 DEF Channel!LastDelivered, InType
        <5>3. QED BY <5>1, <5>2
      <4>5. p.sequence \in (Channel!LastDelivered + 1) .. Len(accepted)
        <5>1. clNetchan.incomingSequence \in Nat /\ Len(accepted) \in Nat
          BY <4>1, StateFacts DEF InType
        <5>2. QED BY <4>1, <4>2, <4>4, <5>1
      <4>6. Channel!Deliver
        BY <4>3, <4>5 DEF Channel!Deliver, data
      <4>7. QED BY <4>6 DEF Channel!Next
    <3>3. QED BY <3>1, <3>2
  <2>4. CASE UNCHANGED vars
    BY <2>4 DEF vars, Channel!vars
  <2>5. QED BY <2>1, <2>2, <2>3, <2>4 DEF Next
<1>3. QED
  BY <1>1, <1>2, ChannelInvariant, PTL DEF Spec, ImplementsChannel, Channel!Spec
=============================================================================

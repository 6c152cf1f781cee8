------------------------------ MODULE Netchan ------------------------------
(***************************************************************************)
(* The packet layer of qcommon/net_chan.c: how one message becomes one     *)
(* datagram or a run of fragments, and how the receiver turns datagrams    *)
(* back into messages.  The operators below are functions of one netchan_t *)
(* (split into the half a sender uses and the half a receiver uses); the   *)
(* modules that EXTEND this one decide who calls them and when.            *)
(*                                                                         *)
(* A message is a sequence of bytes.  Packet headers are the record fields *)
(* of a packet; the qport and the checksum of a non-compat channel are     *)
(* left out, because both ends of this program always run compat channels. *)
(***************************************************************************)
EXTENDS Integers, Sequences

CONSTANTS
  FRAGMENT_SIZE,   \* bytes of a message one fragment carries (1300 in the code)
  MAX_MSGLEN       \* bytes of the longest message, and of fragmentBuffer

ASSUME NetchanAssumption ==
  /\ FRAGMENT_SIZE \in Nat \ {0}
  /\ MAX_MSGLEN \in Nat

Messages == {data \in Seq(Nat) : Len(data) <= MAX_MSGLEN}

\* The sending and the receiving half of a netchan_t, and a packet.
OutType == [ outgoingSequence : Nat, unsentFragments : BOOLEAN,
             unsentFragmentStart : Nat, unsentBuffer : Seq(Nat) ]

InType == [ incomingSequence : Nat, fragmentSequence : Nat,
            fragmentBuffer : Seq(Nat) ]

PacketType ==
  [sequence : Nat, fragmented : BOOLEAN, start : Nat, data : Seq(Nat)]

SmallerOf(a, b) == IF a <= b THEN a ELSE b

-----------------------------------------------------------------------------
(* Netchan_Setup *)

SetupOut ==
  [ outgoingSequence    |-> 1,
    unsentFragments     |-> FALSE,
    unsentFragmentStart |-> 0,
    unsentBuffer        |-> <<>> ]

\* fragmentLength is the length of fragmentBuffer.
SetupIn ==
  [ incomingSequence |-> 0,
    fragmentSequence |-> 0,
    fragmentBuffer   |-> <<>> ]

-----------------------------------------------------------------------------
(* Sending *)

Datagram(sequence, data) ==
  [sequence |-> sequence, fragmented |-> FALSE, start |-> 0, data |-> data]

Fragment(sequence, data, start) ==
  [ sequence   |-> sequence,
    fragmented |-> TRUE,
    start      |-> start,
    data       |-> SubSeq(data, start + 1,
                          SmallerOf(start + FRAGMENT_SIZE, Len(data))) ]

\* The packet Netchan_TransmitNextFragment puts on the wire ...
NextFragment(out) ==
  Fragment(out.outgoingSequence, out.unsentBuffer, out.unsentFragmentStart)

\* Mutant: the zero-length fragment does not end a message.
TransmitNextFragmentEndless(out) ==
  LET sent  == Len(NextFragment(out).data)
      start == out.unsentFragmentStart + sent
      last  == start = Len(out.unsentBuffer) /\ sent \notin {0, FRAGMENT_SIZE}
  IN  [out EXCEPT !.unsentFragmentStart = start,
                  !.unsentFragments     = ~last,
                  !.outgoingSequence    = IF last THEN @ + 1 ELSE @]

\* ... and the channel after it.  A message whose length is a multiple of
\* FRAGMENT_SIZE needs one more fragment, of length zero.
TransmitNextFragment(out) ==
  LET sent  == Len(NextFragment(out).data)
      start == out.unsentFragmentStart + sent
      last  == start = Len(out.unsentBuffer) /\ sent # FRAGMENT_SIZE
  IN  [out EXCEPT !.unsentFragmentStart = start,
                  !.unsentFragments     = ~last,
                  !.outgoingSequence    = IF last THEN @ + 1 ELSE @]

\* Netchan_Transmit: the channel loaded with a message that needs fragments.
LoadFragments(out, data) ==
  [out EXCEPT !.unsentFragmentStart = 0,
              !.unsentFragments     = TRUE,
              !.unsentBuffer        = data]

NeedsFragments(data) == Len(data) >= FRAGMENT_SIZE

\* Netchan_Transmit: the one packet it sends and the channel it leaves.
TransmitPacket(out, data) ==
  IF NeedsFragments(data)
  THEN NextFragment(LoadFragments(out, data))
  ELSE Datagram(out.outgoingSequence, data)

Transmit(out, data) ==
  IF NeedsFragments(data)
  THEN TransmitNextFragment(LoadFragments(out, data))
  ELSE [out EXCEPT !.unsentFragmentStart = 0, !.outgoingSequence = @ + 1]

-----------------------------------------------------------------------------
(* Receiving: Netchan_Process *)

\* Mutant: duplicates pass.
OutOfOrderOnly(in, p) == p.sequence < in.incomingSequence

\* Discard out of order or duplicated packets.
OutOfOrder(in, p) == p.sequence <= in.incomingSequence

\* Mutant: fragmentLength is not reset by a fragment of another message.
AssembledKept(in, p) == in.fragmentBuffer

\* What of the packet's message is assembled so far.
Assembled(in, p) ==
  IF p.sequence = in.fragmentSequence THEN in.fragmentBuffer ELSE <<>>

\* Mutant: a missing fragment is not noticed.
ContiguousUnchecked(in, p) ==
  Len(Assembled(in, p)) + Len(p.data) <= MAX_MSGLEN

\* The packet continues it, and fits the buffer.
Contiguous(in, p) ==
  LET have == Len(Assembled(in, p))
  IN  p.start = have /\ have + Len(p.data) <= MAX_MSGLEN

LastFragment(p) == Len(p.data) # FRAGMENT_SIZE

\* Netchan_Process returned qtrue: p completes a message.
Completes(in, p) ==
  /\ ~OutOfOrder(in, p)
  /\ p.fragmented => Contiguous(in, p) /\ LastFragment(p)

\* The message handed to the caller when Completes(in, p).
Message(in, p) ==
  [ sequence |-> p.sequence,
    data     |-> IF p.fragmented THEN Assembled(in, p) \o p.data ELSE p.data ]

\* The channel after Netchan_Process.
Process(in, p) ==
  CASE OutOfOrder(in, p) -> in
    [] ~OutOfOrder(in, p) /\ ~p.fragmented ->
         [in EXCEPT !.incomingSequence = p.sequence]
    [] ~OutOfOrder(in, p) /\ p.fragmented /\ ~Contiguous(in, p) ->
         \* the part assembled so far is kept
         [in EXCEPT !.fragmentSequence = p.sequence,
                    !.fragmentBuffer   = Assembled(in, p)]
    [] ~OutOfOrder(in, p) /\ p.fragmented /\ Contiguous(in, p) ->
         [ incomingSequence |-> IF LastFragment(p) THEN p.sequence
                                ELSE in.incomingSequence,
           fragmentSequence |-> p.sequence,
           fragmentBuffer   |-> IF LastFragment(p) THEN <<>>
                                ELSE Assembled(in, p) \o p.data ]

-----------------------------------------------------------------------------
\* p is a packet of the message data, sent under p.sequence.
Carries(p, data) ==
  IF NeedsFragments(data)
  THEN p.start \in 0 .. Len(data) /\ p = Fragment(p.sequence, data, p.start)
  ELSE p = Datagram(p.sequence, data)

\* What a receiver has assembled is a prefix of the message data.
AssembledFrom(in, data) ==
  /\ Len(in.fragmentBuffer) <= Len(data)
  /\ in.fragmentBuffer = SubSeq(data, 1, Len(in.fragmentBuffer))
=============================================================================

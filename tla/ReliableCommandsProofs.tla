----------------------- MODULE ReliableCommandsProofs -----------------------
(***************************************************************************)
(* The reliable commands of both directions are executed once, in order    *)
(* and with their own text, for rings of every size and any number of      *)
(* messages in flight.                                                     *)
(*                                                                         *)
(* The invariant says what each ring, and each message in flight, holds:   *)
(* the last MAX_RELIABLE_COMMANDS commands of a side are in their slots,   *)
(* and a message starts no later than the command its receiver awaits.     *)
(***************************************************************************)
EXTENDS ReliableCommands, SequenceTheorems, WellFoundedInduction, TLAPS

-----------------------------------------------------------------------------
(* Natural numbers, and remainders for the slots of a ring *)

\* Every set of natural numbers has a least one; this stands for induction.
LEMMA LeastNatural ==
  ASSUME NEW S, S \subseteq Nat, S # {}
  PROVE  \E n \in S : \A m \in S : n <= m
<1>1. PICK n \in S : \A m \in S : ~(<<m, n>> \in OpToRel(<, Nat))
  BY NatLessThanWellFounded, WFMin
<1>2. \A m \in S : ~(m < n) BY <1>1 DEF OpToRel
<1> QED BY <1>2

\* Quotient and remainder.
LEMMA Division ==
  ASSUME NEW n \in Nat \ {0}, NEW i \in Nat
  PROVE  /\ (i % n) \in 0 .. n - 1
         /\ (i \div n) \in Nat
         /\ i = (n * (i \div n)) + (i % n)
OBVIOUS

\* The remainder of a number is unique.
LEMMA SameRemainder ==
  ASSUME NEW n \in Nat \ {0}, NEW p \in Int, NEW q \in Int,
         NEW r \in 0 .. n - 1, NEW s \in 0 .. n - 1, (n * p) + r = (n * q) + s
  PROVE  r = s
<1>1. p > q => n * p >= (n * q) + n OBVIOUS
<1>2. q > p => n * q >= (n * p) + n OBVIOUS
<1> QED BY <1>1, <1>2

\* Numbers less than n apart differ modulo n.
LEMMA DistinctRemainders ==
  ASSUME NEW n \in Nat \ {0}, NEW i \in Nat, NEW j \in Nat, i < j, j - i < n
  PROVE  i % n # j % n
<1>1. ASSUME NEW p \in Int, NEW q \in Int, NEW r \in Int, i = (n * p) + r, j = (n * q) + r
      PROVE  FALSE
  <2>1. q <= p => n * q <= n * p OBVIOUS
  <2>2. q >= p + 1 => n * q >= (n * p) + n OBVIOUS
  <2> QED BY <1>1, <2>1, <2>2
<1>2. /\ i = (n * (i \div n)) + (i % n) /\ i \div n \in Int /\ i % n \in Int
      /\ j = (n * (j \div n)) + (j % n) /\ j \div n \in Int /\ j % n \in Int
  OBVIOUS
<1> QED BY <1>1, <1>2

-----------------------------------------------------------------------------
(* The inductive invariant *)

SvRecord == [ state : {CS_ACTIVE, CS_ZOMBIE}, drop : DropSteps, reliableSequence : Nat,
              reliableAcknowledge : Nat, reliableCommands : Rings,
              lastClientCommand : Nat, lastClientCommandString : Texts,
              overflowed : Nat, lostCommands : BOOLEAN,
              garbled : BOOLEAN, executed : Seq(Texts) ]
ClRecord == [ state : ClientStates, reliableSequence : Nat,
              reliableAcknowledge : Nat, reliableCommands : Rings,
              serverCommandSequence : Nat, serverCommands : Rings,
              garbled : BOOLEAN, executed : Seq(Texts) ]

\* What stands for each command of the server: the one that overflowed was
\* never stored, its slot keeps the command one ring before it.
ServerTexts(overflowed) ==
  [n \in Nat |-> IF n > 0 /\ n = overflowed THEN n - MAX_RELIABLE_COMMANDS ELSE n]

\* Each command of the client.
ClientTexts(c) ==
  [n \in Nat |-> IF c.state = "disconnected" /\ n = c.reliableSequence
                 THEN DisconnectText(n) ELSE n]

\* The last commands up to the n-th are in their slots.
RingHolds(ring, n, texts) ==
  \A k \in 0 .. n : k > n - MAX_RELIABLE_COMMANDS => ring[Slot(k)] = texts[k]

\* The client is dropped, or about to be.
Dropped(s) == s.state = CS_ZOMBIE \/ s.drop # "no"

\* How many commands there can be: those of the game, and the prints and
\* disconnects of a drop inside a drop.
MaxIssued(s) ==
  MaxServerCommands + (IF s.drop = "told" THEN 1 ELSE 0) + (IF s.overflowed > 0 THEN 2 ELSE 0)

\* The server's side: its ring, and no more pending than the ring has room for
\* until a command overflows, which is once and drops the client.
SvInv(s) ==
  /\ s.overflowed <= s.reliableSequence
  /\ s.state = CS_ZOMBIE => s.drop = "no" /\ s.reliableSequence <= MaxServerCommands + 4
  /\ s.state = CS_ACTIVE => s.reliableSequence <= MaxIssued(s)
  /\ s.overflowed = 0 => s.reliableSequence - s.reliableAcknowledge <= MAX_RELIABLE_COMMANDS
  /\ s.overflowed > 0 => Dropped(s)
  /\ s.overflowed > 0 /\ s.state = CS_ACTIVE =>
       s.reliableSequence - s.reliableAcknowledge > MAX_RELIABLE_COMMANDS
  /\ RingHolds(s.reliableCommands, s.reliableSequence, ServerTexts(s.overflowed))
  /\ s.garbled => s.reliableSequence - s.reliableAcknowledge = MAX_RELIABLE_COMMANDS
  /\ ~s.lostCommands

\* The client's side.
ClInv(c) ==
  /\ c.reliableSequence <= MaxClientCommands + 1
  /\ c.state = "connected" =>
       /\ c.reliableSequence <= MaxClientCommands
       /\ c.reliableSequence - c.reliableAcknowledge <= MAX_RELIABLE_COMMANDS
  /\ c.state = "disconnected" => c.reliableSequence > 0
  /\ RingHolds(c.reliableCommands, c.reliableSequence, ClientTexts(c))
  /\ c.garbled => c.reliableSequence - c.reliableAcknowledge = MAX_RELIABLE_COMMANDS

\* What each side has of the other's commands.
Received(s, c) ==
  /\ s.reliableAcknowledge <= c.serverCommandSequence
  /\ c.serverCommandSequence <= s.reliableSequence
  /\ c.reliableAcknowledge <= s.lastClientCommand
  /\ s.lastClientCommand <= c.reliableSequence
  /\ RingHolds(c.serverCommands, c.serverCommandSequence, ServerTexts(s.overflowed))
  /\ s.lastClientCommandString = s.lastClientCommand \/ c.state = "disconnected"

\* What each side has executed.
Executed(s, c) ==
  /\ Len(s.executed) = s.lastClientCommand
  /\ \A i \in DOMAIN s.executed :
       \/ s.executed[i] = i
       \/ /\ i = Len(s.executed) /\ Dropped(s)
          /\ c.state = "disconnected"
          /\ s.executed[i] = DisconnectText(c.reliableSequence)
  /\ Len(c.executed) <= c.serverCommandSequence
  /\ \A i \in DOMAIN c.executed : c.executed[i] = ServerTexts(s.overflowed)[i]

\* The last command of a message.
LastOf(m) == m.first + Len(m.commands) - 1

\* The messages that may be on their way to the client, and to the server.
ToClientMessages(s, c) ==
  {m \in MessageType :
     /\ m.first \in 1 .. c.serverCommandSequence + 1
     /\ LastOf(m) <= s.reliableSequence
     /\ \A k \in m.first .. LastOf(m) :
          k > LastOf(m) - MAX_RELIABLE_COMMANDS =>
            m.commands[k - m.first + 1] = ServerTexts(s.overflowed)[k]
     /\ m.ack \in c.reliableAcknowledge .. s.lastClientCommand
     /\ m.key = m.ack \/ c.state = "disconnected"}

ToServerMessages(s, c) ==
  {m \in MessageType :
     /\ m.first \in 1 .. c.reliableAcknowledge + 1
     /\ LastOf(m) <= c.reliableSequence
     /\ \A i \in DOMAIN m.commands :
          \/ m.commands[i] = m.first + i - 1
          \/ /\ c.state = "disconnected"
             /\ m.commands[i] = DisconnectText(c.reliableSequence)
     /\ m.ack \in s.reliableAcknowledge .. c.serverCommandSequence
     /\ m.key = ServerTexts(s.overflowed)[m.ack]}

\* Acknowledgements in flight only move forward.
Ordered(q) == \A i, j \in DOMAIN q : i <= j => q[i].ack <= q[j].ack

SidesInv(s, c) ==
  /\ s \in SvRecord /\ c \in ClRecord
  /\ SvInv(s) /\ ClInv(c) /\ Received(s, c) /\ Executed(s, c)

IInv ==
  /\ SidesInv(sv, cl)
  /\ toClient \in Seq(ToClientMessages(sv, cl)) /\ Ordered(toClient)
  /\ toServer \in Seq(ToServerMessages(sv, cl)) /\ Ordered(toServer)

USE ReliableCommandsAssumption

-----------------------------------------------------------------------------
(* Rings *)

LEMMA SlotType == \A n \in Nat : Slot(n) \in 0 .. MAX_RELIABLE_COMMANDS - 1
BY Division DEF ReliableCommandsAssumption, Slot

LEMMA SlotsDiffer ==
  ASSUME NEW i \in Nat, NEW j \in Nat, i # j,
         i - j < MAX_RELIABLE_COMMANDS, j - i < MAX_RELIABLE_COMMANDS
  PROVE  Slot(i) # Slot(j)
<1>1. CASE i < j
  BY <1>1, DistinctRemainders DEF ReliableCommandsAssumption, Slot
<1>2. CASE j < i
  BY <1>2, DistinctRemainders DEF ReliableCommandsAssumption, Slot
<1> QED BY <1>1, <1>2

\* One ring later is the same slot.
LEMMA SlotAgain ==
  ASSUME NEW n \in Nat
  PROVE  Slot(n + MAX_RELIABLE_COMMANDS) = Slot(n)
<1> DEFINE K == MAX_RELIABLE_COMMANDS
           N == n + K
<1>1. K \in Nat \ {0} /\ N \in Nat
  BY DEF ReliableCommandsAssumption
<1>2. /\ N % K \in 0 .. K - 1 /\ N \div K \in Nat /\ N = (K * (N \div K)) + (N % K)
      /\ n % K \in 0 .. K - 1 /\ n \div K \in Nat /\ n = (K * (n \div K)) + (n % K)
  BY <1>1, Division
<1>3. K * ((n \div K) + 1) = (K * (n \div K)) + K
  BY <1>1, <1>2
<1>4. (K * ((n \div K) + 1)) + (n % K) = (K * (N \div K)) + (N % K)
  <2> DEFINE a == K * (n \div K)
             b == K * (N \div K)
             d == K * ((n \div K) + 1)
  <2>1. d = a + K /\ n = a + (n % K) /\ N = b + (N % K) /\ N = n + K
    BY <1>2, <1>3
  <2>2. a \in Int /\ b \in Int /\ d \in Int /\ n % K \in Int /\ N % K \in Int
    BY <1>1, <1>2
  <2> HIDE DEF a, b, d, N
  <2>3. d + (n % K) = b + (N % K)
    BY <1>1, <2>1, <2>2
  <2> QED BY <2>3 DEF b, d
<1>5. (n \div K) + 1 \in Int /\ N \div K \in Int
  BY <1>2
<1> HIDE DEF K, N
<1>6. N % K = n % K
  BY <1>1, <1>2, <1>4, <1>5, SameRemainder
<1> QED BY <1>6 DEF Slot, K, N

\* The command after the n-th takes the slot of the one that leaves the window.
LEMMA RingStore ==
  ASSUME NEW ring \in Rings, NEW n \in Nat, NEW texts, NEW newTexts,
         RingHolds(ring, n, texts),
         \A k \in 0 .. n : newTexts[k] = texts[k],
         newTexts[n + 1] \in Texts
  PROVE  /\ [ring EXCEPT ![Slot(n + 1)] = newTexts[n + 1]] \in Rings
         /\ RingHolds([ring EXCEPT ![Slot(n + 1)] = newTexts[n + 1]], n + 1, newTexts)
<1> DEFINE new == [ring EXCEPT ![Slot(n + 1)] = newTexts[n + 1]]
<1>1. Slot(n + 1) \in 0 .. MAX_RELIABLE_COMMANDS - 1
  BY SlotType
<1>2. new \in Rings
  BY <1>1 DEF Rings
<1>3. ASSUME NEW k \in 0 .. n + 1, k > n + 1 - MAX_RELIABLE_COMMANDS
      PROVE  new[Slot(k)] = newTexts[k]
  <2>1. CASE k = n + 1
    BY <1>1, <2>1 DEF Rings
  <2>2. CASE k # n + 1
    <3>1. /\ k \in 0 .. n /\ k > n - MAX_RELIABLE_COMMANDS
          /\ n + 1 - k < MAX_RELIABLE_COMMANDS /\ k - (n + 1) < MAX_RELIABLE_COMMANDS
      BY <1>3, <2>2 DEF ReliableCommandsAssumption
    <3>2. ring[Slot(k)] = newTexts[k]
      BY <3>1 DEF RingHolds
    <3>3. Slot(k) # Slot(n + 1)
      BY <2>2, <3>1, SlotsDiffer
    <3>4. Slot(k) \in 0 .. MAX_RELIABLE_COMMANDS - 1
      BY <3>1, SlotType
    <3> QED BY <1>1, <3>2, <3>3, <3>4 DEF Rings
  <2> QED BY <2>1, <2>2
<1> QED BY <1>2, <1>3 DEF RingHolds

\* A command that is counted but not stored leaves the text one ring before it.
LEMMA RingOverflow ==
  ASSUME NEW ring \in Rings, NEW n \in Nat, n + 1 >= MAX_RELIABLE_COMMANDS,
         RingHolds(ring, n, ServerTexts(0))
  PROVE  RingHolds(ring, n + 1, ServerTexts(n + 1))
<1> DEFINE K == MAX_RELIABLE_COMMANDS
<1>1. K \in Nat \ {0} /\ n + 1 - K \in Nat
  BY DEF ReliableCommandsAssumption
<1>2. ASSUME NEW k \in 0 .. n + 1, k > n + 1 - K
      PROVE  ring[Slot(k)] = ServerTexts(n + 1)[k]
  <2>1. CASE k = n + 1
    <3>1. /\ n + 1 - K \in 0 .. n /\ n + 1 - K > n - K
      BY <1>1
    <3>2. ring[Slot(n + 1 - K)] = ServerTexts(0)[n + 1 - K]
      BY <3>1 DEF RingHolds
    <3>3. Slot(n + 1) = Slot(n + 1 - K)
      BY <1>1, SlotAgain, (n + 1 - K) + K = n + 1
    <3>4. ServerTexts(0)[n + 1 - K] = n + 1 - K /\ ServerTexts(n + 1)[n + 1] = n + 1 - K
      BY <1>1 DEF ServerTexts
    <3> QED BY <2>1, <3>2, <3>3, <3>4
  <2>2. CASE k # n + 1
    <3>1. k \in 0 .. n /\ k > n - K
      BY <1>1, <1>2, <2>2
    <3>2. ring[Slot(k)] = ServerTexts(0)[k]
      BY <3>1 DEF RingHolds
    <3>3. ServerTexts(0)[k] = k /\ ServerTexts(n + 1)[k] = k
      BY <2>2, <3>1 DEF ServerTexts
    <3> QED BY <3>2, <3>3
  <2> QED BY <2>1, <2>2
<1> QED BY <1>2 DEF RingHolds

-----------------------------------------------------------------------------
(* The server's side *)

\* The text of a command that did not overflow is its number.
LEMMA ServerText ==
  ASSUME NEW overflowed \in Nat, NEW n \in Nat, n # overflowed
  PROVE  ServerTexts(overflowed)[n] = n
BY DEF ServerTexts

\* t is s with a command added to its ring.
OnlyCommandsDiffer(s, t) ==
  /\ t.state = s.state
  /\ t.reliableAcknowledge = s.reliableAcknowledge
  /\ t.lastClientCommand = s.lastClientCommand
  /\ t.lastClientCommandString = s.lastClientCommandString
  /\ t.overflowed = s.overflowed
  /\ t.lostCommands = s.lostCommands
  /\ t.garbled = s.garbled
  /\ t.executed = s.executed

\* One command more in the ring.
LEMMA StoreStep ==
  ASSUME NEW s \in SvRecord, NEW n \in Nat, n + 1 <= MaxServerCommands + 4,
         s.overflowed <= n,
         RingHolds(s.reliableCommands, n, ServerTexts(s.overflowed)),
         NEW next \in DropSteps, NEW t, t = Store(s, n + 1, next)
  PROVE  /\ t \in SvRecord /\ OnlyCommandsDiffer(s, t) /\ t.drop = next
         /\ t.reliableSequence = n + 1
         /\ RingHolds(t.reliableCommands, n + 1, ServerTexts(t.overflowed))
<1> DEFINE texts == ServerTexts(s.overflowed)
           ring  == s.reliableCommands
           new   == [ring EXCEPT ![Slot(n + 1)] = n + 1]
<1>1. /\ n + 1 \in Nat /\ n + 1 \in Texts /\ s.overflowed \in Nat /\ n + 1 # s.overflowed
      /\ ring \in Rings
  BY DEF SvRecord, ReliableCommandsAssumption, Texts
<1>2. texts[n + 1] = n + 1
  BY <1>1, ServerText
<1>3. new \in Rings /\ RingHolds(new, n + 1, texts)
  <2> HIDE DEF texts
  <2> QED BY <1>1, <1>2, RingStore DEF texts
<1>4. /\ t \in SvRecord /\ OnlyCommandsDiffer(s, t) /\ t.drop = next
      /\ t.reliableSequence = n + 1 /\ t.reliableCommands = new
  <2> HIDE DEF new
  <2>1. t = [s EXCEPT !.reliableSequence = n + 1, !.reliableCommands = new, !.drop = next]
    BY DEF Store, new
  <2> QED BY <1>1, <1>3, <2>1 DEF SvRecord, OnlyCommandsDiffer
<1> QED BY <1>3, <1>4 DEF OnlyCommandsDiffer

\* t is s with one more command, stored or overflowed.
Added(s, t, drop) ==
  /\ t \in SvRecord /\ t.state = s.state
  /\ t.reliableSequence = s.reliableSequence + 1
  /\ t.reliableAcknowledge = s.reliableAcknowledge
  /\ t.lastClientCommand = s.lastClientCommand
  /\ t.lastClientCommandString = s.lastClientCommandString
  /\ t.executed = s.executed
  /\ t.garbled = s.garbled /\ t.lostCommands = s.lostCommands
  /\ RingHolds(t.reliableCommands, t.reliableSequence, ServerTexts(t.overflowed))
  /\ \/ /\ t.drop = drop /\ t.overflowed = s.overflowed
        /\ s.reliableSequence - s.reliableAcknowledge # MAX_RELIABLE_COMMANDS
     \/ /\ t.drop = "print" /\ s.overflowed = 0 /\ t.overflowed = t.reliableSequence
        /\ s.reliableSequence - s.reliableAcknowledge = MAX_RELIABLE_COMMANDS

\* SV_AddServerCommand while the client is active.
LEMMA AddCommandStep ==
  ASSUME NEW s \in SvRecord, SvInv(s), s.state = CS_ACTIVE,
         s.reliableSequence < MaxServerCommands + 4,
         NEW next \in DropSteps, NEW t, t = AddCommand(s, next)
  PROVE  Added(s, t, next)
<1> DEFINE n == s.reliableSequence
           K == MAX_RELIABLE_COMMANDS
<1>1. /\ n \in Nat /\ s.overflowed \in Nat /\ s.overflowed <= n /\ K \in Nat \ {0}
      /\ s.reliableAcknowledge \in Nat /\ MaxServerCommands \in Nat
      /\ s.reliableCommands \in Rings
      /\ RingHolds(s.reliableCommands, n, ServerTexts(s.overflowed))
  BY DEF SvInv, SvRecord, ReliableCommandsAssumption
<1>2. CASE n + 1 - s.reliableAcknowledge = K + 1
  <2>1. s.overflowed = 0 /\ n + 1 >= K
    BY <1>1, <1>2 DEF SvInv
  <2>2. RingHolds(s.reliableCommands, n + 1, ServerTexts(n + 1))
    BY <1>1, <2>1, RingOverflow
  <2>3. t = Overflow(s, n + 1)
    BY <1>1, <1>2 DEF AddCommand
  <2>4. n + 1 \in Nat /\ "print" \in DropSteps
    BY <1>1 DEF DropSteps
  <2>5. /\ t \in SvRecord /\ t.drop = "print" /\ t.state = s.state
        /\ t.reliableSequence = n + 1 /\ t.overflowed = n + 1
        /\ t.reliableAcknowledge = s.reliableAcknowledge
        /\ t.reliableCommands = s.reliableCommands
        /\ t.lastClientCommand = s.lastClientCommand
        /\ t.lastClientCommandString = s.lastClientCommandString
        /\ t.executed = s.executed
        /\ t.garbled = s.garbled /\ t.lostCommands = s.lostCommands
    <3> DEFINE N == n + 1
    <3> HIDE DEF N
    <3>1. N \in Nat /\ t = Overflow(s, N)
      BY <2>3, <2>4 DEF N
    <3>2. /\ t \in SvRecord /\ t.drop = "print" /\ t.state = s.state
          /\ t.reliableSequence = N /\ t.overflowed = N
          /\ t.reliableAcknowledge = s.reliableAcknowledge
          /\ t.reliableCommands = s.reliableCommands
          /\ t.lastClientCommand = s.lastClientCommand
          /\ t.lastClientCommandString = s.lastClientCommandString
          /\ t.executed = s.executed
          /\ t.garbled = s.garbled /\ t.lostCommands = s.lostCommands
      BY <2>4, <3>1 DEF SvRecord, Overflow, DropClient
    <3> QED BY <3>2 DEF N
  <2>6. RingHolds(t.reliableCommands, t.reliableSequence, ServerTexts(t.overflowed))
    BY <2>2, <2>5
  <2> QED BY <1>1, <1>2, <2>1, <2>5, <2>6 DEF Added
<1>3. CASE n + 1 - s.reliableAcknowledge # K + 1
  <2>1. t = Store(s, n + 1, next)
    BY <1>1, <1>3 DEF AddCommand
  <2>2. /\ t \in SvRecord /\ OnlyCommandsDiffer(s, t) /\ t.drop = next
        /\ t.reliableSequence = n + 1
        /\ RingHolds(t.reliableCommands, n + 1, ServerTexts(t.overflowed))
    BY <1>1, <2>1, StoreStep
  <2> QED BY <1>1, <1>3, <2>2 DEF OnlyCommandsDiffer, Added
<1> QED BY <1>2, <1>3

\* A client may be dropped when no drop is under way.
Droppable(s) ==
  s \in SvRecord /\ SvInv(s) /\ s.state = CS_ACTIVE /\ s.drop = "no" /\ ~s.garbled

\* SV_DropClient begins: nothing changes yet.
LEMMA DropStep ==
  ASSUME NEW s, Droppable(s), NEW d, d = DropClient(s)
  PROVE  /\ d \in SvRecord /\ SvInv(d) /\ Dropped(d)
         /\ d.reliableSequence = s.reliableSequence
         /\ d.reliableAcknowledge = s.reliableAcknowledge
         /\ d.lastClientCommand = s.lastClientCommand
         /\ d.lastClientCommandString = s.lastClientCommandString
         /\ d.executed = s.executed
         /\ d.overflowed = s.overflowed
<1>1. s \in SvRecord /\ "print" \in DropSteps
  BY DEF Droppable, DropSteps
<1>2. /\ d \in SvRecord /\ d.drop = "print" /\ d.state = s.state
      /\ d.reliableSequence = s.reliableSequence
      /\ d.reliableAcknowledge = s.reliableAcknowledge
      /\ d.reliableCommands = s.reliableCommands
      /\ d.lastClientCommand = s.lastClientCommand
      /\ d.lastClientCommandString = s.lastClientCommandString
      /\ d.executed = s.executed /\ d.overflowed = s.overflowed
      /\ d.garbled = s.garbled /\ d.lostCommands = s.lostCommands
  BY <1>1 DEF DropClient, SvRecord
<1>3. SvInv(d) /\ Dropped(d)
  BY <1>2 DEF Droppable, SvInv, Dropped, MaxIssued, CS_ACTIVE, CS_ZOMBIE
<1> QED BY <1>2, <1>3

-----------------------------------------------------------------------------
(* Messages in flight *)

\* How the two sides move: nothing is taken back.
Later(s, c, t, d) ==
  /\ s.reliableSequence <= t.reliableSequence
  /\ \/ t.overflowed = s.overflowed
     \/ s.overflowed = 0 /\ t.overflowed > s.reliableSequence
  /\ s.reliableAcknowledge <= t.reliableAcknowledge
  /\ s.lastClientCommand <= t.lastClientCommand
  /\ c.reliableSequence <= d.reliableSequence
  /\ c.reliableAcknowledge <= d.reliableAcknowledge
  /\ c.serverCommandSequence <= d.serverCommandSequence
  /\ c.state = "disconnected" =>
       d.state = "disconnected" /\ d.reliableSequence = c.reliableSequence

\* An overflow changes no text of a command issued before it.
LEMMA SameTexts ==
  ASSUME NEW n \in Nat, NEW v \in Nat, NEW w \in Nat, w = v \/ (v = 0 /\ w > n)
  PROVE  \A k \in 0 .. n : ServerTexts(w)[k] = ServerTexts(v)[k]
BY DEF ServerTexts

\* Messages in flight stay what they may be.
LEMMA ToClientSurvives ==
  ASSUME NEW s, NEW c, NEW t, NEW d, SidesInv(s, c), SidesInv(t, d), Later(s, c, t, d),
         NEW m \in ToClientMessages(s, c), m.ack >= d.reliableAcknowledge
  PROVE  m \in ToClientMessages(t, d)
<1>1. /\ s.reliableSequence \in Nat /\ t.reliableSequence \in Nat
      /\ s.lastClientCommand \in Nat /\ t.lastClientCommand \in Nat
      /\ c.serverCommandSequence \in Nat /\ d.serverCommandSequence \in Nat
      /\ c.reliableAcknowledge \in Nat /\ d.reliableAcknowledge \in Nat
      /\ s.overflowed \in Nat /\ t.overflowed \in Nat
      /\ s.overflowed <= s.reliableSequence
  BY DEF SidesInv, SvRecord, ClRecord, SvInv
<1>2. m \in MessageType /\ m.first \in Nat /\ m.ack \in Nat /\ LastOf(m) \in Int
  BY DEF ToClientMessages, MessageType, LastOf
<1>3. ASSUME NEW k \in m.first .. LastOf(m), k > LastOf(m) - MAX_RELIABLE_COMMANDS
      PROVE  m.commands[k - m.first + 1] = ServerTexts(t.overflowed)[k]
  <2>1. k \in 0 .. s.reliableSequence
    BY <1>1, <1>2 DEF ToClientMessages
  <2>2. ServerTexts(t.overflowed)[k] = ServerTexts(s.overflowed)[k]
    BY <1>1, <2>1, SameTexts DEF Later
  <2> QED BY <1>3, <2>2 DEF ToClientMessages
<1>4. /\ m.first \in 1 .. d.serverCommandSequence + 1
      /\ LastOf(m) <= t.reliableSequence
      /\ m.ack \in d.reliableAcknowledge .. t.lastClientCommand
  BY <1>1, <1>2 DEF ToClientMessages, Later
<1>5. m.key = m.ack \/ d.state = "disconnected"
  BY DEF ToClientMessages, Later
<1> QED BY <1>2, <1>3, <1>4, <1>5 DEF ToClientMessages

LEMMA ToServerSurvives ==
  ASSUME NEW s, NEW c, NEW t, NEW d, SidesInv(s, c), SidesInv(t, d), Later(s, c, t, d),
         NEW m \in ToServerMessages(s, c), m.ack >= t.reliableAcknowledge
  PROVE  m \in ToServerMessages(t, d)
<1>1. /\ s.reliableSequence \in Nat /\ c.reliableSequence \in Nat
      /\ d.reliableSequence \in Nat
      /\ c.serverCommandSequence \in Nat /\ d.serverCommandSequence \in Nat
      /\ c.reliableAcknowledge \in Nat /\ d.reliableAcknowledge \in Nat
      /\ s.reliableAcknowledge \in Nat /\ t.reliableAcknowledge \in Nat
      /\ s.overflowed \in Nat /\ t.overflowed \in Nat
      /\ s.overflowed <= s.reliableSequence
      /\ c.serverCommandSequence <= s.reliableSequence
  BY DEF SidesInv, SvRecord, ClRecord, SvInv, Received
<1>2. m \in MessageType /\ m.first \in Nat /\ m.ack \in Nat /\ LastOf(m) \in Int
  BY DEF ToServerMessages, MessageType, LastOf
<1>3. m.key = ServerTexts(t.overflowed)[m.ack]
  <2>1. m.ack \in 0 .. s.reliableSequence
    BY <1>1, <1>2 DEF ToServerMessages
  <2>2. ServerTexts(t.overflowed)[m.ack] = ServerTexts(s.overflowed)[m.ack]
    BY <1>1, <2>1, SameTexts DEF Later
  <2> QED BY <2>2 DEF ToServerMessages
<1>4. /\ m.first \in 1 .. d.reliableAcknowledge + 1
      /\ LastOf(m) <= d.reliableSequence
      /\ m.ack \in t.reliableAcknowledge .. d.serverCommandSequence
  BY <1>1, <1>2 DEF ToServerMessages, Later
<1>5. \A i \in DOMAIN m.commands :
        \/ m.commands[i] = m.first + i - 1
        \/ /\ d.state = "disconnected"
           /\ m.commands[i] = DisconnectText(d.reliableSequence)
  BY DEF ToServerMessages, Later
<1> QED BY <1>2, <1>3, <1>4, <1>5 DEF ToServerMessages

\* A sequence is over any set that holds its elements.
LEMMA SameSeq ==
  ASSUME NEW M, NEW N, NEW q \in Seq(M), \A i \in 1 .. Len(q) : q[i] \in N
  PROVE  q \in Seq(N)
<1>1. Len(q) \in Nat /\ q \in [1 .. Len(q) -> M]
  BY LenProperties
<1>2. q \in [1 .. Len(q) -> N]
  BY <1>1
<1> QED BY <1>1, <1>2, SeqDef

\* Queues: what is left when the first message is read, when one is lost, and
\* when one is sent.
LEMMA QueueTail ==
  ASSUME NEW M, NEW q \in Seq(M), q # <<>>, Ordered(q)
  PROVE  /\ Head(q) \in M
         /\ Tail(q) \in Seq({m \in M : Head(q).ack <= m.ack})
         /\ Ordered(Tail(q))
<1>1. Len(q) \in Nat /\ Len(q) > 0 /\ \A i \in 1 .. Len(q) : q[i] \in M
  BY EmptySeq, LenProperties, ElementOfSeq
<1>2. /\ Tail(q) \in Seq(M) /\ Len(Tail(q)) = Len(q) - 1
      /\ \A i \in 1 .. Len(Tail(q)) : Tail(q)[i] = q[i + 1]
  BY HeadTailProperties
<1>3. Head(q) = q[1] /\ 1 \in 1 .. Len(q)
  BY <1>1, HeadTailProperties
<1>4. \A i \in 1 .. Len(Tail(q)) : i + 1 \in 1 .. Len(q)
  BY <1>1, <1>2
<1>5. \A i \in 1 .. Len(Tail(q)) : Tail(q)[i] \in {m \in M : Head(q).ack <= m.ack}
  <2>1. \A i \in 1 .. Len(q) : q[1].ack <= q[i].ack
    BY <1>3, <1>1 DEF Ordered
  <2> QED BY <1>1, <1>2, <1>3, <1>4, <2>1
<1>6. Tail(q) \in Seq({m \in M : Head(q).ack <= m.ack})
  <2> DEFINE N == {m \in M : Head(q).ack <= m.ack}
  <2> HIDE DEF N
  <2> QED BY <1>2, <1>5, SameSeq DEF N
<1>7. Ordered(Tail(q))
  <2>1. DOMAIN q = 1 .. Len(q) /\ DOMAIN Tail(q) = 1 .. Len(Tail(q))
    BY <1>2, LenProperties
  <2>2. \A i, j \in 1 .. Len(Tail(q)) : i <= j => Tail(q)[i].ack <= Tail(q)[j].ack
    BY <1>1, <1>2, <1>4, <2>1 DEF Ordered
  <2> QED BY <2>1, <2>2 DEF Ordered
<1> QED BY <1>1, <1>3, <1>6, <1>7

LEMMA QueueWithout ==
  ASSUME NEW M, NEW q \in Seq(M), Ordered(q), NEW i \in DOMAIN q
  PROVE  Without(q, i) \in Seq(M) /\ Ordered(Without(q, i))
<1> DEFINE left  == SubSeq(q, 1, i - 1)
           right == SubSeq(q, i + 1, Len(q))
           w     == left \o right
           At(k) == IF k < i THEN k ELSE k + 1
<1>1. Len(q) \in Nat /\ DOMAIN q = 1 .. Len(q) /\ i \in 1 .. Len(q)
      /\ \A k \in 1 .. Len(q) : q[k] \in M
  BY LenProperties, ElementOfSeq
<1>2. /\ left \in Seq(M) /\ Len(left) = i - 1
      /\ \A k \in 1 .. i - 1 : left[k] = q[k]
  <2>1. i - 1 \in 0 .. Len(q) /\ \A k \in 1 .. i - 1 : q[k] \in M
    BY <1>1
  <2> QED BY <2>1, SubSeqProperties
<1>3. /\ right \in Seq(M) /\ Len(right) = Len(q) - i
      /\ \A k \in 1 .. Len(q) - i : right[k] = q[i + k]
  <2>1. i + 1 \in 1 .. Len(q) + 1 /\ \A k \in i + 1 .. Len(q) : q[k] \in M
    BY <1>1
  <2> QED BY <1>1, <2>1, SubSeqProperties
<1> HIDE DEF left, right
<1>4. /\ w \in Seq(M) /\ Len(w) = Len(q) - 1
      /\ \A k \in 1 .. Len(q) - 1 : w[k] = q[At(k)] /\ At(k) \in 1 .. Len(q)
  <2>1. /\ w \in Seq(M) /\ Len(w) = Len(left) + Len(right)
        /\ \A k \in 1 .. Len(left) + Len(right) :
             w[k] = IF k <= Len(left) THEN left[k] ELSE right[k - Len(left)]
    BY <1>2, <1>3, ConcatProperties
  <2>2. ASSUME NEW k \in 1 .. Len(q) - 1
        PROVE  w[k] = q[At(k)] /\ At(k) \in 1 .. Len(q)
    <3>1. w[k] = IF k <= Len(left) THEN left[k] ELSE right[k - Len(left)]
      BY <1>1, <1>2, <1>3, <2>1
    <3> HIDE DEF w
    <3>2. CASE k < i
      <4>1. At(k) = k /\ k \in 1 .. i - 1
        BY <1>1, <3>2
      <4> QED BY <1>1, <1>2, <3>1, <4>1
    <3>3. CASE k >= i
      <4>1. k - (i - 1) \in 1 .. Len(q) - i /\ i + (k - (i - 1)) = k + 1
        BY <1>1, <3>3
      <4>2. w[k] = right[k - (i - 1)]
        BY <1>1, <1>2, <3>1, <3>3
      <4>3. right[k - (i - 1)] = q[i + (k - (i - 1))]
        BY <1>3, <4>1
      <4>4. At(k) = k + 1 /\ k + 1 \in 1 .. Len(q)
        BY <1>1, <3>3
      <4> HIDE DEF At
      <4> QED BY <4>1, <4>2, <4>3, <4>4
    <3>4. k < i \/ k >= i
      BY <1>1
    <3> QED BY <3>2, <3>3, <3>4
  <2> HIDE DEF w, At
  <2> QED BY <1>1, <1>2, <1>3, <2>1, <2>2
<1>5. DOMAIN w = 1 .. Len(q) - 1
  BY <1>4, LenProperties
<1>6. ASSUME NEW j \in 1 .. Len(q) - 1, NEW k \in 1 .. Len(q) - 1, j <= k
      PROVE  w[j].ack <= w[k].ack
  <2>1. At(j) <= At(k)
    BY <1>1, <1>6
  <2> HIDE DEF w, At
  <2> QED BY <1>1, <1>4, <2>1 DEF Ordered
<1> QED BY <1>4, <1>5, <1>6 DEF Without, Ordered, left, right

LEMMA QueueAppend ==
  ASSUME NEW M, NEW q \in Seq(M), Ordered(q), NEW m \in M,
         \A x \in M : x.ack \in Nat /\ x.ack <= m.ack
  PROVE  Append(q, m) \in Seq(M) /\ Ordered(Append(q, m))
<1>1. Len(q) \in Nat /\ DOMAIN q = 1 .. Len(q) /\ \A k \in 1 .. Len(q) : q[k] \in M
  BY LenProperties, ElementOfSeq
<1>2. /\ Append(q, m) \in Seq(M) /\ Len(Append(q, m)) = Len(q) + 1
      /\ \A k \in 1 .. Len(q) : Append(q, m)[k] = q[k]
      /\ Append(q, m)[Len(q) + 1] = m
  BY AppendProperties
<1>3. DOMAIN Append(q, m) = 1 .. Len(q) + 1
  BY <1>2, LenProperties
<1>4. \A j, k \in 1 .. Len(q) + 1 : j <= k => Append(q, m)[j].ack <= Append(q, m)[k].ack
  BY <1>1, <1>2 DEF Ordered
<1> QED BY <1>2, <1>3, <1>4 DEF Ordered

LEMMA QueueType ==
  ASSUME NEW M, NEW N, NEW q \in Seq(M), \A m \in M : m \in N
  PROVE  q \in Seq(N)
<1>1. \A k \in 1 .. Len(q) : q[k] \in N
  BY ElementOfSeq
<1> QED BY <1>1, SameSeq

-----------------------------------------------------------------------------
(* Steps of the server *)

\* What a step of the server has to keep.
LEMMA ServerMoves ==
  ASSUME NEW s, NEW c, SidesInv(s, c), NEW t \in SvRecord, SvInv(t),
         s.reliableSequence <= t.reliableSequence,
         s.reliableAcknowledge <= t.reliableAcknowledge,
         t.reliableAcknowledge <= c.serverCommandSequence,
         s.lastClientCommand <= t.lastClientCommand,
         t.lastClientCommand <= c.reliableSequence,
         \/ t.lastClientCommandString = t.lastClientCommand
         \/ c.state = "disconnected",
         \/ t.overflowed = s.overflowed
         \/ s.overflowed = 0 /\ t.overflowed > s.reliableSequence,
         Len(t.executed) = t.lastClientCommand,
         \A i \in DOMAIN t.executed :
           \/ t.executed[i] = i
           \/ /\ i = Len(t.executed) /\ Dropped(t)
              /\ c.state = "disconnected"
              /\ t.executed[i] = DisconnectText(c.reliableSequence)
  PROVE  SidesInv(t, c) /\ Later(s, c, t, c)
<1>1. /\ s \in SvRecord /\ c \in ClRecord /\ SvInv(s) /\ ClInv(c)
      /\ Received(s, c) /\ Executed(s, c)
  BY DEF SidesInv
<1>2. /\ s.reliableSequence \in Nat /\ t.reliableSequence \in Nat
      /\ s.overflowed \in Nat /\ t.overflowed \in Nat
      /\ c.serverCommandSequence \in Nat
      /\ c.serverCommandSequence <= s.reliableSequence
      /\ c.executed \in Seq(Texts)
      /\ s.lastClientCommand \in Nat /\ t.lastClientCommand \in Nat
      /\ c.reliableSequence \in Nat /\ c.reliableAcknowledge \in Nat
  BY <1>1 DEF SvRecord, ClRecord, Received
<1>3. \A k \in 0 .. s.reliableSequence :
        ServerTexts(t.overflowed)[k] = ServerTexts(s.overflowed)[k]
  <2> DEFINE v == s.overflowed
             w == t.overflowed
             n == s.reliableSequence
  <2>1. n \in Nat /\ v \in Nat /\ w \in Nat /\ (w = v \/ (v = 0 /\ w > n))
    BY <1>2
  <2> HIDE DEF v, w, n
  <2>2. \A k \in 0 .. n : ServerTexts(w)[k] = ServerTexts(v)[k]
    BY <2>1, SameTexts
  <2> QED BY <2>2 DEF v, w, n
<1>4. Received(t, c)
  <2>1. RingHolds(c.serverCommands, c.serverCommandSequence, ServerTexts(t.overflowed))
    <3>1. \A k \in 0 .. c.serverCommandSequence : k \in 0 .. s.reliableSequence
      BY <1>2
    <3> QED BY <1>1, <1>3, <3>1 DEF Received, RingHolds
  <2> QED BY <1>1, <1>2, <2>1 DEF Received
<1>5. Executed(t, c)
  <2>1. Len(c.executed) \in Nat /\ DOMAIN c.executed = 1 .. Len(c.executed)
        /\ Len(c.executed) <= c.serverCommandSequence
    BY <1>1, <1>2, LenProperties DEF Executed
  <2>2. \A i \in DOMAIN c.executed : i \in 0 .. s.reliableSequence
    BY <1>2, <2>1
  <2>3. \A i \in DOMAIN c.executed : c.executed[i] = ServerTexts(t.overflowed)[i]
    BY <1>1, <1>3, <2>2 DEF Executed
  <2> QED BY <2>1, <2>3 DEF Executed
<1>6. Later(s, c, t, c)
  BY <1>2 DEF Later
<1> QED BY <1>1, <1>4, <1>5, <1>6 DEF SidesInv

\* The server issues commands, and drops the client or not.
LEMMA ServerIssues ==
  ASSUME NEW s, NEW c, SidesInv(s, c), NEW t \in SvRecord, SvInv(t),
         Dropped(s) => Dropped(t),
         t.reliableSequence >= s.reliableSequence,
         t.reliableAcknowledge = s.reliableAcknowledge,
         t.lastClientCommand = s.lastClientCommand,
         t.lastClientCommandString = s.lastClientCommandString,
         t.executed = s.executed,
         \/ t.overflowed = s.overflowed
         \/ s.overflowed = 0 /\ t.overflowed > s.reliableSequence
  PROVE  SidesInv(t, c) /\ Later(s, c, t, c)
<1>1. /\ s \in SvRecord /\ Received(s, c) /\ Executed(s, c)
  BY DEF SidesInv
<1>2. /\ s.reliableSequence <= t.reliableSequence
      /\ s.reliableAcknowledge <= t.reliableAcknowledge
      /\ t.reliableAcknowledge <= c.serverCommandSequence
      /\ s.lastClientCommand <= t.lastClientCommand
      /\ t.lastClientCommand <= c.reliableSequence
      /\ \/ t.lastClientCommandString = t.lastClientCommand
         \/ c.state = "disconnected"
  BY <1>1 DEF SvRecord, Received
<1>3. /\ Len(t.executed) = t.lastClientCommand
      /\ \A i \in DOMAIN t.executed :
           \/ t.executed[i] = i
           \/ /\ i = Len(t.executed) /\ Dropped(t)
              /\ c.state = "disconnected"
              /\ t.executed[i] = DisconnectText(c.reliableSequence)
  BY <1>1 DEF Executed
<1> QED BY <1>2, <1>3, ServerMoves

\* A connected client may be dropped at any time.
LEMMA ServerDrops ==
  ASSUME NEW s, NEW c, SidesInv(s, c), s.state # CS_ZOMBIE, s.drop = "no", ~s.garbled
  PROVE  /\ SidesInv(DropClient(s), c) /\ Later(s, c, DropClient(s), c)
         /\ DropClient(s).reliableAcknowledge = s.reliableAcknowledge
<1>1. s \in SvRecord /\ SvInv(s)
  BY DEF SidesInv
<1>2. Droppable(s)
  BY <1>1 DEF SvRecord, Droppable
<1> DEFINE d == DropClient(s)
<1>3. /\ d \in SvRecord /\ SvInv(d) /\ Dropped(d)
      /\ d.reliableSequence = s.reliableSequence
      /\ d.reliableAcknowledge = s.reliableAcknowledge
      /\ d.lastClientCommand = s.lastClientCommand
      /\ d.lastClientCommandString = s.lastClientCommandString
      /\ d.executed = s.executed /\ d.overflowed = s.overflowed
  BY <1>2, DropStep
<1> HIDE DEF d
<1>4. d.reliableSequence >= s.reliableSequence
  BY <1>1, <1>3 DEF SvRecord
<1>5. SidesInv(d, c) /\ Later(s, c, d, c)
  BY <1>3, <1>4, ServerIssues
<1> QED BY <1>3, <1>5 DEF d

\* The command has been added; what is left of a drop is under way or done.
LEMMA CommandAdded ==
  ASSUME NEW s, NEW c, SidesInv(s, c), NEW u, NEW drop \in DropSteps, Added(s, u, drop),
         NEW t \in SvRecord, SvInv(t), Dropped(s) => Dropped(t),
         t.reliableSequence = u.reliableSequence,
         t.reliableAcknowledge = u.reliableAcknowledge,
         t.lastClientCommand = u.lastClientCommand,
         t.lastClientCommandString = u.lastClientCommandString,
         t.executed = u.executed, t.overflowed = u.overflowed
  PROVE  /\ SidesInv(t, c) /\ Later(s, c, t, c)
         /\ t.reliableAcknowledge = s.reliableAcknowledge
<1>1. /\ s.reliableSequence \in Nat
      /\ t.reliableSequence >= s.reliableSequence
      /\ \/ t.overflowed = s.overflowed
         \/ s.overflowed = 0 /\ t.overflowed > s.reliableSequence
  BY DEF SidesInv, SvRecord, Added
<1> QED BY <1>1, ServerIssues DEF Added

\* A command of the game.
LEMMA AddServerCommandStep ==
  ASSUME SidesInv(sv, cl), SV_AddServerCommand
  PROVE  /\ SidesInv(sv', cl) /\ Later(sv, cl, sv', cl)
         /\ sv'.reliableAcknowledge = sv.reliableAcknowledge
<1>1. /\ sv \in SvRecord /\ SvInv(sv) /\ sv.state = CS_ACTIVE
      /\ sv.reliableSequence < MaxServerCommands /\ ~sv.garbled
      /\ sv.drop \in DropSteps /\ sv.drop # "print" /\ sv' = AddCommand(sv, sv.drop)
  BY DEF SidesInv, SvRecord, SV_AddServerCommand, ServerRuns
<1>2. /\ sv.reliableSequence \in Nat /\ sv.reliableAcknowledge \in Nat
      /\ sv.overflowed \in Nat /\ MAX_RELIABLE_COMMANDS \in Nat \ {0}
      /\ MaxServerCommands \in Nat /\ sv.reliableSequence < MaxServerCommands + 4
  BY <1>1 DEF SvRecord, ReliableCommandsAssumption
<1>3. Added(sv, sv', sv.drop)
  BY <1>1, <1>2, AddCommandStep
<1>4. SvInv(sv')
  BY <1>1, <1>2, <1>3 DEF Added, SvInv, Dropped, MaxIssued, CS_ACTIVE, CS_ZOMBIE
<1>5. Dropped(sv) => Dropped(sv')
  BY <1>3 DEF Added, Dropped
<1> QED BY <1>1, <1>3, <1>4, <1>5, CommandAdded DEF Added

\* The print of a drop.
LEMMA DropClientPrintStep ==
  ASSUME SidesInv(sv, cl), SV_DropClientPrint
  PROVE  /\ SidesInv(sv', cl) /\ Later(sv, cl, sv', cl)
         /\ sv'.reliableAcknowledge = sv.reliableAcknowledge
<1>1. /\ sv \in SvRecord /\ SvInv(sv) /\ sv.state = CS_ACTIVE
      /\ sv.drop = "print" /\ ~sv.garbled /\ sv' = AddCommand(sv, "told")
      /\ "told" \in DropSteps
  BY DEF SidesInv, SvInv, SvRecord, SV_DropClientPrint, ServerRuns, DropSteps
<1>2. /\ sv.reliableSequence \in Nat /\ sv.reliableAcknowledge \in Nat
      /\ sv.overflowed \in Nat /\ MAX_RELIABLE_COMMANDS \in Nat \ {0}
      /\ MaxServerCommands \in Nat /\ sv.reliableSequence < MaxServerCommands + 4
  BY <1>1 DEF SvRecord, SvInv, MaxIssued, ReliableCommandsAssumption
<1>3. Added(sv, sv', "told")
  BY <1>1, <1>2, AddCommandStep
<1>4. SvInv(sv')
  BY <1>1, <1>2, <1>3 DEF Added, SvInv, Dropped, MaxIssued, CS_ACTIVE, CS_ZOMBIE
<1>5. Dropped(sv')
  BY <1>3 DEF Added, Dropped
<1> QED BY <1>1, <1>3, <1>4, <1>5, CommandAdded DEF Added

\* The disconnect of a drop, which ends it or begins another.
LEMMA DropClientDisconnectStep ==
  ASSUME SidesInv(sv, cl), SV_DropClientDisconnect
  PROVE  /\ SidesInv(sv', cl) /\ Later(sv, cl, sv', cl)
         /\ sv'.reliableAcknowledge = sv.reliableAcknowledge
<1> DEFINE u == AddCommand(sv, "no")
<1>1. /\ sv \in SvRecord /\ SvInv(sv) /\ sv.state = CS_ACTIVE
      /\ sv.drop = "told" /\ ~sv.garbled
      /\ sv' = IF u.drop = "no" THEN [u EXCEPT !.state = CS_ZOMBIE] ELSE u
      /\ "no" \in DropSteps
  BY DEF SidesInv, SvInv, SvRecord, SV_DropClientDisconnect, ServerRuns, DropSteps
<1>2. /\ sv.reliableSequence \in Nat /\ sv.reliableAcknowledge \in Nat
      /\ sv.overflowed \in Nat /\ MAX_RELIABLE_COMMANDS \in Nat \ {0}
      /\ MaxServerCommands \in Nat /\ sv.reliableSequence < MaxServerCommands + 4
  BY <1>1 DEF SvRecord, SvInv, MaxIssued, ReliableCommandsAssumption
<1>3. Added(sv, u, "no")
  BY <1>1, <1>2, AddCommandStep
<1> HIDE DEF u
<1>4. CASE u.drop = "no"
  <2>1. /\ sv' \in SvRecord /\ sv'.state = CS_ZOMBIE /\ sv'.drop = "no"
        /\ sv'.reliableSequence = u.reliableSequence
        /\ sv'.reliableAcknowledge = u.reliableAcknowledge
        /\ sv'.reliableCommands = u.reliableCommands
        /\ sv'.lastClientCommand = u.lastClientCommand
        /\ sv'.lastClientCommandString = u.lastClientCommandString
        /\ sv'.executed = u.executed /\ sv'.overflowed = u.overflowed
        /\ sv'.garbled = u.garbled /\ sv'.lostCommands = u.lostCommands
    BY <1>1, <1>3, <1>4 DEF Added, SvRecord
  <2>2. SvInv(sv') /\ Dropped(sv')
    BY <1>1, <1>2, <1>3, <1>4, <2>1
       DEF Added, SvInv, Dropped, MaxIssued, CS_ACTIVE, CS_ZOMBIE
  <2> QED BY <1>1, <1>3, <2>1, <2>2, CommandAdded
<1>5. CASE u.drop # "no"
  <2>1. SvInv(u) /\ Dropped(u)
    BY <1>1, <1>2, <1>3, <1>5 DEF Added, SvInv, Dropped, MaxIssued, CS_ACTIVE, CS_ZOMBIE
  <2> QED BY <1>1, <1>3, <1>5, <2>1, CommandAdded DEF Added
<1> QED BY <1>4, <1>5

\* A message acknowledges commands of the server.
LEMMA AcknowledgeStep ==
  ASSUME NEW s, NEW c, SidesInv(s, c), ~s.garbled, NEW ack \in Nat,
         s.state # CS_ZOMBIE => s.drop = "no",
         s.reliableAcknowledge <= ack, ack <= c.serverCommandSequence,
         NEW t, t = [s EXCEPT !.reliableAcknowledge = ack]
  PROVE  /\ SidesInv(t, c) /\ Later(s, c, t, c)
         /\ t.reliableAcknowledge = ack
         /\ t.reliableSequence = s.reliableSequence
         /\ t.state = s.state /\ t.drop = s.drop /\ ~t.garbled
         /\ t.lastClientCommand = s.lastClientCommand
<1>1. s \in SvRecord /\ SvInv(s) /\ Received(s, c) /\ Executed(s, c)
  BY DEF SidesInv
<1>2. /\ t \in SvRecord /\ t.state = s.state /\ t.drop = s.drop
      /\ t.reliableSequence = s.reliableSequence /\ t.reliableAcknowledge = ack
      /\ t.reliableCommands = s.reliableCommands
      /\ t.lastClientCommand = s.lastClientCommand
      /\ t.lastClientCommandString = s.lastClientCommandString
      /\ t.overflowed = s.overflowed /\ t.lostCommands = s.lostCommands
      /\ t.garbled = s.garbled /\ t.executed = s.executed
  BY <1>1 DEF SvRecord
<1>3. /\ s.reliableSequence \in Nat /\ s.reliableAcknowledge \in Nat
      /\ s.lastClientCommand \in Nat
  BY <1>1 DEF SvRecord
<1>4. SvInv(t)
  <2>1. /\ s.overflowed \in Nat /\ s.state \in {CS_ACTIVE, CS_ZOMBIE}
        /\ MaxIssued(t) = MaxIssued(s) /\ MAX_RELIABLE_COMMANDS \in Nat
        /\ Dropped(t) <=> Dropped(s)
    BY <1>1, <1>2 DEF SvRecord, MaxIssued, Dropped, ReliableCommandsAssumption
  <2>2. s.overflowed > 0 => s.state = CS_ZOMBIE
    BY <1>1 DEF SvInv, Dropped
  <2>3. s.state = CS_ZOMBIE => s.state # CS_ACTIVE
    BY DEF CS_ACTIVE, CS_ZOMBIE
  <2>4. s.overflowed = 0 => s.reliableSequence - ack <= MAX_RELIABLE_COMMANDS
    BY <1>1, <1>3, <2>1 DEF SvInv
  <2> QED BY <1>1, <1>2, <2>1, <2>2, <2>3, <2>4 DEF SvInv
<1>5. SidesInv(t, c) /\ Later(s, c, t, c)
  <2>1. /\ s.reliableSequence <= t.reliableSequence
        /\ s.reliableAcknowledge <= t.reliableAcknowledge
        /\ t.reliableAcknowledge <= c.serverCommandSequence
        /\ s.lastClientCommand <= t.lastClientCommand
        /\ t.lastClientCommand <= c.reliableSequence
        /\ \/ t.lastClientCommandString = t.lastClientCommand
           \/ c.state = "disconnected"
    BY <1>1, <1>2, <1>3 DEF Received
  <2>2. /\ Len(t.executed) = t.lastClientCommand
        /\ \A i \in DOMAIN t.executed :
             \/ t.executed[i] = i
             \/ /\ i = Len(t.executed) /\ Dropped(t)
                /\ c.state = "disconnected"
                /\ t.executed[i] = DisconnectText(c.reliableSequence)
    BY <1>1, <1>2 DEF Executed, Dropped
  <2> QED BY <1>2, <1>4, <2>1, <2>2, ServerMoves
<1> QED BY <1>2, <1>5

\* s after the commands from .. until of m.
Performed(s, m, from, until) ==
  [s EXCEPT !.lastClientCommand = m.first + until - 1,
            !.lastClientCommandString = m.commands[until],
            !.executed = @ \o SubSeq(m.commands, from, until)]

\* The commands from .. until of q, from being the command awaited, continue
\* the commands e: in order, the last one excepted.
Continues(e, q, f, from, until) ==
  /\ e \in Seq(Texts) /\ q \in Seq(Texts) /\ f \in Nat
  /\ from \in Int /\ until \in Int
  /\ 1 <= from /\ from <= until /\ until <= Len(q) /\ f + from = Len(e) + 2
  /\ \A i \in 1 .. Len(e) : e[i] = i
  /\ \A i \in from .. until - 1 : q[i] = f + i - 1

Continued(w, last, text) ==
  /\ w \in Seq(Texts) /\ Len(w) = last
  /\ \A j \in 1 .. last - 1 : w[j] = j
  /\ w[last] = text

\* Executing them keeps the commands in order.
LEMMA ExecutedTexts ==
  ASSUME NEW e, NEW q, NEW f, NEW from, NEW until, Continues(e, q, f, from, until)
  PROVE  Continued(e \o SubSeq(q, from, until), f + until - 1, q[until])
<1> DEFINE new  == SubSeq(q, from, until)
           n    == Len(e)
           k    == until - from + 1
           w    == e \o new
<1> USE DEF Continues
<1>1. /\ n \in Nat /\ Len(q) \in Nat /\ k \in Nat
      /\ \A i \in from .. until : q[i] \in Texts
  <2>1. n \in Nat /\ Len(q) \in Nat /\ \A i \in 1 .. Len(q) : q[i] \in Texts
    BY LenProperties, ElementOfSeq
  <2> QED BY <2>1
<1>2. /\ new \in Seq(Texts) /\ Len(new) = k
      /\ \A i \in 1 .. k : new[i] = q[from + i - 1]
  <2>1. from <= until /\ \A i \in from .. until : q[i] \in Texts
    BY <1>1
  <2> QED BY <2>1, SubSeqProperties
<1> HIDE DEF new
<1>3. /\ w \in Seq(Texts) /\ Len(w) = n + k
      /\ \A j \in 1 .. n + k : w[j] = IF j <= n THEN e[j] ELSE new[j - n]
  <2> HIDE DEF k
  <2>1. /\ w \in Seq(Texts) /\ Len(w) = Len(e) + Len(new)
        /\ \A j \in 1 .. Len(e) + Len(new) :
             w[j] = IF j <= Len(e) THEN e[j] ELSE new[j - Len(e)]
    BY <1>2, ConcatProperties
  <2> HIDE DEF w
  <2> QED BY <1>2, <2>1
<1> HIDE DEF w
<1>4. n + k = f + until - 1
  BY <1>1
<1>5. ASSUME NEW j \in 1 .. f + until - 2
      PROVE  w[j] = j
  <2>1. CASE j <= n
    BY <1>1, <1>3, <1>4, <2>1
  <2>2. CASE j > n
    <3>1. j - n \in 1 .. k /\ j \in 1 .. n + k
      BY <1>1, <1>4, <2>2
    <3>2. w[j] = new[j - n] /\ new[j - n] = q[from + (j - n) - 1]
      BY <1>1, <1>2, <1>3, <2>2, <3>1
    <3>3. from + (j - n) - 1 \in from .. until - 1
      BY <1>1, <2>2
    <3>4. f + (from + (j - n) - 1) - 1 = j
      BY <1>1
    <3> QED BY <3>2, <3>3, <3>4
  <2> QED BY <1>1, <2>1, <2>2
<1>6. w[f + until - 1] = q[until]
  <2>1. k \in 1 .. k /\ n + k \in 1 .. n + k /\ ~(n + k <= n) /\ n + k - n = k
        /\ from + k - 1 = until
    BY <1>1
  <2>2. w[n + k] = new[n + k - n]
    <3> HIDE DEF k
    <3> QED BY <1>3, <2>1
  <2>3. new[k] = q[from + k - 1]
    BY <1>2, <2>1
  <2> HIDE DEF n, k
  <2> QED BY <1>4, <2>1, <2>2, <2>3
<1>7. f + until - 1 - 1 = f + until - 2
  OBVIOUS
<1> QED BY <1>3, <1>4, <1>5, <1>6, <1>7 DEF w, new, Continued

\* The commands a message to the server carries, once its text is known.
ClientMessageTexts(c, m) ==
  /\ m \in MessageType
  /\ LastOf(m) <= c.reliableSequence
  /\ \A i \in DOMAIN m.commands :
       \/ m.commands[i] = m.first + i - 1
       \/ /\ c.state = "disconnected"
          /\ m.commands[i] = DisconnectText(c.reliableSequence)

\* from .. until are executed: from is the command awaited, none before until
\* is a disconnect.
Executable(s, m, from, until) ==
  /\ from \in Int /\ until \in Int
  /\ 1 <= from /\ from <= until /\ until <= Len(m.commands)
  /\ m.first + from = s.lastClientCommand + 2
  /\ \A i \in from .. until - 1 : ~IsDisconnect(m.commands[i])

\* The commands from .. until of a message, the first ones not executed yet.
LEMMA ExecuteStep ==
  ASSUME NEW s, NEW c, SidesInv(s, c), s.state # CS_ZOMBIE, s.drop = "no",
         ~s.garbled, NEW m, ClientMessageTexts(c, m),
         NEW from, NEW until, Executable(s, m, from, until)
  PROVE  LET done == Performed(s, m, from, until)
             d    == DropClient(done)
         IN  /\ ~IsDisconnect(m.commands[until]) =>
                  SidesInv(done, c) /\ Later(s, c, done, c)
             /\ SidesInv(d, c) /\ Later(s, c, d, c)
             /\ done.reliableAcknowledge = s.reliableAcknowledge
             /\ d.reliableAcknowledge = s.reliableAcknowledge
<1> DEFINE q    == m.commands
           f    == m.first
           e    == s.executed
           w    == e \o SubSeq(q, from, until)
           last == f + until - 1
           text == q[until]
           done == Performed(s, m, from, until)
           d    == DropClient(done)
<1>1. /\ s \in SvRecord /\ c \in ClRecord /\ SvInv(s) /\ ClInv(c) /\ Received(s, c)
      /\ Executed(s, c)
  BY DEF SidesInv
<1>2. /\ f \in Nat /\ q \in Seq(Texts) /\ e \in Seq(Texts)
      /\ s.lastClientCommand \in Nat /\ c.reliableSequence \in Nat
      /\ s.reliableSequence \in Nat /\ s.reliableAcknowledge \in Nat
      /\ Len(e) = s.lastClientCommand
      /\ f + Len(q) - 1 <= c.reliableSequence
  BY <1>1 DEF MessageType, SvRecord, ClRecord, Executed, ClientMessageTexts, LastOf
<1>3. /\ from \in Int /\ until \in Int
      /\ 1 <= from /\ from <= until /\ until <= Len(q)
      /\ f + from = Len(e) + 2
      /\ \A i \in from .. until - 1 : ~IsDisconnect(q[i])
  BY <1>2 DEF Executable
<1>4. /\ Len(q) \in Nat /\ DOMAIN q = 1 .. Len(q)
      /\ \A i \in 1 .. Len(q) : q[i] \in Texts
      /\ DOMAIN e = 1 .. Len(e)
  BY <1>2, LenProperties, ElementOfSeq
<1>5. \A i \in 1 .. Len(q) :
        \/ q[i] = f + i - 1
        \/ c.state = "disconnected" /\ q[i] = DisconnectText(c.reliableSequence)
  BY <1>4 DEF ClientMessageTexts
<1>6. c.state = "disconnected" => IsDisconnect(DisconnectText(c.reliableSequence))
  BY <1>1, <1>2 DEF ClInv, IsDisconnect, DisconnectText
<1>7. \A i \in 1 .. Len(e) : e[i] = i
  BY <1>1, <1>4 DEF Executed, Dropped
<1> HIDE DEF q, f, e
<1>8. until \in 1 .. Len(q) /\ from .. until - 1 \subseteq 1 .. Len(q)
  BY <1>3, <1>4
<1>9. \A i \in from .. until - 1 : q[i] = f + i - 1
  BY <1>3, <1>5, <1>6, <1>8
<1>10. /\ ~IsDisconnect(text) => text = last
       /\ text = last \/ (c.state = "disconnected" /\ text = DisconnectText(c.reliableSequence))
       /\ text \in Texts
  BY <1>4, <1>5, <1>6, <1>8
<1>11. /\ last \in Nat /\ last <= c.reliableSequence /\ s.lastClientCommand <= last
  BY <1>2, <1>3, <1>4
<1>12. Continued(w, last, text)
  <2>1. Continues(e, q, f, from, until)
    BY <1>2, <1>3, <1>7, <1>9 DEF Continues
  <2> QED BY <2>1, ExecutedTexts
<1> HIDE DEF w
<1>13. /\ DOMAIN w = 1 .. last
       /\ \A j \in 1 .. last : w[j] = j \/ (j = last /\ w[j] = text)
  <2> HIDE DEF last, text
  <2>1. DOMAIN w = 1 .. last
    BY <1>12, LenProperties DEF Continued
  <2>2. \A j \in 1 .. last : j \in 1 .. last - 1 \/ j = last
    BY <1>11
  <2> QED BY <1>12, <2>1, <2>2 DEF Continued
<1> HIDE DEF last, text
<1>14. /\ done \in SvRecord /\ done.state = s.state /\ done.drop = s.drop
       /\ done.reliableSequence = s.reliableSequence
       /\ done.reliableAcknowledge = s.reliableAcknowledge
       /\ done.reliableCommands = s.reliableCommands
       /\ done.lastClientCommand = last /\ done.lastClientCommandString = text
       /\ done.overflowed = s.overflowed /\ done.lostCommands = s.lostCommands
       /\ done.garbled = s.garbled /\ done.executed = w
  <2>1. done = [s EXCEPT !.lastClientCommand = last, !.lastClientCommandString = text,
                         !.executed = w]
    BY DEF Performed, last, text, w, q, f, e
  <2> HIDE DEF done
  <2> QED BY <1>1, <1>10, <1>11, <1>12, <2>1 DEF SvRecord, Continued
<1> HIDE DEF done
<1>15. SvInv(done) /\ Droppable(done)
  BY <1>1, <1>14 DEF SvInv, Droppable, SvRecord, Dropped, MaxIssued, CS_ACTIVE, CS_ZOMBIE
<1>16. s.reliableAcknowledge <= c.serverCommandSequence
  BY <1>1 DEF Received
<1>17. ASSUME ~IsDisconnect(text)
       PROVE  SidesInv(done, c) /\ Later(s, c, done, c)
  <2>1. \A i \in DOMAIN done.executed : done.executed[i] = i
    BY <1>10, <1>13, <1>14, <1>17
  <2>2. done.lastClientCommandString = done.lastClientCommand
    BY <1>10, <1>14, <1>17
  <2>3. s.reliableSequence <= done.reliableSequence
        /\ s.reliableAcknowledge <= done.reliableAcknowledge
    BY <1>2, <1>14
  <2> QED BY <1>11, <1>12, <1>14, <1>15, <1>16, <2>1, <2>2, <2>3, ServerMoves DEF Continued
<1>18. /\ d \in SvRecord /\ SvInv(d) /\ Dropped(d)
       /\ d.reliableSequence = done.reliableSequence
       /\ d.reliableAcknowledge = done.reliableAcknowledge
       /\ d.lastClientCommand = done.lastClientCommand
       /\ d.lastClientCommandString = done.lastClientCommandString
       /\ d.executed = done.executed /\ d.overflowed = done.overflowed
  BY <1>15, DropStep
<1> HIDE DEF d
<1>19. SidesInv(d, c) /\ Later(s, c, d, c)
  <2>1. \A i \in DOMAIN d.executed :
          \/ d.executed[i] = i
          \/ /\ i = Len(d.executed) /\ Dropped(d)
             /\ c.state = "disconnected"
             /\ d.executed[i] = DisconnectText(c.reliableSequence)
    BY <1>10, <1>12, <1>13, <1>14, <1>18 DEF Continued
  <2>2. d.lastClientCommandString = d.lastClientCommand \/ c.state = "disconnected"
    BY <1>10, <1>14, <1>18
  <2>3. d.reliableSequence \in Nat /\ s.reliableSequence <= d.reliableSequence
        /\ s.reliableAcknowledge <= d.reliableAcknowledge
    BY <1>2, <1>14, <1>18 DEF SvRecord
  <2>4. Len(d.executed) = d.lastClientCommand
    BY <1>12, <1>14, <1>18 DEF Continued
  <2> QED BY <1>11, <1>14, <1>16, <1>18, <2>1, <2>2, <2>3, <2>4, ServerMoves
<1> QED BY <1>14, <1>17, <1>18, <1>19 DEF d, done, text, q

\* The server's side stays as it is.
LEMMA ServerStays ==
  ASSUME NEW s, NEW c, SidesInv(s, c)
  PROVE  Later(s, c, s, c)
BY DEF SidesInv, SvRecord, ClRecord, Later

\* Any number of commands of a message that leaves no gap.
LEMMA ClientCommandsStep ==
  ASSUME NEW s, NEW c, SidesInv(s, c), s.state # CS_ZOMBIE, s.drop = "no",
         ~s.garbled, NEW m, ClientMessageTexts(c, m), 1 <= m.first,
         m.first <= s.lastClientCommand + 1,
         NEW count \in 0 .. Len(m.commands)
  PROVE  /\ SidesInv(ClientCommands(s, m, count), c)
         /\ Later(s, c, ClientCommands(s, m, count), c)
         /\ ClientCommands(s, m, count).reliableAcknowledge = s.reliableAcknowledge
<1> DEFINE from  == s.lastClientCommand + 2 - m.first
           gone  == {i \in from .. count : IsDisconnect(m.commands[i])}
           until == CHOOSE i \in gone \cup {count} : \A j \in gone : i <= j
           done  == Performed(s, m, from, until)
           t     == ClientCommands(s, m, count)
<1>1. /\ s.lastClientCommand \in Nat /\ m.first \in Nat /\ Len(m.commands) \in Nat
  <2>1. m.commands \in Seq(Texts)
    BY DEF ClientMessageTexts, MessageType
  <2> QED BY <2>1, LenProperties DEF SidesInv, SvRecord, ClientMessageTexts, MessageType
<1>2. t = IF count = 0 \/ from > count THEN s
          ELSE IF from < 1 THEN DropClient([s EXCEPT !.lostCommands = TRUE])
          ELSE IF gone # {} THEN DropClient(done)
          ELSE done
  BY DEF ClientCommands, Performed
<1>3. from \in Int /\ 1 <= from
  BY <1>1
<1> HIDE DEF from, t
<1>4. CASE count = 0 \/ from > count
  BY <1>2, <1>4, ServerStays DEF t
<1>5. CASE ~(count = 0 \/ from > count)
  <2>1. count \in Nat /\ from <= count /\ count <= Len(m.commands)
    BY <1>1, <1>3, <1>5
  <2>2. /\ until \in gone \cup {count} /\ \A j \in gone : until <= j
    <3>1. gone \cup {count} \subseteq Nat /\ gone \cup {count} # {}
      BY <1>3, <2>1
    <3> HIDE DEF gone
    <3>2. \E i \in gone \cup {count} : \A j \in gone \cup {count} : i <= j
      BY <3>1, LeastNatural
    <3> QED BY <3>2
  <2> HIDE DEF until
  <2>3. until \in Int /\ from <= until /\ until <= count
    BY <1>3, <2>1, <2>2
  <2>4. \A i \in from .. until - 1 : ~IsDisconnect(m.commands[i])
    <3>1. ASSUME NEW i \in from .. until - 1, IsDisconnect(m.commands[i])
          PROVE  FALSE
      <4>1. i \in gone
        BY <1>3, <2>1, <2>3, <3>1
      <4> QED BY <1>3, <2>2, <2>3, <4>1
    <3> QED BY <3>1
  <2>5. gone = {} => ~IsDisconnect(m.commands[until])
    <3>1. gone = {} => until = count /\ count \in from .. count
      BY <1>3, <2>1, <2>2
    <3> QED BY <3>1
  <2> HIDE DEF gone
  <2>6. Executable(s, m, from, until)
    <3>1. m.first + from = s.lastClientCommand + 2
      BY <1>1 DEF from
    <3>2. until <= Len(m.commands)
      BY <1>1, <2>1, <2>3
    <3> QED BY <1>3, <2>3, <2>4, <3>1, <3>2 DEF Executable
  <2>7. t = DropClient(done) \/ (t = done /\ ~IsDisconnect(m.commands[until]))
    BY <1>2, <1>3, <1>5, <2>5
  <2>8. /\ ~IsDisconnect(m.commands[until]) => SidesInv(done, c) /\ Later(s, c, done, c)
        /\ SidesInv(DropClient(done), c) /\ Later(s, c, DropClient(done), c)
        /\ done.reliableAcknowledge = s.reliableAcknowledge
        /\ DropClient(done).reliableAcknowledge = s.reliableAcknowledge
    BY <2>6, ExecuteStep
  <2> HIDE DEF done
  <2> QED BY <2>7, <2>8 DEF t
<1> QED BY <1>4, <1>5

LEMMA LaterTransitive ==
  ASSUME NEW s, NEW c, NEW t, NEW d, NEW u, NEW e,
         SidesInv(s, c), SidesInv(t, d), SidesInv(u, e),
         Later(s, c, t, d), Later(t, d, u, e)
  PROVE  Later(s, c, u, e)
<1>1. /\ s.reliableSequence \in Nat /\ t.reliableSequence \in Nat
      /\ u.reliableSequence \in Nat
      /\ s.overflowed \in Nat /\ t.overflowed \in Nat /\ u.overflowed \in Nat
      /\ s.reliableAcknowledge \in Nat /\ t.reliableAcknowledge \in Nat
      /\ u.reliableAcknowledge \in Nat
      /\ s.lastClientCommand \in Nat /\ t.lastClientCommand \in Nat
      /\ u.lastClientCommand \in Nat
  BY DEF SidesInv, SvRecord
<1>2. /\ c.reliableSequence \in Nat /\ d.reliableSequence \in Nat
      /\ e.reliableSequence \in Nat
      /\ c.reliableAcknowledge \in Nat /\ d.reliableAcknowledge \in Nat
      /\ e.reliableAcknowledge \in Nat
      /\ c.serverCommandSequence \in Nat /\ d.serverCommandSequence \in Nat
      /\ e.serverCommandSequence \in Nat
  BY DEF SidesInv, ClRecord
<1>3. \/ u.overflowed = s.overflowed
      \/ s.overflowed = 0 /\ u.overflowed > s.reliableSequence
  BY <1>1 DEF Later
<1> QED BY <1>1, <1>2, <1>3 DEF Later

\* The queues stay what they may be.
LEMMA ToClientQueue ==
  ASSUME NEW s, NEW c, NEW t, NEW d, SidesInv(s, c), SidesInv(t, d), Later(s, c, t, d),
         d.reliableAcknowledge = c.reliableAcknowledge,
         NEW q \in Seq(ToClientMessages(s, c))
  PROVE  q \in Seq(ToClientMessages(t, d))
<1>1. \A m \in ToClientMessages(s, c) : m.ack >= c.reliableAcknowledge
  BY DEF ToClientMessages, SidesInv, SvRecord, ClRecord, MessageType
<1>2. \A m \in ToClientMessages(s, c) : m \in ToClientMessages(t, d)
  BY <1>1, ToClientSurvives
<1> QED BY <1>2, QueueType

LEMMA ToServerQueue ==
  ASSUME NEW s, NEW c, NEW t, NEW d, SidesInv(s, c), SidesInv(t, d), Later(s, c, t, d),
         t.reliableAcknowledge = s.reliableAcknowledge,
         NEW q \in Seq(ToServerMessages(s, c))
  PROVE  q \in Seq(ToServerMessages(t, d))
<1>1. \A m \in ToServerMessages(s, c) : m.ack >= s.reliableAcknowledge
  BY DEF ToServerMessages, SidesInv, SvRecord, ClRecord, MessageType
<1>2. \A m \in ToServerMessages(s, c) : m \in ToServerMessages(t, d)
  BY <1>1, ToServerSurvives
<1> QED BY <1>2, QueueType

\* The key of a message is in its slot unless the server's window is full.
LEMMA ServerKey ==
  ASSUME NEW s, NEW c, SidesInv(s, c), NEW m \in ToServerMessages(s, c),
         s.reliableSequence - m.ack \in 0 .. MAX_RELIABLE_COMMANDS,
         m.key # s.reliableCommands[Slot(m.ack)]
  PROVE  s.reliableSequence - m.ack = MAX_RELIABLE_COMMANDS
<1>1. /\ m.ack \in Nat /\ s.reliableSequence \in Nat
      /\ m.key = ServerTexts(s.overflowed)[m.ack]
      /\ RingHolds(s.reliableCommands, s.reliableSequence, ServerTexts(s.overflowed))
  BY DEF SidesInv, SvInv, SvRecord, ToServerMessages, MessageType
<1>2. m.ack \in 0 .. s.reliableSequence
  BY <1>1
<1>3. ~(m.ack > s.reliableSequence - MAX_RELIABLE_COMMANDS)
  BY <1>1, <1>2 DEF RingHolds
<1> QED BY <1>1, <1>3 DEF ReliableCommandsAssumption

\* A message that is noise to the server.
LEMMA ServerGarbled ==
  ASSUME NEW s, NEW c, SidesInv(s, c),
         s.reliableSequence - s.reliableAcknowledge = MAX_RELIABLE_COMMANDS
  PROVE  LET t == [s EXCEPT !.garbled = TRUE]
         IN  /\ SidesInv(t, c) /\ Later(s, c, t, c)
             /\ t.reliableAcknowledge = s.reliableAcknowledge
<1> DEFINE t == [s EXCEPT !.garbled = TRUE]
<1>1. s \in SvRecord /\ SvInv(s)
  BY DEF SidesInv
<1>2. /\ t \in SvRecord /\ t.state = s.state /\ t.drop = s.drop
      /\ t.reliableSequence = s.reliableSequence
      /\ t.reliableAcknowledge = s.reliableAcknowledge
      /\ t.reliableCommands = s.reliableCommands
      /\ t.lastClientCommand = s.lastClientCommand
      /\ t.lastClientCommandString = s.lastClientCommandString
      /\ t.overflowed = s.overflowed /\ t.lostCommands = s.lostCommands
      /\ t.executed = s.executed
  BY <1>1 DEF SvRecord
<1> HIDE DEF t
<1>3. SvInv(t) /\ (Dropped(s) => Dropped(t))
  BY <1>1, <1>2 DEF SvInv, Dropped, MaxIssued
<1>4. t.reliableSequence >= s.reliableSequence
  BY <1>1, <1>2 DEF SvRecord
<1> QED BY <1>2, <1>3, <1>4, ServerIssues DEF t

LEMMA ExecuteClientMessageStep ==
  ASSUME IInv, SV_ExecuteClientMessage
  PROVE  IInv'
<1> DEFINE m == Head(toServer)
           acked == [sv EXCEPT !.reliableAcknowledge = m.ack]
           M == ToServerMessages(sv, cl)
<1>1. /\ SidesInv(sv, cl) /\ toServer \in Seq(M) /\ Ordered(toServer)
      /\ toClient \in Seq(ToClientMessages(sv, cl)) /\ Ordered(toClient)
      /\ toServer # <<>> /\ toServer' = Tail(toServer)
      /\ cl' = cl /\ toClient' = toClient /\ ~sv.garbled /\ sv.drop = "no"
  BY DEF IInv, SV_ExecuteClientMessage, ServerRuns
<1>2. /\ m \in M /\ Tail(toServer) \in Seq({x \in M : m.ack <= x.ack})
      /\ Ordered(Tail(toServer))
  <2> HIDE DEF M
  <2> QED BY <1>1, QueueTail
<1> HIDE DEF m
<1>3. /\ m \in MessageType /\ m.ack \in Nat /\ m.first \in Nat
      /\ sv.reliableAcknowledge <= m.ack /\ m.ack <= cl.serverCommandSequence
      /\ 1 <= m.first /\ m.first <= cl.reliableAcknowledge + 1
      /\ ClientMessageTexts(cl, m)
  BY <1>1, <1>2 DEF SidesInv, SvRecord, ClRecord, ToServerMessages, MessageType,
                    ClientMessageTexts
<1>4. /\ sv \in SvRecord /\ cl \in ClRecord
      /\ sv.reliableSequence \in Nat /\ sv.reliableAcknowledge \in Nat
      /\ sv.lastClientCommand \in Nat /\ cl.reliableAcknowledge \in Nat
      /\ cl.reliableAcknowledge <= sv.lastClientCommand
      /\ sv.state # CS_ZOMBIE =>
           sv.reliableSequence - sv.reliableAcknowledge <= MAX_RELIABLE_COMMANDS
  BY <1>1 DEF SidesInv, SvRecord, ClRecord, SvInv, Dropped, Received
<1>5. /\ SidesInv(acked, cl) /\ Later(sv, cl, acked, cl)
      /\ acked.reliableAcknowledge = m.ack
      /\ acked.reliableSequence = sv.reliableSequence
      /\ acked.state = sv.state /\ acked.drop = sv.drop /\ ~acked.garbled
      /\ acked.lastClientCommand = sv.lastClientCommand
  BY <1>1, <1>3, AcknowledgeStep
<1>6. acked.reliableCommands = sv.reliableCommands
  BY <1>4 DEF SvRecord
<1>7. /\ SidesInv(sv', cl) /\ Later(sv, cl, sv', cl)
      /\ sv'.reliableAcknowledge \in {sv.reliableAcknowledge, m.ack}
  <2>1. CASE sv.state = CS_ZOMBIE \/ sv.reliableSequence - m.ack < 0
    <3>1. ~(/\ sv.state # CS_ZOMBIE
            /\ \/ sv.reliableSequence - m.ack > MAX_RELIABLE_COMMANDS
               \/ sv.reliableSequence - m.ack \in 0 .. MAX_RELIABLE_COMMANDS)
      BY <1>3, <1>4, <2>1 DEF ReliableCommandsAssumption
    <3>2. sv' = sv
      BY <3>1 DEF SV_ExecuteClientMessage, m
    <3> QED BY <1>1, <3>2, ServerStays
  <2>2. CASE sv.state # CS_ZOMBIE /\ sv.reliableSequence - m.ack >= 0
    <3>1. sv.reliableSequence - m.ack \in 0 .. MAX_RELIABLE_COMMANDS
      BY <1>3, <1>4, <2>2 DEF ReliableCommandsAssumption
    <3>2. IF m.key # sv.reliableCommands[Slot(m.ack)]
          THEN sv' = [acked EXCEPT !.garbled = TRUE]
          ELSE \E count \in 0 .. Len(m.commands) :
                 sv' = ClientCommands(acked, m, count)
      <4>1. ~(sv.reliableSequence - m.ack < 0)
            /\ ~(sv.reliableSequence - m.ack > MAX_RELIABLE_COMMANDS)
        BY <3>1 DEF ReliableCommandsAssumption
      <4> QED BY <2>2, <4>1 DEF SV_ExecuteClientMessage, m
    <3> HIDE DEF acked
    <3>3. CASE m.key # sv.reliableCommands[Slot(m.ack)]
      <4>1. sv.reliableSequence - m.ack = MAX_RELIABLE_COMMANDS
        BY <1>1, <1>2, <3>1, <3>3, ServerKey
      <4>2. acked.reliableSequence - acked.reliableAcknowledge = MAX_RELIABLE_COMMANDS
        BY <1>5, <4>1
      <4>3. /\ SidesInv(sv', cl) /\ Later(acked, cl, sv', cl)
            /\ sv'.reliableAcknowledge = acked.reliableAcknowledge
        BY <1>5, <3>2, <3>3, <4>2, ServerGarbled
      <4> QED BY <1>1, <1>5, <4>3, LaterTransitive
    <3>4. CASE m.key = sv.reliableCommands[Slot(m.ack)]
      <4>1. PICK count \in 0 .. Len(m.commands) : sv' = ClientCommands(acked, m, count)
        BY <3>2, <3>4
      <4>2. m.first <= acked.lastClientCommand + 1
        BY <1>3, <1>4, <1>5
      <4>3. /\ SidesInv(sv', cl) /\ Later(acked, cl, sv', cl)
            /\ sv'.reliableAcknowledge = acked.reliableAcknowledge
        BY <1>1, <1>3, <1>5, <2>2, <4>1, <4>2, ClientCommandsStep
      <4> QED BY <1>1, <1>5, <4>3, LaterTransitive
    <3> QED BY <3>3, <3>4
  <2> QED BY <1>3, <1>4, <2>1, <2>2
<1>8. \A x \in {y \in M : m.ack <= y.ack} : x \in ToServerMessages(sv', cl)
  <2>1. ASSUME NEW x \in M, m.ack <= x.ack
        PROVE  x \in ToServerMessages(sv', cl)
    <3>1. x.ack >= sv'.reliableAcknowledge
      <4>1. x.ack \in Nat
        BY DEF ToServerMessages, MessageType
      <4> QED BY <1>3, <1>4, <1>7, <2>1, <4>1
    <3> QED BY <1>1, <1>7, <3>1, ToServerSurvives
  <2> QED BY <2>1
<1>9. toServer' \in Seq(ToServerMessages(sv', cl)) /\ Ordered(toServer')
  <2> HIDE DEF M
  <2> QED BY <1>1, <1>2, <1>8, QueueType
<1>10. toClient' \in Seq(ToClientMessages(sv', cl)) /\ Ordered(toClient')
  BY <1>1, <1>7, ToClientQueue
<1> QED BY <1>1, <1>7, <1>9, <1>10 DEF IInv

-----------------------------------------------------------------------------
(* Messages sent *)

LEMMA PendingTexts ==
  ASSUME NEW ring \in Rings, NEW first \in Nat, NEW last \in Nat, first <= last + 1
  PROVE  /\ Pending(ring, first, last) \in Seq(Texts)
         /\ Len(Pending(ring, first, last)) = last - first + 1
         /\ DOMAIN Pending(ring, first, last) = 1 .. last - first + 1
         /\ \A i \in 1 .. last - first + 1 :
              Pending(ring, first, last)[i] = ring[Slot(first + i - 1)]
<1> DEFINE p == Pending(ring, first, last)
           n == last - first + 1
<1>1. n \in Nat
  OBVIOUS
<1>2. \A i \in 1 .. n : ring[Slot(first + i - 1)] \in Texts
  <2>1. \A i \in 1 .. n : first + i - 1 \in Nat
    BY <1>1
  <2> QED BY <2>1, SlotType DEF Rings
<1>3. p = [i \in 1 .. n |-> ring[Slot(first + i - 1)]]
  BY DEF Pending
<1> HIDE DEF p, n
<1>4. p \in [1 .. n -> Texts]
  BY <1>2, <1>3
<1>5. p \in Seq(Texts)
  BY <1>1, <1>4, SeqDef
<1>6. DOMAIN p = 1 .. n /\ DOMAIN p = 1 .. Len(p) /\ Len(p) \in Nat
  BY <1>3, <1>5, LenProperties
<1>7. Len(p) = n
  BY <1>1, <1>6
<1> QED BY <1>3, <1>5, <1>6, <1>7 DEF p, n

LEMMA SendClientSnapshotStep ==
  ASSUME IInv, SV_SendClientSnapshot
  PROVE  IInv'
<1> DEFINE first == sv.reliableAcknowledge + 1
           last  == sv.reliableSequence
           p     == Pending(sv.reliableCommands, first, last)
           m     == [ack |-> sv.lastClientCommand, first |-> first, commands |-> p,
                     key |-> sv.lastClientCommandString]
           M     == ToClientMessages(sv, cl)
<1>1. /\ SidesInv(sv, cl) /\ sv \in SvRecord /\ cl \in ClRecord
      /\ SvInv(sv) /\ Received(sv, cl) /\ toClient \in Seq(M) /\ Ordered(toClient)
      /\ toClient' = Append(toClient, m)
      /\ sv' = sv /\ cl' = cl /\ toServer' = toServer
  BY DEF IInv, SidesInv, SV_SendClientSnapshot
<1>2. /\ first \in Nat /\ last \in Nat /\ first <= last + 1
      /\ first \in 1 .. cl.serverCommandSequence + 1
      /\ sv.lastClientCommand \in Nat /\ sv.lastClientCommandString \in Texts
      /\ cl.reliableAcknowledge \in Nat
      /\ sv.lastClientCommand \in cl.reliableAcknowledge .. sv.lastClientCommand
      /\ sv.reliableCommands \in Rings
  BY <1>1 DEF SvRecord, ClRecord, Received
<1> HIDE DEF first, last
<1>3. /\ p \in Seq(Texts) /\ Len(p) = last - first + 1
      /\ \A i \in 1 .. last - first + 1 : p[i] = sv.reliableCommands[Slot(first + i - 1)]
  BY <1>2, PendingTexts
<1> HIDE DEF p
<1>4. /\ m \in MessageType /\ LastOf(m) = last
      /\ m.first = first /\ m.commands = p
      /\ m.ack = sv.lastClientCommand /\ m.key = sv.lastClientCommandString
  BY <1>2, <1>3 DEF MessageType, LastOf
<1> HIDE DEF m
<1>5. ASSUME NEW k \in first .. last, k > last - MAX_RELIABLE_COMMANDS
      PROVE  p[k - first + 1] = ServerTexts(sv.overflowed)[k]
  <2>1. k - first + 1 \in 1 .. last - first + 1 /\ first + (k - first + 1) - 1 = k
    BY <1>2
  <2>2. p[k - first + 1] = sv.reliableCommands[Slot(k)]
    BY <1>3, <2>1
  <2>3. k \in 0 .. last
    BY <1>2
  <2> QED BY <1>1, <1>5, <2>2, <2>3 DEF SvInv, RingHolds, last
<1>6. m \in M
  <2>1. m.key = m.ack \/ cl.state = "disconnected"
    BY <1>1, <1>4 DEF Received
  <2> QED BY <1>2, <1>4, <1>5, <2>1 DEF ToClientMessages, last
<1>7. \A x \in M : x.ack \in Nat /\ x.ack <= m.ack
  BY <1>2, <1>4 DEF ToClientMessages, MessageType
<1> HIDE DEF M
<1>8. toClient' \in Seq(M) /\ Ordered(toClient')
  BY <1>1, <1>6, <1>7, QueueAppend
<1> QED BY <1>1, <1>8 DEF IInv, M

\* What the client sends, its last message included, which may hold one command
\* more than the ring.
LEMMA ClientMessageSent ==
  ASSUME NEW s, NEW c, SidesInv(s, c),
         \/ c.reliableSequence - c.reliableAcknowledge <= MAX_RELIABLE_COMMANDS
         \/ /\ c.state = "disconnected"
            /\ c.reliableSequence - c.reliableAcknowledge <= MAX_RELIABLE_COMMANDS + 1
  PROVE  /\ ClientMessage(c) \in ToServerMessages(s, c)
         /\ ClientMessage(c).ack = c.serverCommandSequence
<1> DEFINE K     == MAX_RELIABLE_COMMANDS
           first == c.reliableAcknowledge + 1
           last  == c.reliableSequence
           ring  == c.reliableCommands
           p     == Pending(ring, first, last)
           m     == ClientMessage(c)
<1>1. /\ s \in SvRecord /\ c \in ClRecord /\ ClInv(c) /\ Received(s, c)
  BY DEF SidesInv
<1>2. /\ first \in Nat /\ last \in Nat /\ first <= last + 1 /\ K \in Nat \ {0}
      /\ first \in 1 .. c.reliableAcknowledge + 1
      /\ c.serverCommandSequence \in s.reliableAcknowledge .. c.serverCommandSequence
      /\ c.serverCommandSequence \in Nat
      /\ ring \in Rings /\ c.serverCommands \in Rings
      /\ \/ last - first < K
         \/ c.state = "disconnected" /\ last - first = K
  <2>1. /\ c.reliableAcknowledge \in Nat /\ c.reliableSequence \in Nat
        /\ c.serverCommandSequence \in Nat
        /\ ring \in Rings /\ c.serverCommands \in Rings
    BY <1>1 DEF ClRecord
  <2>2. /\ s.reliableAcknowledge \in Nat /\ s.lastClientCommand \in Nat
    BY <1>1 DEF SvRecord
  <2>3. /\ c.reliableAcknowledge <= s.lastClientCommand
        /\ s.lastClientCommand <= c.reliableSequence
        /\ s.reliableAcknowledge <= c.serverCommandSequence
    BY <1>1 DEF Received
  <2> QED BY <2>1, <2>2, <2>3 DEF ReliableCommandsAssumption
<1>3. RingHolds(ring, last, ClientTexts(c))
  BY <1>1 DEF ClInv
<1>4. /\ c.serverCommands[Slot(c.serverCommandSequence)]
           = ServerTexts(s.overflowed)[c.serverCommandSequence]
      /\ c.serverCommands[Slot(c.serverCommandSequence)] \in Texts
  <2>1. c.serverCommandSequence \in 0 .. c.serverCommandSequence
        /\ c.serverCommandSequence > c.serverCommandSequence - K
    BY <1>2
  <2> QED BY <1>1, <1>2, <2>1, SlotType DEF Received, RingHolds, Rings
<1> HIDE DEF first, last, ring
<1>5. /\ p \in Seq(Texts) /\ Len(p) = last - first + 1
      /\ DOMAIN p = 1 .. last - first + 1
      /\ \A i \in 1 .. last - first + 1 : p[i] = ring[Slot(first + i - 1)]
  <2>1. ring \in Rings /\ first \in Nat /\ last \in Nat /\ first <= last + 1
    BY <1>2
  <2> HIDE DEF K, p, m
  <2> QED BY <2>1, PendingTexts DEF p
<1>6. m = [ack |-> c.serverCommandSequence, first |-> first, commands |-> p,
           key |-> c.serverCommands[Slot(c.serverCommandSequence)]]
  BY DEF ClientMessage, first, last, ring
<1> HIDE DEF p, m
<1>7. /\ m \in MessageType /\ LastOf(m) = last
      /\ m.first = first /\ m.commands = p /\ m.ack = c.serverCommandSequence
      /\ m.key = c.serverCommands[Slot(c.serverCommandSequence)]
  BY <1>2, <1>4, <1>5, <1>6 DEF MessageType, LastOf
<1>8. ASSUME NEW i \in DOMAIN p
      PROVE  \/ p[i] = first + i - 1
             \/ c.state = "disconnected" /\ p[i] = DisconnectText(last)
  <2> DEFINE k == first + i - 1
  <2>1. /\ i \in 1 .. last - first + 1 /\ k \in 0 .. last /\ k >= first
        /\ k \in Nat
    BY <1>2, <1>5
  <2>2. p[i] = ring[Slot(k)]
    BY <1>5, <2>1
  <2> HIDE DEF k
  <2>3. \A j \in 0 .. last :
          \/ ClientTexts(c)[j] = j
          \/ c.state = "disconnected" /\ ClientTexts(c)[j] = DisconnectText(last)
    BY <1>2 DEF ClientTexts, last
  <2>4. CASE k > last - K
    BY <1>3, <2>1, <2>2, <2>3, <2>4 DEF RingHolds, k
  <2>5. CASE ~(k > last - K)
    <3>1. /\ c.state = "disconnected" /\ k + K = last
      BY <1>2, <2>1, <2>5
    <3>2. Slot(k) = Slot(last)
      BY <2>1, <3>1, SlotAgain
    <3>3. last \in 0 .. last /\ last > last - K
      BY <1>2
    <3>4. ring[Slot(last)] = ClientTexts(c)[last]
      BY <1>3, <3>3 DEF RingHolds
    <3>5. ClientTexts(c)[last] = DisconnectText(last)
      BY <1>2, <3>1 DEF ClientTexts, last
    <3> QED BY <2>2, <3>1, <3>2, <3>4, <3>5
  <2> QED BY <2>4, <2>5
<1>9. m \in ToServerMessages(s, c)
  BY <1>2, <1>4, <1>7, <1>8 DEF ToServerMessages, last
<1> QED BY <1>7, <1>9 DEF m

-----------------------------------------------------------------------------
(* Steps of the client *)

\* What a step of the client has to keep.
LEMMA ClientMoves ==
  ASSUME NEW s, NEW c, SidesInv(s, c), c.state = "connected",
         NEW d \in ClRecord, ClInv(d),
         c.reliableSequence <= d.reliableSequence,
         c.reliableAcknowledge <= d.reliableAcknowledge,
         d.reliableAcknowledge <= s.lastClientCommand,
         c.serverCommandSequence <= d.serverCommandSequence,
         d.serverCommandSequence <= s.reliableSequence,
         RingHolds(d.serverCommands, d.serverCommandSequence, ServerTexts(s.overflowed)),
         Len(d.executed) <= d.serverCommandSequence,
         \A i \in DOMAIN d.executed : d.executed[i] = ServerTexts(s.overflowed)[i]
  PROVE  SidesInv(s, d) /\ Later(s, c, s, d)
<1>1. /\ s \in SvRecord /\ c \in ClRecord /\ SvInv(s) /\ ClInv(c)
      /\ Received(s, c) /\ Executed(s, c)
  BY DEF SidesInv
<1>2. /\ s.reliableSequence \in Nat /\ s.reliableAcknowledge \in Nat
      /\ s.lastClientCommand \in Nat
      /\ c.serverCommandSequence \in Nat /\ d.serverCommandSequence \in Nat
      /\ c.reliableSequence \in Nat /\ d.reliableSequence \in Nat
      /\ s.reliableAcknowledge <= c.serverCommandSequence
      /\ s.lastClientCommand <= c.reliableSequence
      /\ s.lastClientCommandString = s.lastClientCommand
  BY <1>1 DEF SvRecord, ClRecord, Received
<1>3. Received(s, d)
  <2>1. /\ s.reliableAcknowledge <= d.serverCommandSequence
        /\ s.lastClientCommand <= d.reliableSequence
    BY <1>2
  <2> QED BY <1>2, <2>1 DEF Received
<1>4. Executed(s, d)
  BY <1>1 DEF Executed
<1>5. Later(s, c, s, d)
  BY <1>2 DEF Later
<1> QED BY <1>1, <1>3, <1>4, <1>5 DEF SidesInv

\* A step that changes nothing but the client's own commands and state.
LEMMA ClientIssues ==
  ASSUME NEW s, NEW c, SidesInv(s, c), c.state = "connected",
         NEW d \in ClRecord, ClInv(d),
         c.reliableSequence <= d.reliableSequence,
         d.reliableAcknowledge = c.reliableAcknowledge,
         d.serverCommandSequence = c.serverCommandSequence,
         d.serverCommands = c.serverCommands,
         d.executed = c.executed
  PROVE  SidesInv(s, d) /\ Later(s, c, s, d)
<1>1. /\ s \in SvRecord /\ c \in ClRecord /\ Received(s, c) /\ Executed(s, c)
  BY DEF SidesInv
<1>2. /\ c.reliableAcknowledge <= d.reliableAcknowledge
      /\ d.reliableAcknowledge <= s.lastClientCommand
      /\ c.serverCommandSequence <= d.serverCommandSequence
      /\ d.serverCommandSequence <= s.reliableSequence
  BY <1>1 DEF ClRecord, Received
<1>3. /\ RingHolds(d.serverCommands, d.serverCommandSequence, ServerTexts(s.overflowed))
      /\ Len(d.executed) <= d.serverCommandSequence
      /\ \A i \in DOMAIN d.executed : d.executed[i] = ServerTexts(s.overflowed)[i]
  BY <1>1 DEF Received, Executed
<1> QED BY <1>2, <1>3, ClientMoves

\* The client issues its n-th command, or its disconnect.
LEMMA ClientStoreStep ==
  ASSUME NEW c \in ClRecord, ClInv(c), c.state = "connected", ~c.garbled,
         NEW state, NEW text, NEW n, n = c.reliableSequence + 1,
         \/ /\ state = "connected" /\ text = n /\ n <= MaxClientCommands
            /\ n - c.reliableAcknowledge <= MAX_RELIABLE_COMMANDS
         \/ /\ state = "disconnected" /\ text = DisconnectText(n)
  PROVE  LET d == [ClientStore(c, n, text) EXCEPT !.state = state]
         IN  /\ d \in ClRecord /\ ClInv(d) /\ d.state = state
             /\ d.reliableSequence = n
             /\ d.reliableAcknowledge = c.reliableAcknowledge
             /\ d.serverCommandSequence = c.serverCommandSequence
             /\ d.serverCommands = c.serverCommands
             /\ d.executed = c.executed
<1> DEFINE ring == c.reliableCommands
           new  == [ring EXCEPT ![Slot(n)] = text]
           d    == [ClientStore(c, n, text) EXCEPT !.state = state]
<1>1. /\ c.reliableSequence \in Nat /\ n \in Nat /\ n > 0 /\ ring \in Rings
      /\ c.reliableAcknowledge \in Nat
      /\ RingHolds(ring, c.reliableSequence, ClientTexts(c))
      /\ c.reliableSequence <= MaxClientCommands
  BY DEF ClRecord, ClInv
<1>2. state \in ClientStates /\ text \in Texts /\ n <= MaxClientCommands + 1
  BY <1>1 DEF ClientStates, Texts, DisconnectText, ReliableCommandsAssumption
<1>3. \A k \in 0 .. c.reliableSequence : ClientTexts(c)[k] = k
  BY <1>1 DEF ClientTexts
<1>4. /\ d.state = state /\ d.reliableSequence = n /\ d.reliableCommands = new
      /\ d.reliableAcknowledge = c.reliableAcknowledge
      /\ d.serverCommandSequence = c.serverCommandSequence
      /\ d.serverCommands = c.serverCommands
      /\ d.garbled = c.garbled /\ d.executed = c.executed
  BY DEF ClRecord, ClientStore
<1>5. ClientTexts(d)[n] = text /\ \A k \in 0 .. c.reliableSequence : ClientTexts(d)[k] = k
  <2> HIDE DEF d
  <2> QED BY <1>1, <1>4 DEF ClientTexts
<1>6. new \in Rings /\ RingHolds(new, n, ClientTexts(d))
  <2> DEFINE texts == ClientTexts(c)
             newTexts == ClientTexts(d)
             prev == c.reliableSequence
  <2>1. /\ prev \in Nat /\ n = prev + 1 /\ newTexts[prev + 1] = text
        /\ \A k \in 0 .. prev : newTexts[k] = texts[k]
        /\ newTexts[prev + 1] \in Texts /\ RingHolds(ring, prev, texts)
    BY <1>1, <1>2, <1>3, <1>5
  <2> HIDE DEF d, texts, newTexts, prev, ring
  <2>2. /\ [ring EXCEPT ![Slot(prev + 1)] = newTexts[prev + 1]] \in Rings
        /\ RingHolds([ring EXCEPT ![Slot(prev + 1)] = newTexts[prev + 1]], prev + 1, newTexts)
    BY <1>1, <2>1, RingStore
  <2> QED BY <2>1, <2>2 DEF newTexts
<1>7. d \in ClRecord
  <2>1. d = [c EXCEPT !.reliableSequence = n, !.reliableCommands = new, !.state = state]
    BY DEF ClientStore
  <2> HIDE DEF d, new
  <2> QED BY <1>1, <1>2, <1>6, <2>1 DEF ClRecord
<1> HIDE DEF d, new
<1>8. ClInv(d)
  BY <1>1, <1>2, <1>4, <1>6 DEF ClInv
<1> QED BY <1>4, <1>7, <1>8 DEF d

LEMMA AddReliableCommandStep ==
  ASSUME SidesInv(sv, cl), CL_AddReliableCommand
  PROVE  /\ SidesInv(sv, cl') /\ Later(sv, cl, sv, cl')
         /\ cl'.reliableAcknowledge = cl.reliableAcknowledge
<1> DEFINE n == cl.reliableSequence + 1
<1>1. /\ cl \in ClRecord /\ ClInv(cl) /\ cl.state = "connected" /\ ~cl.garbled
      /\ cl.reliableSequence \in Nat /\ cl.reliableAcknowledge \in Nat
      /\ n <= MaxClientCommands
  BY DEF SidesInv, ClRecord, CL_AddReliableCommand, ClientRuns
<1>2. CASE cl.reliableSequence - cl.reliableAcknowledge >= MAX_RELIABLE_COMMANDS
  <2> DEFINE d == [cl EXCEPT !.state = "ERR_DROP"]
  <2>1. cl' = d
    BY <1>2 DEF CL_AddReliableCommand
  <2>2. /\ d \in ClRecord /\ d.state = "ERR_DROP"
        /\ d.reliableSequence = cl.reliableSequence
        /\ d.reliableAcknowledge = cl.reliableAcknowledge
        /\ d.reliableCommands = cl.reliableCommands
        /\ d.serverCommandSequence = cl.serverCommandSequence
        /\ d.serverCommands = cl.serverCommands
        /\ d.garbled = cl.garbled /\ d.executed = cl.executed
    BY <1>1 DEF ClRecord, ClientStates
  <2> HIDE DEF d
  <2>3. ClInv(d)
    <3>1. RingHolds(d.reliableCommands, d.reliableSequence, ClientTexts(d))
      BY <1>1, <2>2 DEF ClInv, RingHolds, ClientTexts
    <3> QED BY <1>1, <2>2, <3>1 DEF ClInv
  <2>4. cl.reliableSequence <= d.reliableSequence
    BY <1>1, <2>2
  <2> QED BY <1>1, <2>1, <2>2, <2>3, <2>4, ClientIssues
<1>3. CASE ~(cl.reliableSequence - cl.reliableAcknowledge >= MAX_RELIABLE_COMMANDS)
  <2> DEFINE d == [ClientStore(cl, n, n) EXCEPT !.state = "connected"]
  <2>1. n - cl.reliableAcknowledge <= MAX_RELIABLE_COMMANDS
    BY <1>1, <1>3 DEF ReliableCommandsAssumption
  <2>2. cl' = d
    <3>1. cl' = ClientStore(cl, n, n)
      BY <1>3 DEF CL_AddReliableCommand
    <3> QED BY <1>1, <3>1 DEF ClRecord, ClientStore
  <2>3. /\ d \in ClRecord /\ ClInv(d) /\ d.state = "connected"
        /\ d.reliableSequence = n
        /\ d.reliableAcknowledge = cl.reliableAcknowledge
        /\ d.serverCommandSequence = cl.serverCommandSequence
        /\ d.serverCommands = cl.serverCommands
        /\ d.executed = cl.executed
    BY <1>1, <2>1, ClientStoreStep
  <2> HIDE DEF d
  <2>4. cl.reliableSequence <= d.reliableSequence
    BY <1>1, <2>3
  <2> QED BY <1>1, <2>2, <2>3, <2>4, ClientIssues
<1> QED BY <1>2, <1>3

\* A message joins the queue to the server.
LEMMA ToServerSent ==
  ASSUME NEW s, NEW c, SidesInv(s, c),
         NEW q \in Seq(ToServerMessages(s, c)), Ordered(q),
         \/ c.reliableSequence - c.reliableAcknowledge <= MAX_RELIABLE_COMMANDS
         \/ /\ c.state = "disconnected"
            /\ c.reliableSequence - c.reliableAcknowledge <= MAX_RELIABLE_COMMANDS + 1
  PROVE  /\ Append(q, ClientMessage(c)) \in Seq(ToServerMessages(s, c))
         /\ Ordered(Append(q, ClientMessage(c)))
<1> DEFINE m == ClientMessage(c)
           M == ToServerMessages(s, c)
<1>1. m \in M /\ m.ack = c.serverCommandSequence
  BY ClientMessageSent
<1> HIDE DEF m
<1>2. \A x \in M : x.ack \in Nat /\ x.ack <= m.ack
  BY <1>1 DEF SidesInv, SvRecord, ClRecord, ToServerMessages, MessageType
<1> HIDE DEF M
<1>3. Append(q, m) \in Seq(M) /\ Ordered(Append(q, m))
  <2>1. q \in Seq(M)
    BY DEF M
  <2> QED BY <1>1, <1>2, <2>1, QueueAppend
<1> QED BY <1>3 DEF m, M

LEMMA WritePacketStep ==
  ASSUME IInv, CL_WritePacket
  PROVE  IInv'
<1>1. /\ SidesInv(sv, cl) /\ cl.state = "connected" /\ ClInv(cl)
      /\ toServer \in Seq(ToServerMessages(sv, cl)) /\ Ordered(toServer)
      /\ toServer' = Append(toServer, ClientMessage(cl))
      /\ sv' = sv /\ cl' = cl /\ toClient' = toClient
  BY DEF IInv, SidesInv, CL_WritePacket, ClientRuns
<1>2. cl.reliableSequence - cl.reliableAcknowledge <= MAX_RELIABLE_COMMANDS
  BY <1>1 DEF ClInv
<1>3. toServer' \in Seq(ToServerMessages(sv, cl)) /\ Ordered(toServer')
  BY <1>1, <1>2, ToServerSent
<1> QED BY <1>1, <1>3 DEF IInv

LEMMA DisconnectStep ==
  ASSUME IInv, CL_Disconnect
  PROVE  IInv'
<1> DEFINE n == cl.reliableSequence + 1
           d == [ClientStore(cl, n, DisconnectText(n)) EXCEPT !.state = "disconnected"]
<1>1. /\ SidesInv(sv, cl) /\ cl \in ClRecord /\ ClInv(cl)
      /\ cl.state = "connected" /\ ~cl.garbled
      /\ cl.reliableSequence \in Nat /\ cl.reliableAcknowledge \in Nat
      /\ cl.reliableSequence - cl.reliableAcknowledge <= MAX_RELIABLE_COMMANDS
      /\ toClient \in Seq(ToClientMessages(sv, cl)) /\ Ordered(toClient)
      /\ toServer \in Seq(ToServerMessages(sv, cl)) /\ Ordered(toServer)
      /\ cl' = d /\ toServer' = Append(toServer, ClientMessage(d))
      /\ sv' = sv /\ toClient' = toClient
  BY DEF IInv, SidesInv, ClRecord, CL_Disconnect, ClientRuns
<1>2. /\ d \in ClRecord /\ ClInv(d) /\ d.state = "disconnected"
      /\ d.reliableSequence = n
      /\ d.reliableAcknowledge = cl.reliableAcknowledge
      /\ d.serverCommandSequence = cl.serverCommandSequence
      /\ d.serverCommands = cl.serverCommands
      /\ d.executed = cl.executed
  <2> DEFINE text == DisconnectText(n)
  <2>1. /\ cl \in ClRecord /\ ClInv(cl) /\ cl.state = "connected" /\ ~cl.garbled
        /\ n = cl.reliableSequence + 1 /\ text = DisconnectText(n)
    BY <1>1
  <2> HIDE DEF n, text
  <2>2. LET c == [ClientStore(cl, n, text) EXCEPT !.state = "disconnected"]
        IN  /\ c \in ClRecord /\ ClInv(c) /\ c.state = "disconnected"
            /\ c.reliableSequence = n
            /\ c.reliableAcknowledge = cl.reliableAcknowledge
            /\ c.serverCommandSequence = cl.serverCommandSequence
            /\ c.serverCommands = cl.serverCommands
            /\ c.executed = cl.executed
    BY <2>1, ClientStoreStep
  <2> QED BY <2>1, <2>2
<1> HIDE DEF d
<1>3. /\ cl.reliableSequence <= d.reliableSequence
      /\ d.reliableSequence - d.reliableAcknowledge <= MAX_RELIABLE_COMMANDS + 1
  BY <1>1, <1>2 DEF ReliableCommandsAssumption
<1>4. SidesInv(sv, d) /\ Later(sv, cl, sv, d)
  BY <1>1, <1>2, <1>3, ClientIssues
<1>5. toClient' \in Seq(ToClientMessages(sv, d))
  BY <1>1, <1>2, <1>4, ToClientQueue
<1>6. toServer \in Seq(ToServerMessages(sv, d))
  BY <1>1, <1>4, ToServerQueue
<1>7. toServer' \in Seq(ToServerMessages(sv, d)) /\ Ordered(toServer')
  BY <1>1, <1>2, <1>3, <1>4, <1>6, ToServerSent
<1> QED BY <1>1, <1>4, <1>5, <1>7 DEF IInv

LEMMA GetServerCommandStep ==
  ASSUME SidesInv(sv, cl), CL_GetServerCommand
  PROVE  /\ SidesInv(sv, cl') /\ Later(sv, cl, sv, cl')
         /\ cl'.reliableAcknowledge = cl.reliableAcknowledge
<1> DEFINE e    == cl.executed
           n    == Len(e) + 1
           ring == cl.serverCommands
           text == ring[Slot(n)]
<1>1. /\ sv \in SvRecord /\ cl \in ClRecord /\ ClInv(cl) /\ cl.state = "connected"
      /\ Received(sv, cl) /\ Executed(sv, cl) /\ n <= cl.serverCommandSequence
  BY DEF SidesInv, CL_GetServerCommand, ClientRuns
<1>2. /\ cl.reliableSequence \in Nat /\ cl.reliableAcknowledge \in Nat
      /\ cl.serverCommandSequence \in Nat /\ e \in Seq(Texts) /\ ring \in Rings
      /\ Len(e) \in Nat /\ DOMAIN e = 1 .. Len(e) /\ n \in Nat
      /\ cl.reliableAcknowledge <= sv.lastClientCommand
      /\ cl.serverCommandSequence <= sv.reliableSequence
      /\ RingHolds(ring, cl.serverCommandSequence, ServerTexts(sv.overflowed))
      /\ \A i \in DOMAIN e : e[i] = ServerTexts(sv.overflowed)[i]
  BY <1>1, LenProperties DEF ClRecord, Received, Executed
<1>3. CASE n <= cl.serverCommandSequence - MAX_RELIABLE_COMMANDS
  <2> DEFINE d == [cl EXCEPT !.state = "ERR_DROP"]
  <2>1. cl' = d
    BY <1>3 DEF CL_GetServerCommand
  <2>2. /\ d \in ClRecord /\ d.state = "ERR_DROP"
        /\ d.reliableSequence = cl.reliableSequence
        /\ d.reliableAcknowledge = cl.reliableAcknowledge
        /\ d.reliableCommands = cl.reliableCommands
        /\ d.serverCommandSequence = cl.serverCommandSequence
        /\ d.serverCommands = cl.serverCommands
        /\ d.garbled = cl.garbled /\ d.executed = cl.executed
    BY <1>1 DEF ClRecord, ClientStates
  <2> HIDE DEF d
  <2>3. ClInv(d)
    <3>1. RingHolds(d.reliableCommands, d.reliableSequence, ClientTexts(d))
      BY <1>1, <2>2 DEF ClInv, RingHolds, ClientTexts
    <3> QED BY <1>1, <2>2, <3>1 DEF ClInv
  <2>4. cl.reliableSequence <= d.reliableSequence
    BY <1>2, <2>2
  <2> QED BY <1>1, <2>1, <2>2, <2>3, <2>4, ClientIssues
<1>4. CASE ~(n <= cl.serverCommandSequence - MAX_RELIABLE_COMMANDS)
  <2> DEFINE d == [cl EXCEPT !.executed = Append(e, text)]
             new == Append(e, text)
             texts == ServerTexts(sv.overflowed)
  <2>1. cl' = d
    BY <1>4 DEF CL_GetServerCommand
  <2>2. text = texts[n] /\ text \in Texts
    <3>1. /\ n \in 0 .. cl.serverCommandSequence
          /\ n > cl.serverCommandSequence - MAX_RELIABLE_COMMANDS
      BY <1>1, <1>2, <1>4 DEF ReliableCommandsAssumption
    <3> HIDE DEF n
    <3> QED BY <1>2, <3>1, SlotType DEF RingHolds, Rings
  <2> HIDE DEF text, texts, ring
  <2>3. /\ new \in Seq(Texts) /\ Len(new) = n
        /\ \A i \in 1 .. Len(e) : new[i] = e[i]
        /\ new[n] = text
    BY <1>2, <2>2, AppendProperties
  <2> HIDE DEF new
  <2>4. DOMAIN new = 1 .. n
    BY <2>3, LenProperties
  <2>5. \A i \in DOMAIN new : new[i] = texts[i]
    <3>1. \A i \in 1 .. n : i \in 1 .. Len(e) \/ i = n
      BY <1>2
    <3>2. \A i \in 1 .. Len(e) : e[i] = texts[i]
      BY <1>2 DEF texts
    <3> QED BY <2>2, <2>3, <2>4, <3>1, <3>2
  <2>6. /\ d \in ClRecord /\ d.state = "connected"
        /\ d.reliableSequence = cl.reliableSequence
        /\ d.reliableAcknowledge = cl.reliableAcknowledge
        /\ d.reliableCommands = cl.reliableCommands
        /\ d.serverCommandSequence = cl.serverCommandSequence
        /\ d.serverCommands = cl.serverCommands
        /\ d.garbled = cl.garbled /\ d.executed = new
    BY <1>1, <2>3 DEF ClRecord, new
  <2> HIDE DEF d
  <2>7. ClInv(d)
    <3>1. RingHolds(d.reliableCommands, d.reliableSequence, ClientTexts(d))
      BY <1>1, <2>6 DEF ClInv, RingHolds, ClientTexts
    <3> QED BY <1>1, <2>6, <3>1 DEF ClInv
  <2>8. /\ cl.reliableSequence <= d.reliableSequence
        /\ cl.reliableAcknowledge <= d.reliableAcknowledge
        /\ d.reliableAcknowledge <= sv.lastClientCommand
        /\ cl.serverCommandSequence <= d.serverCommandSequence
        /\ d.serverCommandSequence <= sv.reliableSequence
    BY <1>2, <2>6
  <2>9. /\ RingHolds(d.serverCommands, d.serverCommandSequence, ServerTexts(sv.overflowed))
        /\ Len(d.executed) <= d.serverCommandSequence
        /\ \A i \in DOMAIN d.executed : d.executed[i] = ServerTexts(sv.overflowed)[i]
    <3> HIDE DEF n
    <3> QED BY <1>1, <1>2, <2>3, <2>5, <2>6 DEF ring, texts
  <2> QED BY <1>1, <2>1, <2>6, <2>7, <2>8, <2>9, ClientMoves
<1> QED BY <1>3, <1>4

LEMMA LoseMessageStep ==
  ASSUME IInv, LoseMessage
  PROVE  IInv'
<1>1. CASE /\ \E i \in DOMAIN toClient : toClient' = Without(toClient, i)
           /\ UNCHANGED <<sv, cl, toServer>>
  <2>1. toClient' \in Seq(ToClientMessages(sv, cl)) /\ Ordered(toClient')
    BY <1>1, QueueWithout DEF IInv
  <2> QED BY <1>1, <2>1 DEF IInv
<1>2. CASE /\ \E i \in DOMAIN toServer : toServer' = Without(toServer, i)
           /\ UNCHANGED <<sv, cl, toClient>>
  <2>1. toServer' \in Seq(ToServerMessages(sv, cl)) /\ Ordered(toServer')
    BY <1>2, QueueWithout DEF IInv
  <2> QED BY <1>2, <2>1 DEF IInv
<1> QED BY <1>1, <1>2 DEF LoseMessage

\* The client's ring after the commands first .. last of a message.
Parsed(ring, have, first, last, commands) ==
  LET new == {n \in first .. last : n > have}
      InSlot(s) == {n \in new : Slot(n) = s}
      Latest(s) == CHOOSE n \in InSlot(s) : \A k \in InSlot(s) : k <= n
  IN  [s \in DOMAIN ring |-> IF InSlot(s) = {} THEN ring[s]
                             ELSE commands[Latest(s) - first + 1]]

\* The message leaves no gap, and brings something new.
Parsable(ring, have, first, last, commands, texts) ==
  /\ ring \in Rings /\ have \in Nat /\ first \in Nat /\ last \in Nat
  /\ first <= have + 1 /\ have < last
  /\ \A i \in 1 .. last - first + 1 : commands[i] \in Texts
  /\ RingHolds(ring, have, texts)
  /\ \A k \in first .. last :
       k > last - MAX_RELIABLE_COMMANDS => commands[k - first + 1] = texts[k]

LEMMA ParsedRing ==
  ASSUME NEW ring, NEW have, NEW first, NEW last, NEW commands, NEW texts,
         Parsable(ring, have, first, last, commands, texts)
  PROVE  LET parsed == Parsed(ring, have, first, last, commands)
         IN  parsed \in Rings /\ RingHolds(parsed, last, texts)
<1> DEFINE K == MAX_RELIABLE_COMMANDS
           new == {n \in first .. last : n > have}
           InSlot(s) == {n \in new : Slot(n) = s}
           Latest(s) == CHOOSE n \in InSlot(s) : \A k \in InSlot(s) : k <= n
           parsed == Parsed(ring, have, first, last, commands)
<1> USE DEF Parsable
<1>1. /\ DOMAIN ring = 0 .. K - 1 /\ \A s \in 0 .. K - 1 : ring[s] \in Texts
      /\ K \in Nat \ {0}
      /\ parsed = [s \in 0 .. K - 1 |->
                     IF InSlot(s) = {} THEN ring[s] ELSE commands[Latest(s) - first + 1]]
  BY DEF Rings, Parsed, ReliableCommandsAssumption
<1> HIDE DEF parsed
<1>2. ASSUME NEW s, InSlot(s) # {}
      PROVE  Latest(s) \in InSlot(s) /\ \A k \in InSlot(s) : k <= Latest(s)
  <2> DEFINE D == {d \in Nat : last - d \in InSlot(s)}
  <2>1. \A n \in InSlot(s) : n \in Nat /\ last - n \in D /\ last - (last - n) = n
    OBVIOUS
  <2>2. D \subseteq Nat /\ D # {}
    BY <1>2, <2>1
  <2>3. PICK d \in D : \A e \in D : d <= e
    <3> HIDE DEF D
    <3> QED BY <2>2, LeastNatural
  <2>4. last - d \in InSlot(s) /\ \A k \in InSlot(s) : k <= last - d
    BY <2>1, <2>3
  <2> HIDE DEF InSlot
  <2> QED BY <2>4
<1>3. \A n \in new : n \in Nat /\ n - first + 1 \in 1 .. last - first + 1
  OBVIOUS
<1>4. parsed \in Rings
  <2>1. \A s \in 0 .. K - 1 :
          (IF InSlot(s) = {} THEN ring[s] ELSE commands[Latest(s) - first + 1]) \in Texts
    <3>1. ASSUME NEW s \in 0 .. K - 1, InSlot(s) # {}
          PROVE  commands[Latest(s) - first + 1] \in Texts
      <4>1. Latest(s) \in new
        BY <1>2, <3>1
      <4> HIDE DEF new, Latest
      <4> QED BY <1>3, <4>1
    <3> HIDE DEF InSlot, Latest
    <3> QED BY <1>1, <3>1
  <2> HIDE DEF InSlot, Latest
  <2> QED BY <1>1, <2>1 DEF Rings
<1>5. ASSUME NEW k \in 0 .. last, k > last - K
      PROVE  parsed[Slot(k)] = texts[k]
  <2>1. Slot(k) \in 0 .. K - 1
    BY SlotType
  <2>2. CASE k > have
    <3>1. k \in new /\ k \in InSlot(Slot(k))
      BY <2>2
    <3>2. ASSUME NEW n \in InSlot(Slot(k)), n # k
          PROVE  n < k
      <4>1. n \in Nat /\ k \in Nat /\ n <= last /\ Slot(n) = Slot(k)
        OBVIOUS
      <4>2. n > k => n - k < K /\ k - n < K
        BY <1>1, <1>5, <4>1
      <4>3. ~(n > k)
        BY <3>2, <4>1, <4>2, SlotsDiffer
      <4> QED BY <3>2, <4>1, <4>3
    <3>3. Latest(Slot(k)) = k
      <4>1. Latest(Slot(k)) \in InSlot(Slot(k)) /\ k <= Latest(Slot(k))
        BY <1>2, <3>1
      <4>2. Latest(Slot(k)) \in Nat
        BY <4>1
      <4> HIDE DEF InSlot, Latest
      <4> QED BY <3>2, <4>1, <4>2
    <3>4. parsed[Slot(k)] = commands[k - first + 1]
      <4> HIDE DEF InSlot, Latest
      <4> QED BY <1>1, <2>1, <3>1, <3>3
    <3>5. k \in first .. last
      BY <3>1
    <3> QED BY <1>5, <3>4, <3>5
  <2>3. CASE k <= have
    <3>1. InSlot(Slot(k)) = {}
      <4>1. ASSUME NEW n \in InSlot(Slot(k))
            PROVE  FALSE
        <5>1. /\ n \in Nat /\ k \in Nat /\ Slot(n) = Slot(k) /\ n # k
              /\ n - k < K /\ k - n < K
          BY <1>1, <1>5, <2>3
        <5> QED BY <5>1, SlotsDiffer
      <4> QED BY <4>1
    <3>2. parsed[Slot(k)] = ring[Slot(k)]
      <4> HIDE DEF InSlot, Latest
      <4> QED BY <1>1, <2>1, <3>1
    <3>3. k \in 0 .. have /\ k > have - K
      BY <1>1, <1>5, <2>3
    <3> QED BY <3>2, <3>3 DEF RingHolds
  <2> QED BY <2>2, <2>3
<1> QED BY <1>4, <1>5 DEF RingHolds, parsed

\* The client acknowledges what the server has executed, and stores the
\* commands of the message it has not seen.
LEMMA ParseStep ==
  ASSUME NEW s, NEW c, SidesInv(s, c), c.state = "connected", ~c.garbled,
         NEW m \in ToClientMessages(s, c)
  PROVE  LET d == ParseCommandStrings([c EXCEPT !.reliableAcknowledge = m.ack], m)
         IN  /\ SidesInv(s, d) /\ Later(s, c, s, d)
             /\ d.reliableAcknowledge = m.ack
<1> DEFINE a     == [c EXCEPT !.reliableAcknowledge = m.ack]
           d     == ParseCommandStrings(a, m)
           ring  == c.serverCommands
           have  == c.serverCommandSequence
           first == m.first
           last  == LastOf(m)
           texts == ServerTexts(s.overflowed)
<1>1. /\ s \in SvRecord /\ c \in ClRecord /\ ClInv(c)
      /\ Received(s, c) /\ Executed(s, c)
  BY DEF SidesInv
<1>2. /\ m \in MessageType /\ first \in Nat /\ m.commands \in Seq(Texts)
      /\ 1 <= first /\ first <= have + 1 /\ last <= s.reliableSequence
      /\ m.ack \in Nat /\ c.reliableAcknowledge <= m.ack
      /\ m.ack <= s.lastClientCommand
      /\ \A k \in first .. last :
           k > last - MAX_RELIABLE_COMMANDS => m.commands[k - first + 1] = texts[k]
  BY <1>1 DEF ToClientMessages, MessageType, SvRecord, ClRecord
<1>3. /\ Len(m.commands) \in Nat /\ last = first + Len(m.commands) - 1
      /\ \A i \in 1 .. Len(m.commands) : m.commands[i] \in Texts
  BY <1>2, LenProperties, ElementOfSeq DEF LastOf
<1>4. /\ have \in Nat /\ ring \in Rings /\ last \in Int
      /\ last - first + 1 = Len(m.commands)
      /\ RingHolds(ring, have, texts)
      /\ have <= s.reliableSequence
      /\ c.reliableSequence \in Nat /\ c.reliableAcknowledge \in Nat
      /\ s.lastClientCommand \in Nat /\ s.reliableSequence \in Nat
  <2>1. last \in Int /\ last - first + 1 = Len(m.commands)
    <3>1. first \in Nat
      BY <1>2
    <3> HIDE DEF last, first
    <3> QED BY <1>3, <3>1
  <2> QED BY <1>1, <2>1 DEF ClRecord, SvRecord, Received
<1>5. /\ a \in ClRecord /\ a.state = "connected" /\ a.reliableSequence = c.reliableSequence
      /\ a.reliableAcknowledge = m.ack /\ a.reliableCommands = c.reliableCommands
      /\ a.serverCommandSequence = have /\ a.serverCommands = ring
      /\ a.garbled = c.garbled /\ a.executed = c.executed
  BY <1>1, <1>2 DEF ClRecord
<1> HIDE DEF a
<1>6. /\ d \in ClRecord /\ d.state = "connected" /\ d.reliableSequence = c.reliableSequence
      /\ d.reliableAcknowledge = m.ack /\ d.reliableCommands = c.reliableCommands
      /\ d.garbled = c.garbled /\ d.executed = c.executed
      /\ have <= d.serverCommandSequence
      /\ d.serverCommandSequence <= s.reliableSequence
      /\ RingHolds(d.serverCommands, d.serverCommandSequence, texts)
  <2> DEFINE new == {n \in first .. last : n > have}
             parsed == Parsed(ring, have, first, last, m.commands)
  <2>1. d = IF new = {} THEN a
            ELSE [a EXCEPT !.serverCommandSequence = last, !.serverCommands = parsed]
    BY <1>5 DEF ParseCommandStrings, Parsed, LastOf
  <2>2. CASE new = {}
    <3>1. d = a
      BY <2>1, <2>2
    <3> HIDE DEF d
    <3> QED BY <1>4, <1>5, <3>1
  <2>3. CASE new # {}
    <3>1. last \in Nat /\ have < last
      <4> HIDE DEF last
      <4> QED BY <1>2, <1>4, <2>3
    <3>2. parsed \in Rings /\ RingHolds(parsed, last, texts)
      <4>1. Parsable(ring, have, first, last, m.commands, texts)
        <5> HIDE DEF texts, last, have, ring
        <5> QED BY <1>2, <1>3, <1>4, <3>1 DEF Parsable
      <4> QED BY <4>1, ParsedRing
    <3>3. d = [a EXCEPT !.serverCommandSequence = last, !.serverCommands = parsed]
      BY <2>1, <2>3
    <3> HIDE DEF parsed, d, last, new
    <3>4. /\ d \in ClRecord /\ d.state = a.state /\ d.reliableSequence = a.reliableSequence
          /\ d.reliableAcknowledge = a.reliableAcknowledge
          /\ d.reliableCommands = a.reliableCommands
          /\ d.garbled = a.garbled /\ d.executed = a.executed
          /\ d.serverCommandSequence = last /\ d.serverCommands = parsed
      BY <1>5, <3>1, <3>2, <3>3 DEF ClRecord
    <3> QED BY <1>2, <1>4, <1>5, <3>1, <3>2, <3>4
  <2> QED BY <2>2, <2>3
<1> HIDE DEF d, last, first, have, texts, ring
<1>7. ClInv(d)
  <2>1. RingHolds(d.reliableCommands, d.reliableSequence, ClientTexts(d))
    BY <1>1, <1>6 DEF ClInv, RingHolds, ClientTexts
  <2>2. c.reliableSequence - m.ack <= MAX_RELIABLE_COMMANDS
    BY <1>1, <1>2, <1>4 DEF ClInv, ReliableCommandsAssumption
  <2> QED BY <1>1, <1>6, <2>1, <2>2 DEF ClInv
<1>8. /\ c.reliableSequence <= d.reliableSequence
      /\ c.reliableAcknowledge <= d.reliableAcknowledge
      /\ d.reliableAcknowledge <= s.lastClientCommand
  BY <1>2, <1>4, <1>6
<1>9. /\ Len(d.executed) <= d.serverCommandSequence
      /\ \A i \in DOMAIN d.executed : d.executed[i] = ServerTexts(s.overflowed)[i]
  <2>1. Len(c.executed) \in Nat /\ d.serverCommandSequence \in Nat
    BY <1>1, <1>6, LenProperties DEF ClRecord
  <2> QED BY <1>1, <1>4, <1>6, <2>1 DEF Executed, have
<1> QED BY <1>1, <1>6, <1>7, <1>8, <1>9, ClientMoves DEF have, texts, d, a

\* A message that is noise to the client: its window was full.
LEMMA ClientGarbled ==
  ASSUME NEW s, NEW c, SidesInv(s, c), c.state = "connected", ~c.garbled,
         NEW m \in ToClientMessages(s, c),
         m.key # c.reliableCommands[Slot(m.ack)]
  PROVE  LET d == [[c EXCEPT !.reliableAcknowledge = m.ack] EXCEPT !.garbled = TRUE]
         IN  /\ SidesInv(s, d) /\ Later(s, c, s, d)
             /\ d.reliableAcknowledge = m.ack
<1> DEFINE d == [[c EXCEPT !.reliableAcknowledge = m.ack] EXCEPT !.garbled = TRUE]
<1>1. /\ s \in SvRecord /\ c \in ClRecord /\ ClInv(c)
      /\ Received(s, c) /\ Executed(s, c)
  BY DEF SidesInv
<1>2. /\ m.ack \in Nat /\ c.reliableAcknowledge <= m.ack /\ m.ack <= s.lastClientCommand
      /\ m.key = m.ack
  BY <1>1 DEF ToClientMessages, MessageType, SvRecord, ClRecord
<1>3. /\ c.reliableSequence \in Nat /\ c.reliableAcknowledge \in Nat
      /\ s.lastClientCommand \in Nat /\ s.lastClientCommand <= c.reliableSequence
      /\ c.reliableSequence - c.reliableAcknowledge <= MAX_RELIABLE_COMMANDS
      /\ RingHolds(c.reliableCommands, c.reliableSequence, ClientTexts(c))
      /\ c.serverCommandSequence \in Nat /\ s.reliableSequence \in Nat
      /\ c.serverCommandSequence <= s.reliableSequence
  BY <1>1 DEF ClRecord, SvRecord, Received, ClInv
<1>4. c.reliableSequence - m.ack = MAX_RELIABLE_COMMANDS
  <2>1. m.ack \in 0 .. c.reliableSequence
    BY <1>2, <1>3
  <2>2. ClientTexts(c)[m.ack] = m.ack
    BY <1>2 DEF ClientTexts
  <2>3. ~(m.ack > c.reliableSequence - MAX_RELIABLE_COMMANDS)
    BY <1>2, <1>3, <2>1, <2>2 DEF RingHolds
  <2> QED BY <1>2, <1>3, <2>3 DEF ReliableCommandsAssumption
<1>5. /\ d \in ClRecord /\ d.state = "connected" /\ d.reliableSequence = c.reliableSequence
      /\ d.reliableAcknowledge = m.ack /\ d.reliableCommands = c.reliableCommands
      /\ d.serverCommandSequence = c.serverCommandSequence
      /\ d.serverCommands = c.serverCommands /\ d.executed = c.executed
  BY <1>1, <1>2 DEF ClRecord
<1> HIDE DEF d
<1>6. ClInv(d)
  <2>1. RingHolds(d.reliableCommands, d.reliableSequence, ClientTexts(d))
    BY <1>1, <1>5 DEF ClInv, RingHolds, ClientTexts
  <2>2. c.reliableSequence - m.ack <= MAX_RELIABLE_COMMANDS
    BY <1>4 DEF ReliableCommandsAssumption
  <2> QED BY <1>1, <1>4, <1>5, <2>1, <2>2 DEF ClInv
<1>7. /\ c.reliableSequence <= d.reliableSequence
      /\ c.reliableAcknowledge <= d.reliableAcknowledge
      /\ d.reliableAcknowledge <= s.lastClientCommand
      /\ c.serverCommandSequence <= d.serverCommandSequence
      /\ d.serverCommandSequence <= s.reliableSequence
  BY <1>2, <1>3, <1>5
<1>8. /\ RingHolds(d.serverCommands, d.serverCommandSequence, ServerTexts(s.overflowed))
      /\ Len(d.executed) <= d.serverCommandSequence
      /\ \A i \in DOMAIN d.executed : d.executed[i] = ServerTexts(s.overflowed)[i]
  BY <1>1, <1>5 DEF Received, Executed
<1> QED BY <1>1, <1>5, <1>6, <1>7, <1>8, ClientMoves DEF d

LEMMA ParseServerMessageStep ==
  ASSUME IInv, CL_ParseServerMessage
  PROVE  IInv'
<1> DEFINE m == Head(toClient)
           a == [cl EXCEPT !.reliableAcknowledge = m.ack]
           M == ToClientMessages(sv, cl)
<1>1. /\ SidesInv(sv, cl) /\ toServer \in Seq(ToServerMessages(sv, cl))
      /\ Ordered(toServer) /\ toClient \in Seq(M) /\ Ordered(toClient)
      /\ toClient # <<>> /\ toClient' = Tail(toClient)
      /\ sv' = sv /\ toServer' = toServer /\ cl.state = "connected" /\ ~cl.garbled
  BY DEF IInv, CL_ParseServerMessage, ClientRuns
<1>2. /\ m \in M /\ Tail(toClient) \in Seq({x \in M : m.ack <= x.ack})
      /\ Ordered(Tail(toClient))
  <2> HIDE DEF M
  <2> QED BY <1>1, QueueTail
<1> HIDE DEF m
<1>3. /\ m.ack \in Nat /\ cl.reliableAcknowledge \in Nat /\ cl.reliableSequence \in Nat
      /\ cl.reliableAcknowledge <= m.ack /\ m.ack <= cl.reliableSequence
      /\ cl.reliableSequence - cl.reliableAcknowledge <= MAX_RELIABLE_COMMANDS
  <2>1. /\ sv \in SvRecord /\ cl \in ClRecord /\ ClInv(cl) /\ Received(sv, cl)
    BY <1>1 DEF SidesInv
  <2>2. m \in MessageType /\ m.ack \in cl.reliableAcknowledge .. sv.lastClientCommand
    BY <1>2 DEF ToClientMessages
  <2>3. /\ cl.reliableSequence \in Nat /\ cl.reliableAcknowledge \in Nat
        /\ sv.lastClientCommand \in Nat /\ sv.lastClientCommand <= cl.reliableSequence
        /\ cl.reliableSequence - cl.reliableAcknowledge <= MAX_RELIABLE_COMMANDS
    BY <1>1, <2>1 DEF SvRecord, ClRecord, ClInv, Received
  <2>4. m.ack \in Nat
    BY <2>2 DEF MessageType
  <2> QED BY <2>2, <2>3, <2>4
<1>4. cl' = IF m.key # cl.reliableCommands[Slot(m.ack)]
            THEN [a EXCEPT !.garbled = TRUE]
            ELSE ParseCommandStrings(a, m)
  <2>1. /\ ~(cl.reliableSequence - m.ack < 0)
        /\ ~(cl.reliableSequence - m.ack > MAX_RELIABLE_COMMANDS)
    BY <1>3 DEF ReliableCommandsAssumption
  <2> QED BY <2>1 DEF CL_ParseServerMessage, m
<1>5. /\ SidesInv(sv, cl') /\ Later(sv, cl, sv, cl')
      /\ cl'.reliableAcknowledge = m.ack
  <2>1. CASE m.key # cl.reliableCommands[Slot(m.ack)]
    BY <1>1, <1>2, <1>4, <2>1, ClientGarbled
  <2>2. CASE m.key = cl.reliableCommands[Slot(m.ack)]
    BY <1>1, <1>2, <1>4, <2>2, ParseStep
  <2> QED BY <2>1, <2>2
<1>6. \A x \in {y \in M : m.ack <= y.ack} : x \in ToClientMessages(sv, cl')
  <2>1. ASSUME NEW x \in M, m.ack <= x.ack
        PROVE  x \in ToClientMessages(sv, cl')
    <3>1. x.ack >= cl'.reliableAcknowledge
      <4>1. x.ack \in Nat
        BY DEF ToClientMessages, MessageType
      <4> QED BY <1>3, <1>5, <2>1, <4>1
    <3> QED BY <1>1, <1>5, <3>1, ToClientSurvives
  <2> QED BY <2>1
<1>7. toClient' \in Seq(ToClientMessages(sv, cl')) /\ Ordered(toClient')
  <2> HIDE DEF M
  <2> QED BY <1>1, <1>2, <1>6, QueueType
<1>8. toServer' \in Seq(ToServerMessages(sv, cl')) /\ Ordered(toServer')
  BY <1>1, <1>5, ToServerQueue
<1> QED BY <1>1, <1>5, <1>7, <1>8 DEF IInv

-----------------------------------------------------------------------------
(* The invariant holds *)

LEMMA InitIInv ==
  ASSUME Init
  PROVE  IInv
<1>1. /\ 0 \in Texts /\ EmptyRing \in Rings /\ <<>> \in Seq(Texts) /\ Len(<<>>) = 0
      /\ \A n \in 0 .. 0 : EmptyRing[Slot(n)] = 0
      /\ CS_ACTIVE # CS_ZOMBIE /\ CS_ACTIVE \in {CS_ACTIVE, CS_ZOMBIE}
  <2>1. Slot(0) \in 0 .. MAX_RELIABLE_COMMANDS - 1
    BY SlotType
  <2>2. 0 \in Texts
    BY DEF Texts, ReliableCommandsAssumption
  <2> QED BY <2>1, <2>2, EmptySeq DEF Rings, EmptyRing, CS_ACTIVE, CS_ZOMBIE
<1>2. /\ ServerTexts(0)[0] = 0 /\ ClientTexts(cl)[0] = 0
  BY DEF Init, ServerTexts, ClientTexts
<1>3. RingHolds(EmptyRing, 0, ServerTexts(0)) /\ RingHolds(EmptyRing, 0, ClientTexts(cl))
  BY <1>1, <1>2 DEF RingHolds
<1> HIDE DEF RingHolds
<1>4. sv \in SvRecord /\ SvInv(sv)
  <2>1. sv \in SvRecord
    BY <1>1 DEF Init, SvRecord, DropSteps
  <2> QED BY <1>1, <1>3, <2>1 DEF Init, SvInv, MaxIssued, ReliableCommandsAssumption
<1>5. cl \in ClRecord /\ ClInv(cl)
  <2>1. cl \in ClRecord
    BY <1>1 DEF Init, ClRecord, ClientStates
  <2>2. /\ cl.reliableSequence = 0 /\ cl.reliableAcknowledge = 0
        /\ cl.state = "connected" /\ ~cl.garbled /\ cl.reliableCommands = EmptyRing
    BY DEF Init
  <2>3. RingHolds(cl.reliableCommands, cl.reliableSequence, ClientTexts(cl))
    BY <1>3, <2>2
  <2>4. /\ 0 <= MaxClientCommands + 1 /\ 0 <= MaxClientCommands
        /\ 0 - 0 <= MAX_RELIABLE_COMMANDS
    BY DEF ReliableCommandsAssumption
  <2> QED BY <2>1, <2>2, <2>3, <2>4 DEF ClInv
<1>6. Received(sv, cl) /\ Executed(sv, cl)
  BY <1>1, <1>3 DEF Init, Received, Executed
<1>7. /\ toClient = <<>> /\ toServer = <<>>
      /\ \A S : <<>> \in Seq(S)
      /\ Ordered(<<>>)
  BY EmptySeq DEF Init, Ordered
<1> QED BY <1>4, <1>5, <1>6, <1>7 DEF IInv, SidesInv

\* A step of the server that leaves the queues and its acknowledgement alone,
\* and one of the client.
LEMMA QueuesStand ==
  ASSUME IInv, NEW t, NEW d, SidesInv(t, d), Later(sv, cl, t, d),
         t.reliableAcknowledge = sv.reliableAcknowledge,
         d.reliableAcknowledge = cl.reliableAcknowledge
  PROVE  /\ toClient \in Seq(ToClientMessages(t, d)) /\ Ordered(toClient)
         /\ toServer \in Seq(ToServerMessages(t, d)) /\ Ordered(toServer)
BY ToClientQueue, ToServerQueue DEF IInv

LEMMA NextIInv ==
  ASSUME IInv, [Next]_vars
  PROVE  IInv'
<1>1. CASE SV_AddServerCommand
  <2>1. cl' = cl /\ toClient' = toClient /\ toServer' = toServer
    BY <1>1 DEF SV_AddServerCommand
  <2>2. /\ SidesInv(sv', cl) /\ Later(sv, cl, sv', cl)
        /\ sv'.reliableAcknowledge = sv.reliableAcknowledge
    BY <1>1, AddServerCommandStep DEF IInv
  <2> QED BY <2>1, <2>2, QueuesStand DEF IInv
<1>2. CASE SV_DropClient
  <2>1. /\ cl' = cl /\ toClient' = toClient /\ toServer' = toServer
        /\ sv' = DropClient(sv) /\ sv.state # CS_ZOMBIE /\ sv.drop = "no" /\ ~sv.garbled
    BY <1>2 DEF SV_DropClient, ServerRuns
  <2>2. /\ SidesInv(sv', cl) /\ Later(sv, cl, sv', cl)
        /\ sv'.reliableAcknowledge = sv.reliableAcknowledge
    BY <2>1, ServerDrops DEF IInv
  <2> QED BY <2>1, <2>2, QueuesStand DEF IInv
<1>3. CASE SV_SendClientSnapshot
  BY <1>3, SendClientSnapshotStep
<1>4. CASE SV_ExecuteClientMessage
  BY <1>4, ExecuteClientMessageStep
<1>5. CASE CL_AddReliableCommand
  <2>1. sv' = sv /\ toClient' = toClient /\ toServer' = toServer
    BY <1>5 DEF CL_AddReliableCommand
  <2>2. /\ SidesInv(sv, cl') /\ Later(sv, cl, sv, cl')
        /\ cl'.reliableAcknowledge = cl.reliableAcknowledge
    BY <1>5, AddReliableCommandStep DEF IInv
  <2> QED BY <2>1, <2>2, QueuesStand DEF IInv
<1>6. CASE CL_WritePacket
  BY <1>6, WritePacketStep
<1>7. CASE CL_Disconnect
  BY <1>7, DisconnectStep
<1>8. CASE CL_ParseServerMessage
  BY <1>8, ParseServerMessageStep
<1>9. CASE CL_GetServerCommand
  <2>1. sv' = sv /\ toClient' = toClient /\ toServer' = toServer
    BY <1>9 DEF CL_GetServerCommand
  <2>2. /\ SidesInv(sv, cl') /\ Later(sv, cl, sv, cl')
        /\ cl'.reliableAcknowledge = cl.reliableAcknowledge
    BY <1>9, GetServerCommandStep DEF IInv
  <2> QED BY <2>1, <2>2, QueuesStand DEF IInv
<1>10. CASE LoseMessage
  BY <1>10, LoseMessageStep
<1>11. CASE SV_DropClientPrint
  <2>1. cl' = cl /\ toClient' = toClient /\ toServer' = toServer
    BY <1>11 DEF SV_DropClientPrint
  <2>2. /\ SidesInv(sv', cl) /\ Later(sv, cl, sv', cl)
        /\ sv'.reliableAcknowledge = sv.reliableAcknowledge
    BY <1>11, DropClientPrintStep DEF IInv
  <2> QED BY <2>1, <2>2, QueuesStand DEF IInv
<1>12. CASE SV_DropClientDisconnect
  <2>1. cl' = cl /\ toClient' = toClient /\ toServer' = toServer
    BY <1>12 DEF SV_DropClientDisconnect
  <2>2. /\ SidesInv(sv', cl) /\ Later(sv, cl, sv', cl)
        /\ sv'.reliableAcknowledge = sv.reliableAcknowledge
    BY <1>12, DropClientDisconnectStep DEF IInv
  <2> QED BY <2>1, <2>2, QueuesStand DEF IInv
<1>13. CASE UNCHANGED vars
  BY <1>13 DEF vars, IInv
<1> QED
  BY <1>1, <1>2, <1>3, <1>4, <1>5, <1>6, <1>7, <1>8, <1>9, <1>10, <1>11, <1>12, <1>13 DEF Next

\* What the rings and the messages in flight hold, at any time.
THEOREM CommandsInvariant == Spec => []IInv
<1>1. Init => IInv
  BY InitIInv
<1>2. IInv /\ [Next]_vars => IInv'
  BY NextIInv
<1> QED BY <1>1, <1>2, PTL DEF Spec

\* The cgame executes every command of the server once, in order and with its
\* own text, whatever the channel loses: SV_AddServerCommand and
\* CL_GetServerCommand.
THEOREM ServerCommandsOrdered == Spec => []ServerCommandsInOrder
<1>1. ASSUME IInv PROVE ServerCommandsInOrder
  <2>1. /\ cl.executed \in Seq(Texts) /\ sv.overflowed \in Nat
        /\ \A i \in DOMAIN cl.executed : cl.executed[i] = ServerTexts(sv.overflowed)[i]
    BY <1>1 DEF IInv, SidesInv, SvRecord, ClRecord, Executed
  <2>2. \A i \in DOMAIN cl.executed : i \in Nat
    BY <2>1, LenProperties
  <2>3. \A v, i \in Nat :
          \/ ServerTexts(v)[i] = i
          \/ i = v /\ ServerTexts(v)[i] = i - MAX_RELIABLE_COMMANDS
    BY DEF ServerTexts
  <2> QED BY <2>1, <2>2, <2>3 DEF ServerCommandsInOrder
<1> QED BY <1>1, CommandsInvariant, PTL

\* The game executes every command of the client once, in order and with its
\* own text, the disconnect excepted: SV_ClientCommand and CL_Disconnect.
THEOREM ClientCommandsOrdered == Spec => []ClientCommandsInOrder
<1>1. IInv => ClientCommandsInOrder
  BY DEF IInv, SidesInv, Executed, ClientCommandsInOrder
<1> QED BY <1>1, CommandsInvariant, PTL

\* No client is dropped for lost reliable commands: SV_ClientCommand.
THEOREM CommandsNeverLost == Spec => []NoLostCommands
<1>1. IInv => NoLostCommands
  BY DEF IInv, SidesInv, SvInv, NoLostCommands
<1> QED BY <1>1, CommandsInvariant, PTL

\* Both sides decode with the key the message was encoded with, unless their
\* window was full: SV_Netchan_Decode and CL_Netchan_Decode.
THEOREM KeysAreShared == Spec => []KeysAgree
<1>1. IInv => KeysAgree
  BY DEF IInv, SidesInv, SvInv, ClInv, KeysAgree
<1> QED BY <1>1, CommandsInvariant, PTL

\* What is acknowledged was received and what was received was issued, and
\* nothing pending loses its slot while a side is connected.
THEOREM RingsCorrect == Spec => []RingsInv
<1>1. ASSUME IInv PROVE TypeOK
  <2>1. \A x \in ToClientMessages(sv, cl) : x \in MessageType
    BY DEF ToClientMessages
  <2>2. \A x \in ToServerMessages(sv, cl) : x \in MessageType
    BY DEF ToServerMessages
  <2>3. toClient \in Seq(MessageType) /\ toServer \in Seq(MessageType)
    BY <1>1, <2>1, <2>2, QueueType DEF IInv
  <2> QED BY <1>1, <2>3 DEF IInv, SidesInv, SvRecord, ClRecord, TypeOK
<1>2. ASSUME IInv PROVE AcknowledgedIsReceived
  <2>1. \A i \in DOMAIN toServer : toServer[i] \in ToServerMessages(sv, cl)
    BY <1>2, LenProperties, ElementOfSeq DEF IInv
  <2>2. \A i \in DOMAIN toClient : toClient[i] \in ToClientMessages(sv, cl)
    BY <1>2, LenProperties, ElementOfSeq DEF IInv
  <2>3. /\ \A x \in ToServerMessages(sv, cl) :
             x.ack \in sv.reliableAcknowledge .. cl.serverCommandSequence
        /\ \A x \in ToClientMessages(sv, cl) :
             x.ack \in cl.reliableAcknowledge .. sv.lastClientCommand
    BY DEF ToServerMessages, ToClientMessages
  <2> QED BY <1>2, <2>1, <2>2, <2>3 DEF IInv, SidesInv, Received, AcknowledgedIsReceived
<1>3. ASSUME IInv PROVE PendingKeepTheirSlots
  <2>1. /\ sv \in SvRecord /\ cl \in ClRecord /\ SvInv(sv) /\ ClInv(cl)
    BY <1>3 DEF IInv, SidesInv
  <2>2. ASSUME sv.overflowed = 0,
               NEW n \in sv.reliableAcknowledge + 1 .. sv.reliableSequence
        PROVE  sv.reliableCommands[Slot(n)] = n
    <3>1. /\ n \in 0 .. sv.reliableSequence
          /\ n > sv.reliableSequence - MAX_RELIABLE_COMMANDS
          /\ n \in Nat /\ sv.overflowed = 0
      BY <2>1, <2>2 DEF SvRecord, SvInv, ReliableCommandsAssumption
    <3> QED BY <2>1, <3>1 DEF SvInv, RingHolds, ServerTexts
  <2>3. ASSUME cl.state = "connected",
               NEW n \in cl.reliableAcknowledge + 1 .. cl.reliableSequence
        PROVE  cl.reliableCommands[Slot(n)] = n
    <3>1. /\ n \in 0 .. cl.reliableSequence
          /\ n > cl.reliableSequence - MAX_RELIABLE_COMMANDS /\ n \in Nat
      BY <2>1, <2>3 DEF ClRecord, ClInv, ReliableCommandsAssumption
    <3> QED BY <2>1, <2>3, <3>1 DEF ClInv, RingHolds, ClientTexts
  <2> QED BY <2>2, <2>3 DEF PendingKeepTheirSlots
<1>4. IInv => RingsInv
  BY <1>1, <1>2, <1>3 DEF RingsInv
<1> QED BY <1>4, CommandsInvariant, PTL
=============================================================================

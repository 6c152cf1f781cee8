--------------------------- MODULE GamestateProofs ---------------------------
(***************************************************************************)
(* A client in the world has the map the server is on, and once it has     *)
(* caught up its configstrings are the server's: for any configstrings,    *)
(* any number of maps, restarts, messages, losses and downloads.           *)
(*                                                                         *)
(* The messages on their way and those the server has not sent yet are one *)
(* row, numbered without a gap (Flight).  Every gamestate in it that the   *)
(* client may still enter the world with, and what the client made of the  *)
(* last one it got, agrees with the server but for what the server will    *)
(* tell, or has told after it (Agrees).                                    *)
(***************************************************************************)
EXTENDS Gamestate, SequenceTheorems, FiniteSetTheorems,
        WellFoundedInduction, TLAPS

-----------------------------------------------------------------------------
(* The inductive invariant, of a server s, messages f, packets p, client c *)

States == {CS_ZOMBIE, CS_CONNECTED, CS_PRIMED, CS_ACTIVE}
Acks == {GSA_INIT, GSA_SENT_ONCE, GSA_SENT_MANY, GSA_ACKED}
ClientCommand == {"download", "donedl"}

ServerType ==
  [ serverId : Nat \ {0}, map : Nat, configstrings : StringsType,
    state : States, gamestateAck : Acks, gamestateMessageNum : Int,
    downloading : BOOLEAN, csUpdated : SUBSET Indices, reliableAcknowledge : Nat,
    lastClientCommand : Nat, commands : Seq([index : Indices, value : Nat]),
    outgoingSequence : Nat, unsent : Seq(MessageType), unconfirmed : SUBSET Indices ]

ClientType ==
  [ map : Nat, configstrings : StringsType, serverMessageSequence : Nat,
    serverCommandSequence : Nat, lastExecuted : Nat, loaded : BOOLEAN,
    downloading : BOOLEAN, commands : Seq(ClientCommand), overtaken : SUBSET Indices ]

PacketType ==
  [ serverId : Nat, messageAcknowledge : Nat, reliableAcknowledge : Nat,
    commands : Seq(ClientCommand), move : BOOLEAN ]

Types(s, f, p, c) ==
  /\ s \in ServerType /\ c \in ClientType
  /\ f \in Seq(MessageType) /\ p \subseteq PacketType
  /\ s.map <= s.serverId
  /\ s.gamestateMessageNum \in -1 .. s.outgoingSequence
  /\ s.reliableAcknowledge <= Len(s.commands)
  /\ s.lastClientCommand <= Len(c.commands)
  /\ \A m \in p : /\ m.messageAcknowledge <= c.serverMessageSequence
                  /\ m.reliableAcknowledge <= Len(s.commands)
                  /\ Len(m.commands) <= Len(c.commands)

\* Messages are numbered without a gap and tell of more and more commands; the
\* message a gamestate is numbered as is one, and so is what waits to be sent.
Numbered(s, f, c) ==
  /\ c.lastExecuted <= c.serverCommandSequence
  /\ c.serverCommandSequence <= Len(s.commands)
  /\ c.serverMessageSequence + Len(f) < NextSequence(s)
  /\ s.gamestateMessageNum < NextSequence(s)
  /\ \A i \in 1 .. Len(f) :
       /\ f[i].sequence + Len(f) + 1 = NextSequence(s) + i
       /\ c.serverCommandSequence <= f[i].reliableSequence
       /\ f[i].reliableSequence <= Len(s.commands)
       /\ \A j \in i .. Len(f) : f[i].reliableSequence <= f[j].reliableSequence
       /\ \/ f[i].sequence = s.gamestateMessageNum
          \/ f[i].sequence >= s.outgoingSequence
          => f[i].gamestate

\* The client goes from map to map, and is only accepted on the last one.
OnTheWay(s, f, c) ==
  /\ c.map <= s.map
  /\ \A i \in 1 .. Len(f) : f[i].gamestate =>
       /\ c.map <= f[i].map /\ f[i].map <= s.map
       /\ \A j \in i .. Len(f) : f[j].gamestate => f[i].map <= f[j].map
  /\ s.gamestateAck = GSA_INIT =>
       /\ c.map < s.map
       /\ \A i \in 1 .. Len(f) : f[i].gamestate => f[i].map < s.map
  /\ s.gamestateAck = GSA_ACKED => c.map = s.map
  /\ s.state = CS_ACTIVE => s.gamestateAck = GSA_ACKED /\ s.csUpdated = {}

\* Who knows the server's id has its map.
Knows(s, id, map) == id <= s.serverId /\ (id = s.serverId => map = s.map)

IdsKnown(s, f, p, c) ==
  /\ s.configstrings[CS_SYSTEMINFO] <= s.serverId
  /\ Knows(s, ServerId(c), c.map)
  /\ \A i \in 1 .. Len(f) :
       f[i].gamestate => Knows(s, f[i].configstrings[CS_SYSTEMINFO], f[i].map)
  /\ \A m \in p : Knows(s, m.serverId, c.map)
  /\ \A k \in 1 .. Len(s.commands) :
       s.commands[k].index = CS_SYSTEMINFO => Knows(s, s.commands[k].value, c.map)

\* With the commands after the first n, string i of configstrings gets to be
\* the server's: there is no command for it, or the last one says so.
Reaches(s, configstrings, n, i) ==
  /\ (\A k \in n + 1 .. Len(s.commands) : s.commands[k].index # i)
       => configstrings[i] = s.configstrings[i]
  /\ \A k \in n + 1 .. Len(s.commands) :
       /\ s.commands[k].index = i
       /\ \A j \in k + 1 .. Len(s.commands) : s.commands[j].index # i
       => s.commands[k].value = s.configstrings[i]

Agrees(s, configstrings, n, others) ==
  \A i \in Indices \ (s.csUpdated \cup s.unconfirmed \cup others) :
    Reaches(s, configstrings, n, i)

\* After the server has dropped updates, only the message it then sent counts.
Counts(s, sequence) ==
  s.gamestateAck = GSA_SENT_MANY => sequence >= s.gamestateMessageNum

MayAcknowledge(s, p, c) ==
  s.gamestateAck = GSA_SENT_MANY =>
    \/ c.serverMessageSequence = s.gamestateMessageNum
    \/ \E m \in p : /\ m.messageAcknowledge = s.gamestateMessageNum
                    /\ m.serverId = s.serverId

StringsTold(s, f, p, c) ==
  /\ \A i \in 1 .. Len(f) :
       f[i].gamestate /\ f[i].map = s.map /\ Counts(s, f[i].sequence)
         => Agrees(s, f[i].configstrings, f[i].reliableSequence, {})
  /\ c.map = s.map /\ MayAcknowledge(s, p, c)
       => Agrees(s, c.configstrings, c.lastExecuted, c.overtaken)

Inv(s, f, p, c) ==
  /\ Types(s, f, p, c)
  /\ Numbered(s, f, c)
  /\ OnTheWay(s, f, c)
  /\ IdsKnown(s, f, p, c)
  /\ StringsTold(s, f, p, c)

\* The messages on their way and those not sent yet.
Flight == toClient \o sv.unsent

IInv ==
  /\ toClient \in Seq(MessageType) /\ toServer \in SUBSET PacketType
  /\ Inv(sv, Flight, toServer, cl)

-----------------------------------------------------------------------------
(* Sequences *)

\* Every set of natural numbers has a least one; this stands for induction.
LEMMA LeastNatural ==
  ASSUME NEW S, S \subseteq Nat, S # {}
  PROVE  \E n \in S : \A m \in S : n <= m
<1>1. PICK n \in S : \A m \in S : ~(<<m, n>> \in OpToRel(<, Nat))
  BY NatLessThanWellFounded, WFMin
<1>2. \A m \in S : ~(m < n) BY <1>1 DEF OpToRel
<1> QED BY <1>2

\* One more behind.
LEMMA Appended ==
  ASSUME NEW S, NEW f \in Seq(S), NEW e \in S
  PROVE  /\ Append(f, e) \in Seq(S) /\ Len(Append(f, e)) = Len(f) + 1
         /\ Len(f) \in Nat
         /\ \A n \in 1 .. Len(f) : Append(f, e)[n] = f[n]
         /\ Append(f, e)[Len(f) + 1] = e
BY AppendProperties

\* The first one less.
LEMMA Tailed ==
  ASSUME NEW S, NEW f \in Seq(S), f # <<>>
  PROVE  /\ Tail(f) \in Seq(S) /\ Len(Tail(f)) = Len(f) - 1
         /\ Len(f) \in Nat /\ Len(f) > 0
         /\ Head(f) = f[1] /\ f[1] \in S
         /\ \A n \in 1 .. Len(Tail(f)) : n + 1 \in 1 .. Len(f) /\ Tail(f)[n] = f[n + 1]
<1>1. Len(f) \in Nat /\ Len(f) > 0 BY EmptySeq
<1>2. f[1] \in S BY <1>1, ElementOfSeq
<1>3. Head(f) = f[1] OBVIOUS
<1> QED BY <1>1, <1>2, <1>3, HeadTailProperties

\* What happens to one of two parts happens to the whole.
LEMMA RowAppended ==
  ASSUME NEW S, NEW t \in Seq(S), NEW u \in Seq(S), NEW e \in S
  PROVE  t \o Append(u, e) = Append(t \o u, e)
<1>1. <<e>> \in Seq(S) OBVIOUS
<1>2. t \o u \in Seq(S) BY ConcatProperties
<1>3. Append(u, e) = u \o <<e>> /\ Append(t \o u, e) = (t \o u) \o <<e>>
  BY <1>2, AppendIsConcat
<1> QED BY <1>1, <1>3, ConcatAssociative

LEMMA RowTailed ==
  ASSUME NEW S, NEW t \in Seq(S), NEW u \in Seq(S), t # <<>>
  PROVE  /\ t \o u # <<>> /\ (t \o u)[1] = Head(t)
         /\ Tail(t) \o u = Tail(t \o u)
<1> DEFINE f == t \o u
           g == Tail(t) \o u
<1>1. /\ Len(t) \in Nat /\ Len(t) > 0 /\ Len(u) \in Nat
      /\ Tail(t) \in Seq(S) /\ Len(Tail(t)) = Len(t) - 1 /\ Head(t) = t[1]
      /\ \A n \in 1 .. Len(t) - 1 : Tail(t)[n] = t[n + 1]
  BY Tailed, LenProperties
<1>2. /\ f \in Seq(S) /\ Len(f) = Len(t) + Len(u)
      /\ \A i \in 1 .. Len(t) + Len(u) : f[i] = IF i <= Len(t) THEN t[i] ELSE u[i - Len(t)]
  BY ConcatProperties
<1>3. /\ g \in Seq(S) /\ Len(g) = (Len(t) - 1) + Len(u)
      /\ \A i \in 1 .. (Len(t) - 1) + Len(u) :
           g[i] = IF i <= Len(t) - 1 THEN Tail(t)[i] ELSE u[i - (Len(t) - 1)]
  BY <1>1, ConcatProperties
<1>4. f # <<>> /\ f[1] = t[1]
  <2>1. Len(f) > 0 /\ Len(<<>>) = 0 BY <1>1, <1>2
  <2>2. 1 \in 1 .. Len(t) + Len(u) /\ 1 <= Len(t) BY <1>1
  <2> HIDE DEF f
  <2> QED BY <1>2, <2>1, <2>2
<1> HIDE DEF f, g
<1>5. /\ Tail(f) \in Seq(S) /\ Len(Tail(f)) = Len(f) - 1
      /\ \A n \in 1 .. Len(Tail(f)) : n + 1 \in 1 .. Len(f) /\ Tail(f)[n] = f[n + 1]
  BY <1>2, <1>4, Tailed
<1>6. ASSUME NEW i \in 1 .. Len(g) PROVE g[i] = Tail(f)[i]
  <2>1. i \in 1 .. Len(Tail(f)) /\ i \in 1 .. (Len(t) - 1) + Len(u)
        /\ i + 1 \in 1 .. Len(t) + Len(u)
    BY <1>1, <1>2, <1>3, <1>5
  <2>2. g[i] = IF i <= Len(t) - 1 THEN t[i + 1] ELSE u[i - (Len(t) - 1)]
    BY <1>1, <1>3, <2>1
  <2>3. Tail(f)[i] = IF i + 1 <= Len(t) THEN t[i + 1] ELSE u[(i + 1) - Len(t)]
    BY <1>2, <1>5, <2>1
  <2>4. i - (Len(t) - 1) = (i + 1) - Len(t) /\ (i <= Len(t) - 1 <=> i + 1 <= Len(t))
    BY <1>1
  <2>5. CASE i <= Len(t) - 1 BY <2>2, <2>3, <2>4, <2>5
  <2>6. CASE ~(i <= Len(t) - 1) BY <2>2, <2>3, <2>4, <2>6
  <2> QED BY <2>5, <2>6
<1>7. Len(g) = Len(Tail(f)) BY <1>1, <1>2, <1>3, <1>5
<1>8. g = Tail(f) BY <1>3, <1>5, <1>6, <1>7, SeqEqual
<1> QED BY <1>1, <1>4, <1>8 DEF f, g

LEMMA RowMoved ==
  ASSUME NEW S, NEW t \in Seq(S), NEW u \in Seq(S), u # <<>>
  PROVE  Append(t, Head(u)) \o Tail(u) = t \o u
<1>1. Head(u) \in S /\ Tail(u) \in Seq(S) BY HeadTailProperties
<1>2. <<Head(u)>> \in Seq(S) BY <1>1
<1>3. u = <<Head(u)>> \o Tail(u)
  <2>1. u # <<>> /\ Len(u) \in Nat BY LenProperties
  <2> QED BY <1>1, <2>1
<1>4. Append(t, Head(u)) = t \o <<Head(u)>> BY <1>1, AppendIsConcat
<1>5. (t \o <<Head(u)>>) \o Tail(u) = t \o (<<Head(u)>> \o Tail(u))
  BY <1>1, <1>2, ConcatAssociative
<1> QED BY <1>3, <1>4, <1>5

-----------------------------------------------------------------------------
(* The messages *)

\* What the types are for.
LEMMA Basics ==
  ASSUME NEW s, NEW f, NEW p, NEW c, Types(s, f, p, c)
  PROVE  /\ s.map \in Nat /\ c.map \in Nat /\ s.serverId \in Nat \ {0}
         /\ s.gamestateMessageNum \in Int /\ s.outgoingSequence \in Nat
         /\ s.commands \in Seq([index : Indices, value : Nat]) /\ Len(s.commands) \in Nat
         /\ s.unsent \in Seq(MessageType) /\ Len(s.unsent) \in Nat /\ NextSequence(s) \in Nat
         /\ s.configstrings \in StringsType /\ c.configstrings \in StringsType
         /\ c.serverMessageSequence \in Nat /\ c.serverCommandSequence \in Nat
         /\ c.lastExecuted \in Nat /\ Len(c.commands) \in Nat
         /\ Len(f) \in Nat
         /\ \A i \in 1 .. Len(f) :
              /\ f[i] \in MessageType
              /\ f[i].sequence \in Nat /\ f[i].gamestate \in BOOLEAN /\ f[i].map \in Nat
              /\ f[i].configstrings \in StringsType /\ f[i].reliableSequence \in Nat
<1>1. s \in ServerType /\ c \in ClientType /\ f \in Seq(MessageType) BY DEF Types
<1>2. ASSUME NEW i \in 1 .. Len(f)
      PROVE  /\ f[i] \in MessageType
             /\ f[i].sequence \in Nat /\ f[i].gamestate \in BOOLEAN /\ f[i].map \in Nat
             /\ f[i].configstrings \in StringsType /\ f[i].reliableSequence \in Nat
  <2>1. f[i] \in MessageType BY <1>1, ElementOfSeq
  <2> QED BY <2>1 DEF MessageType
<1>3. /\ s.map \in Nat /\ s.serverId \in Nat \ {0}
      /\ s.gamestateMessageNum \in Int /\ s.outgoingSequence \in Nat
      /\ s.commands \in Seq([index : Indices, value : Nat])
      /\ s.unsent \in Seq(MessageType) /\ s.configstrings \in StringsType
  BY <1>1 DEF ServerType
<1>4. /\ c.map \in Nat /\ c.configstrings \in StringsType
      /\ c.serverMessageSequence \in Nat /\ c.serverCommandSequence \in Nat
      /\ c.lastExecuted \in Nat /\ c.commands \in Seq(ClientCommand)
  BY <1>1 DEF ClientType
<1>5. /\ Len(s.commands) \in Nat /\ Len(s.unsent) \in Nat /\ Len(c.commands) \in Nat
      /\ Len(f) \in Nat
  BY <1>1, <1>3, <1>4, LenProperties
<1>6. NextSequence(s) \in Nat BY <1>3, <1>5 DEF NextSequence
<1> QED BY <1>2, <1>3, <1>4, <1>5, <1>6

\* A message is lost, or read by a client that it does not change.
LEMMA FirstGone ==
  ASSUME NEW s, NEW f, NEW p, NEW c, Inv(s, f, p, c), f # <<>>
  PROVE  Inv(s, Tail(f), p, c)
<1> DEFINE g == Tail(f)
<1>1. /\ Types(s, f, p, c) /\ Numbered(s, f, c) /\ OnTheWay(s, f, c)
      /\ IdsKnown(s, f, p, c) /\ StringsTold(s, f, p, c)
  BY DEF Inv
<1>2. f \in Seq(MessageType) BY <1>1 DEF Types
<1>3. /\ g \in Seq(MessageType) /\ Len(g) = Len(f) - 1 /\ Len(f) \in Nat /\ Len(f) > 0
      /\ \A n \in 1 .. Len(g) : n + 1 \in 1 .. Len(f) /\ g[n] = f[n + 1]
  BY <1>2, Tailed
<1> HIDE DEF g
<1>4. Types(s, g, p, c) BY <1>1, <1>3 DEF Types
<1>5. Numbered(s, g, c)
  <2>1. /\ NextSequence(s) \in Nat /\ c.serverMessageSequence \in Nat
        /\ \A i \in 1 .. Len(f) : f[i].sequence \in Nat
    BY <1>1, Basics
  <2>2. c.serverMessageSequence + Len(g) < NextSequence(s)
    BY <1>1, <1>3, <2>1 DEF Numbered
  <2>3. ASSUME NEW i \in 1 .. Len(g)
        PROVE  /\ g[i].sequence + Len(g) + 1 = NextSequence(s) + i
               /\ c.serverCommandSequence <= g[i].reliableSequence
               /\ g[i].reliableSequence <= Len(s.commands)
               /\ \/ g[i].sequence = s.gamestateMessageNum
                  \/ g[i].sequence >= s.outgoingSequence
                  => g[i].gamestate
    <3>1. i + 1 \in 1 .. Len(f) /\ g[i] = f[i + 1] BY <1>3
    <3>2. /\ f[i + 1].sequence + Len(f) + 1 = NextSequence(s) + (i + 1)
          /\ c.serverCommandSequence <= f[i + 1].reliableSequence
          /\ f[i + 1].reliableSequence <= Len(s.commands)
          /\ \/ f[i + 1].sequence = s.gamestateMessageNum
             \/ f[i + 1].sequence >= s.outgoingSequence
             => f[i + 1].gamestate
      BY <1>1, <3>1 DEF Numbered
    <3>3. ASSUME NEW q \in Nat, q + Len(f) + 1 = NextSequence(s) + (i + 1)
          PROVE  q + Len(g) + 1 = NextSequence(s) + i
      <4>1. /\ Len(g) = Len(f) - 1 /\ Len(f) \in Int /\ NextSequence(s) \in Int
            /\ i \in Int
        BY <1>3, <2>1
      <4> QED BY <3>3, <4>1
    <3>4. g[i].sequence + Len(g) + 1 = NextSequence(s) + i
      BY <2>1, <3>1, <3>2, <3>3
    <3> QED BY <3>1, <3>2, <3>4
  <2>4. ASSUME NEW i \in 1 .. Len(g), NEW j \in i .. Len(g)
        PROVE  g[i].reliableSequence <= g[j].reliableSequence
    <3>1. /\ i + 1 \in 1 .. Len(f) /\ g[i] = f[i + 1]
          /\ j + 1 \in i + 1 .. Len(f) /\ g[j] = f[j + 1]
      BY <1>3
    <3> QED BY <1>1, <3>1 DEF Numbered
  <2> QED BY <1>1, <2>2, <2>3, <2>4 DEF Numbered
<1>6. OnTheWay(s, g, c)
  <2>1. ASSUME NEW i \in 1 .. Len(g), g[i].gamestate
        PROVE  /\ c.map <= g[i].map /\ g[i].map <= s.map
               /\ s.gamestateAck = GSA_INIT => g[i].map < s.map
    <3>1. i + 1 \in 1 .. Len(f) /\ g[i] = f[i + 1] BY <1>3
    <3> QED BY <1>1, <2>1, <3>1 DEF OnTheWay
  <2>2. ASSUME NEW i \in 1 .. Len(g), g[i].gamestate, NEW j \in i .. Len(g), g[j].gamestate
        PROVE  g[i].map <= g[j].map
    <3>1. /\ i + 1 \in 1 .. Len(f) /\ g[i] = f[i + 1]
          /\ j + 1 \in i + 1 .. Len(f) /\ g[j] = f[j + 1]
      BY <1>3
    <3> QED BY <1>1, <2>2, <3>1 DEF OnTheWay
  <2> QED BY <1>1, <2>1, <2>2 DEF OnTheWay
<1>7. IdsKnown(s, g, p, c)
  <2>1. ASSUME NEW i \in 1 .. Len(g), g[i].gamestate
        PROVE  Knows(s, g[i].configstrings[CS_SYSTEMINFO], g[i].map)
    <3>1. i + 1 \in 1 .. Len(f) /\ g[i] = f[i + 1] BY <1>3
    <3> QED BY <1>1, <2>1, <3>1 DEF IdsKnown
  <2> QED BY <1>1, <2>1 DEF IdsKnown
<1>8. StringsTold(s, g, p, c)
  <2>1. ASSUME NEW i \in 1 .. Len(g),
               g[i].gamestate, g[i].map = s.map, Counts(s, g[i].sequence)
        PROVE  Agrees(s, g[i].configstrings, g[i].reliableSequence, {})
    <3>1. i + 1 \in 1 .. Len(f) /\ g[i] = f[i + 1] BY <1>3
    <3> QED BY <1>1, <2>1, <3>1 DEF StringsTold
  <2> QED BY <1>1, <2>1 DEF StringsTold
<1> QED BY <1>4, <1>5, <1>6, <1>7, <1>8 DEF Inv, g

\* A message is sent, or queued.
LEMMA NumberedNext ==
  ASSUME NEW s, NEW f, NEW p, NEW c, Types(s, f, p, c), Numbered(s, f, c),
         NEW t, NEW m \in MessageType,
         t.commands = s.commands,
         NextSequence(t) = NextSequence(s) + 1,
         t.gamestateMessageNum \in Int, t.outgoingSequence \in Nat,
         t.gamestateMessageNum < NextSequence(t),
         m.sequence = NextSequence(s), m.reliableSequence = Len(s.commands),
         \/ m.sequence = t.gamestateMessageNum \/ m.sequence >= t.outgoingSequence
           => m.gamestate,
         \A i \in 1 .. Len(f) :
           \/ f[i].sequence = t.gamestateMessageNum
           \/ f[i].sequence >= t.outgoingSequence
           => f[i].gamestate
  PROVE  Numbered(t, Append(f, m), c)
<1> DEFINE g == Append(f, m)
<1>1. /\ NextSequence(s) \in Nat /\ c.serverMessageSequence \in Nat
      /\ \A i \in 1 .. Len(f) : f[i].sequence \in Nat /\ f[i].reliableSequence \in Nat
      /\ Len(s.commands) \in Nat /\ Len(f) \in Nat /\ c.serverCommandSequence \in Nat
  BY Basics
<1>2. /\ f \in Seq(MessageType) /\ Len(g) = Len(f) + 1
      /\ \A n \in 1 .. Len(f) : g[n] = f[n]
      /\ g[Len(f) + 1] = m
  <2>1. f \in Seq(MessageType) BY DEF Types
  <2> QED BY <2>1, Appended
<1> HIDE DEF g
<1>3. c.serverMessageSequence + Len(g) < NextSequence(t)
  <2>1. c.serverMessageSequence + Len(f) < NextSequence(s) BY DEF Numbered
  <2> QED BY <1>1, <1>2, <2>1
<1>4. ASSUME NEW i \in 1 .. Len(g)
      PROVE  /\ g[i].sequence + Len(g) + 1 = NextSequence(t) + i
             /\ c.serverCommandSequence <= g[i].reliableSequence
             /\ g[i].reliableSequence <= Len(t.commands)
             /\ \/ g[i].sequence = t.gamestateMessageNum
                \/ g[i].sequence >= t.outgoingSequence
                => g[i].gamestate
  <2>1. CASE i = Len(f) + 1
    <3>1. g[i] = m BY <1>2, <2>1
    <3>2. c.serverCommandSequence <= Len(s.commands) BY DEF Numbered
    <3> QED BY <1>1, <1>2, <2>1, <3>1, <3>2
  <2>2. CASE i # Len(f) + 1
    <3>1. i \in 1 .. Len(f) /\ g[i] = f[i] /\ i \in Int BY <1>1, <1>2, <2>2
    <3>2. /\ f[i].sequence + Len(f) + 1 = NextSequence(s) + i
          /\ c.serverCommandSequence <= f[i].reliableSequence
          /\ f[i].reliableSequence <= Len(s.commands)
      BY <3>1 DEF Numbered
    <3>3. ASSUME NEW q \in Int, NEW l \in Int, NEW n \in Int, NEW k \in Int,
                 q + l + 1 = n + k
          PROVE  q + (l + 1) + 1 = (n + 1) + k
      BY <3>3
    <3>4. f[i].sequence + (Len(f) + 1) + 1 = (NextSequence(s) + 1) + i
      BY <1>1, <3>1, <3>2, <3>3
    <3> QED BY <1>2, <3>1, <3>2, <3>4
  <2> QED BY <2>1, <2>2
<1>5. ASSUME NEW i \in 1 .. Len(g), NEW j \in i .. Len(g)
      PROVE  g[i].reliableSequence <= g[j].reliableSequence
  <2>1. CASE j = Len(f) + 1
    <3>1. g[j].reliableSequence = Len(s.commands) BY <1>2, <2>1
    <3> QED BY <1>4, <3>1
  <2>2. CASE j # Len(f) + 1
    <3>1. i \in 1 .. Len(f) /\ j \in i .. Len(f) /\ j \in 1 .. Len(f)
      BY <1>1, <1>2, <2>2
    <3>2. g[i] = f[i] /\ g[j] = f[j] BY <1>2, <3>1
    <3> QED BY <3>1, <3>2 DEF Numbered
  <2> QED BY <2>1, <2>2
<1>6. c.lastExecuted <= c.serverCommandSequence /\ c.serverCommandSequence <= Len(t.commands)
  BY DEF Numbered
<1> QED BY <1>3, <1>4, <1>5, <1>6 DEF Numbered, g

\* A snapshot, or the last fragment of a message.
LEMMA SnapshotSent ==
  ASSUME NEW s, NEW f, NEW p, NEW c, Inv(s, f, p, c), s.unsent = <<>>,
         NEW m \in MessageType, m.sequence = s.outgoingSequence, ~m.gamestate,
         m.reliableSequence = Len(s.commands)
  PROVE  Inv([s EXCEPT !.outgoingSequence = @ + 1], Append(f, m), p, c)
<1> DEFINE t == [s EXCEPT !.outgoingSequence = @ + 1]
           g == Append(f, m)
<1>1. /\ Types(s, f, p, c) /\ Numbered(s, f, c) /\ OnTheWay(s, f, c)
      /\ IdsKnown(s, f, p, c) /\ StringsTold(s, f, p, c)
  BY DEF Inv
<1>2. s \in ServerType /\ f \in Seq(MessageType) /\ s.outgoingSequence \in Nat
      /\ s.gamestateMessageNum \in -1 .. s.outgoingSequence
  BY <1>1 DEF Types, ServerType
<1>3. t \in ServerType
  <2>1. s.outgoingSequence + 1 \in Nat BY <1>2
  <2> QED BY <1>2, <2>1 DEF ServerType
<1>4. /\ t \in ServerType /\ t.map = s.map /\ t.serverId = s.serverId
      /\ t.gamestateMessageNum = s.gamestateMessageNum
      /\ t.commands = s.commands /\ t.configstrings = s.configstrings
      /\ t.csUpdated = s.csUpdated /\ t.unconfirmed = s.unconfirmed
      /\ t.state = s.state /\ t.gamestateAck = s.gamestateAck
      /\ t.reliableAcknowledge = s.reliableAcknowledge
      /\ t.lastClientCommand = s.lastClientCommand
      /\ t.unsent = s.unsent /\ t.outgoingSequence = s.outgoingSequence + 1
  BY <1>2, <1>3 DEF ServerType
<1>5. /\ g \in Seq(MessageType) /\ Len(g) = Len(f) + 1 /\ Len(f) \in Nat
      /\ \A n \in 1 .. Len(f) : g[n] = f[n]
      /\ g[Len(f) + 1] = m
  BY <1>2, Appended
<1> HIDE DEF t, g
<1>6. \A i \in 1 .. Len(g) : g[i].gamestate => i \in 1 .. Len(f) /\ g[i] = f[i]
  BY <1>5
<1>7. Types(t, g, p, c) BY <1>1, <1>2, <1>4, <1>5 DEF Types
<1>8. Numbered(t, g, c)
  <2>1. NextSequence(s) = s.outgoingSequence /\ NextSequence(t) = s.outgoingSequence + 1
    BY <1>2, <1>4 DEF NextSequence
  <2>2. s.gamestateMessageNum < NextSequence(s)
        /\ \A i \in 1 .. Len(f) :
             \/ f[i].sequence = s.gamestateMessageNum
             \/ f[i].sequence >= s.outgoingSequence
             => f[i].gamestate
    BY <1>1 DEF Numbered
  <2>3. \A i \in 1 .. Len(f) : f[i].sequence \in Nat BY <1>1, Basics
  <2>4. \A i \in 1 .. Len(f) :
           \/ f[i].sequence = t.gamestateMessageNum
           \/ f[i].sequence >= t.outgoingSequence
           => f[i].gamestate
    BY <1>2, <1>4, <2>2, <2>3
  <2>5. t.gamestateMessageNum \in Int /\ t.outgoingSequence \in Nat
        /\ t.gamestateMessageNum < NextSequence(t)
        /\ m.sequence # t.gamestateMessageNum /\ ~(m.sequence >= t.outgoingSequence)
    BY <1>2, <1>4, <2>1, <2>2
  <2> QED BY <1>1, <1>4, <2>1, <2>4, <2>5, NumberedNext DEF g
<1>9. OnTheWay(t, g, c)
  <2>1. ASSUME NEW i \in 1 .. Len(g), g[i].gamestate
        PROVE  /\ c.map <= g[i].map /\ g[i].map <= s.map
               /\ s.gamestateAck = GSA_INIT => g[i].map < s.map
    BY <1>1, <1>6, <2>1 DEF OnTheWay
  <2>2. ASSUME NEW i \in 1 .. Len(g), g[i].gamestate, NEW j \in i .. Len(g), g[j].gamestate
        PROVE  g[i].map <= g[j].map
    <3>1. j \in 1 .. Len(g) BY <1>5
    <3>2. i \in 1 .. Len(f) /\ g[i] = f[i] /\ j \in i .. Len(f) /\ g[j] = f[j]
      BY <1>5, <1>6, <2>2, <3>1
    <3> QED BY <1>1, <2>2, <3>2 DEF OnTheWay
  <2> QED BY <1>1, <1>4, <2>1, <2>2 DEF OnTheWay
<1>10. IdsKnown(t, g, p, c)
  <2>1. ASSUME NEW i \in 1 .. Len(g), g[i].gamestate
        PROVE  Knows(t, g[i].configstrings[CS_SYSTEMINFO], g[i].map)
    BY <1>1, <1>4, <1>6, <2>1 DEF IdsKnown, Knows
  <2> QED BY <1>1, <1>4, <2>1 DEF IdsKnown, Knows
<1>11. StringsTold(t, g, p, c)
  <2>1. ASSUME NEW i \in 1 .. Len(g),
               g[i].gamestate, g[i].map = s.map, Counts(s, g[i].sequence)
        PROVE  Agrees(s, g[i].configstrings, g[i].reliableSequence, {})
    BY <1>1, <1>6, <2>1 DEF StringsTold
  <2>2. \A strings, n, others : Agrees(t, strings, n, others) <=> Agrees(s, strings, n, others)
    BY <1>4 DEF Agrees, Reaches
  <2>3. /\ \A n : Counts(t, n) <=> Counts(s, n)
        /\ MayAcknowledge(t, p, c) <=> MayAcknowledge(s, p, c)
    BY <1>4 DEF Counts, MayAcknowledge
  <2> QED BY <1>1, <1>4, <2>1, <2>2, <2>3 DEF StringsTold
<1> QED BY <1>7, <1>8, <1>9, <1>10, <1>11 DEF Inv, t, g

-----------------------------------------------------------------------------
(* The server *)

\* What the server reads, sends or gives up does not change what it has told,
\* as long as no gamestate is acknowledged.
LEMMA ServerMoves ==
  ASSUME NEW s, NEW f, NEW p, NEW c, Inv(s, f, p, c),
         NEW t \in ServerType,
         t.map = s.map, t.serverId = s.serverId, t.configstrings = s.configstrings,
         t.commands = s.commands, t.csUpdated = s.csUpdated, t.unconfirmed = s.unconfirmed,
         t.gamestateMessageNum = s.gamestateMessageNum,
         NextSequence(t) = NextSequence(s), s.outgoingSequence <= t.outgoingSequence,
         t.reliableAcknowledge <= Len(s.commands),
         t.lastClientCommand <= Len(c.commands),
         \/ t.gamestateAck = s.gamestateAck
         \/ s.gamestateAck = GSA_ACKED /\ t.gamestateAck = GSA_SENT_ONCE,
         t.state = CS_ACTIVE => s.state = CS_ACTIVE /\ t.gamestateAck = s.gamestateAck
  PROVE  Inv(t, f, p, c)
<1>1. /\ Types(s, f, p, c) /\ Numbered(s, f, c) /\ OnTheWay(s, f, c)
      /\ IdsKnown(s, f, p, c) /\ StringsTold(s, f, p, c)
  BY DEF Inv
<1>2. /\ s.outgoingSequence \in Nat /\ t.outgoingSequence \in Nat
      /\ s.gamestateMessageNum \in -1 .. s.outgoingSequence
      /\ \A i \in 1 .. Len(f) : f[i].sequence \in Nat
  BY <1>1, Basics DEF Types, ServerType
<1>3. /\ t.gamestateAck = GSA_INIT <=> s.gamestateAck = GSA_INIT
      /\ t.gamestateAck = GSA_SENT_MANY <=> s.gamestateAck = GSA_SENT_MANY
      /\ t.gamestateAck = GSA_ACKED => s.gamestateAck = GSA_ACKED
  BY DEF GSA_INIT, GSA_SENT_ONCE, GSA_SENT_MANY, GSA_ACKED
<1>4. Types(t, f, p, c)
  <2>1. t.gamestateMessageNum \in -1 .. t.outgoingSequence BY <1>2
  <2> QED BY <1>1, <2>1 DEF Types
<1>5. Numbered(t, f, c)
  <2>1. \A i \in 1 .. Len(f) :
          f[i].sequence >= t.outgoingSequence => f[i].sequence >= s.outgoingSequence
    BY <1>2
  <2> QED BY <1>1, <2>1 DEF Numbered
<1>6. OnTheWay(t, f, c) BY <1>1, <1>3 DEF OnTheWay
<1>7. IdsKnown(t, f, p, c) BY <1>1 DEF IdsKnown, Knows
<1>8. StringsTold(t, f, p, c)
  <2>1. \A strings, n, others : Agrees(t, strings, n, others) <=> Agrees(s, strings, n, others)
    BY DEF Agrees, Reaches
  <2>2. /\ \A n : Counts(t, n) <=> Counts(s, n)
        /\ MayAcknowledge(t, p, c) <=> MayAcknowledge(s, p, c)
    BY <1>3 DEF Counts, MayAcknowledge
  <2> QED BY <1>1, <2>1, <2>2 DEF StringsTold
<1> QED BY <1>4, <1>5, <1>6, <1>7, <1>8 DEF Inv

\* The gamestate that is acknowledged is one the client may play with.
LEMMA Acknowledged ==
  ASSUME NEW s, NEW f, NEW p, NEW c, Inv(s, f, p, c), NEW m \in p
  PROVE  Inv(SV_AcknowledgeGamestate(s, m), f, p, c)
<1> DEFINE t == [s EXCEPT !.gamestateAck = GSA_ACKED]
<1>1. /\ Types(s, f, p, c) /\ Numbered(s, f, c) /\ OnTheWay(s, f, c)
      /\ IdsKnown(s, f, p, c) /\ StringsTold(s, f, p, c)
  BY DEF Inv
<1>2. SUFFICES ASSUME m.serverId = s.serverId,
                      \/ m.messageAcknowledge - s.gamestateMessageNum = 0
                      \/ s.gamestateAck = GSA_SENT_ONCE
               PROVE  Inv(t, f, p, c)
  BY DEF SV_AcknowledgeGamestate
<1>3. /\ s \in ServerType /\ m.messageAcknowledge \in Nat
      /\ m.messageAcknowledge <= c.serverMessageSequence
      /\ s.gamestateMessageNum \in Int
  BY <1>1 DEF Types, ServerType, PacketType
<1>4. t \in ServerType
  <2>1. GSA_ACKED \in Acks BY DEF Acks
  <2> QED BY <1>3, <2>1 DEF ServerType
<1>5. /\ t.map = s.map /\ t.serverId = s.serverId
      /\ t.gamestateMessageNum = s.gamestateMessageNum
      /\ t.commands = s.commands /\ t.configstrings = s.configstrings
      /\ t.csUpdated = s.csUpdated /\ t.unconfirmed = s.unconfirmed
      /\ t.state = s.state /\ t.gamestateAck = GSA_ACKED
      /\ t.reliableAcknowledge = s.reliableAcknowledge
      /\ t.lastClientCommand = s.lastClientCommand
      /\ t.unsent = s.unsent /\ t.outgoingSequence = s.outgoingSequence
  BY <1>3 DEF ServerType
<1> HIDE DEF t
<1>6. NextSequence(t) = NextSequence(s) BY <1>5 DEF NextSequence
<1>7. c.map = s.map BY <1>1, <1>2 DEF IdsKnown, Knows
<1>8. s.gamestateAck = GSA_SENT_MANY => m.messageAcknowledge = s.gamestateMessageNum
  BY <1>2, <1>3 DEF GSA_SENT_ONCE, GSA_SENT_MANY
<1>9. MayAcknowledge(s, p, c) BY <1>2, <1>8 DEF MayAcknowledge
<1>10. \A i \in 1 .. Len(f) : Counts(s, f[i].sequence)
  <2>1. ASSUME NEW i \in 1 .. Len(f), s.gamestateAck = GSA_SENT_MANY
        PROVE  f[i].sequence >= s.gamestateMessageNum
    <3>1. /\ f[i].sequence + Len(f) + 1 = NextSequence(s) + i
          /\ c.serverMessageSequence + Len(f) < NextSequence(s)
      BY <1>1 DEF Numbered
    <3>2. /\ f[i].sequence \in Nat /\ NextSequence(s) \in Nat /\ Len(f) \in Nat
          /\ c.serverMessageSequence \in Nat
      BY <1>1, Basics
    <3>3. ASSUME NEW q \in Nat, NEW n \in Nat, NEW l \in Nat, NEW r \in Nat, NEW a \in Nat,
                 NEW k \in Int, k >= 1, q + l + 1 = n + k, r + l < n, a <= r
          PROVE  q >= a
      BY <3>3
    <3>4. f[i].sequence >= m.messageAcknowledge BY <1>3, <3>1, <3>2, <3>3
    <3> QED BY <1>8, <2>1, <3>4
  <2> QED BY <2>1 DEF Counts
<1>11. Types(t, f, p, c) BY <1>1, <1>4, <1>5 DEF Types
<1>12. Numbered(t, f, c) BY <1>1, <1>5, <1>6 DEF Numbered
<1>13. OnTheWay(t, f, c)
  <2>1. GSA_ACKED # GSA_INIT BY DEF GSA_ACKED, GSA_INIT
  <2> QED BY <1>1, <1>5, <1>7, <2>1 DEF OnTheWay
<1>14. IdsKnown(t, f, p, c) BY <1>1, <1>5 DEF IdsKnown, Knows
<1>15. StringsTold(t, f, p, c)
  <2>1. \A strings, n, others : Agrees(t, strings, n, others) <=> Agrees(s, strings, n, others)
    BY <1>5 DEF Agrees, Reaches
  <2> QED BY <1>1, <1>5, <1>9, <1>10, <2>1 DEF StringsTold
<1> QED BY <1>11, <1>12, <1>13, <1>14, <1>15 DEF Inv, t

\* What SendGamestate does.  The updates it drops are in the new gamestate; they
\* are unconfirmed if that is numbered as another one.
LEMMA SendGamestateIs ==
  ASSUME NEW s \in ServerType
  PROVE  LET r == SendGamestate(s)
             m == [ sequence |-> NextSequence(s), gamestate |-> TRUE, map |-> s.map,
                    configstrings |-> s.configstrings,
                    reliableSequence |-> Len(s.commands) ]
         IN  /\ r \in ServerType /\ m \in MessageType
             /\ r.map = s.map /\ r.serverId = s.serverId /\ r.configstrings = s.configstrings
             /\ r.commands = s.commands /\ r.outgoingSequence = s.outgoingSequence
             /\ r.reliableAcknowledge = s.reliableAcknowledge
             /\ r.lastClientCommand = s.lastClientCommand
             /\ r.gamestateMessageNum = s.outgoingSequence
             /\ r.unsent = Append(s.unsent, m)
             /\ r.state = CS_PRIMED
             /\ r.gamestateAck \in {GSA_SENT_ONCE, GSA_SENT_MANY}
             /\ s.gamestateAck = GSA_SENT_MANY => r.gamestateAck = GSA_SENT_MANY
             /\ s.csUpdated \cup s.unconfirmed = r.csUpdated \cup r.unconfirmed
                \/ (r.gamestateAck = GSA_SENT_MANY /\ s.unsent = <<>>)
<1> DEFINE r == SendGamestate(s)
           m == [ sequence |-> NextSequence(s), gamestate |-> TRUE, map |-> s.map,
                  configstrings |-> s.configstrings,
                  reliableSequence |-> Len(s.commands) ]
           resent == s.gamestateAck # GSA_INIT
           many == /\ resent /\ s.csUpdated # {}
                   /\ (Len(s.commands) - s.reliableAcknowledge) + Cardinality(s.csUpdated)
                        >= MAX_RELIABLE_COMMANDS - 1
           cleared == IF many THEN s.csUpdated ELSE {}
           ack == IF ~resent \/ (s.gamestateAck # GSA_SENT_MANY /\ ~many)
                  THEN GSA_SENT_ONCE ELSE GSA_SENT_MANY
           unconfirmed == IF s.unsent = <<>> THEN s.unconfirmed ELSE s.unconfirmed \cup cleared
<1>1. /\ s.serverId \in Nat \ {0} /\ s.map \in Nat /\ s.configstrings \in StringsType
      /\ s.commands \in Seq([index : Indices, value : Nat]) /\ s.outgoingSequence \in Nat
      /\ s.unsent \in Seq(MessageType) /\ s.csUpdated \subseteq Indices
      /\ s.unconfirmed \subseteq Indices
  BY DEF ServerType
<1>2. Len(s.commands) \in Nat /\ Len(s.unsent) \in Nat BY <1>1, LenProperties
<1>3. NextSequence(s) \in Nat BY <1>1, <1>2 DEF NextSequence
<1>4. m \in MessageType BY <1>1, <1>2, <1>3 DEF MessageType
<1> HIDE DEF m, many
<1>5. Append(s.unsent, m) \in Seq(MessageType) BY <1>1, <1>4, Appended
<1>6. cleared \subseteq s.csUpdated /\ (~many => cleared = {}) BY DEF cleared
<1>7. /\ many => resent
      /\ ack \in Acks /\ ack \in {GSA_SENT_ONCE, GSA_SENT_MANY}
      /\ s.gamestateAck = GSA_SENT_MANY => ack = GSA_SENT_MANY
      /\ many => ack = GSA_SENT_MANY
  BY DEF Acks, GSA_INIT, GSA_SENT_ONCE, GSA_SENT_MANY, many
<1>8. /\ unconfirmed \subseteq Indices
      /\ s.unsent = <<>> => unconfirmed = s.unconfirmed
      /\ s.unsent # <<>> => unconfirmed = s.unconfirmed \cup cleared
  BY <1>1, <1>6
<1> HIDE DEF cleared, ack, unconfirmed
<1>9. r = [s EXCEPT !.state = CS_PRIMED, !.downloading = FALSE,
                    !.gamestateMessageNum = s.outgoingSequence,
                    !.csUpdated = s.csUpdated \ cleared,
                    !.gamestateAck = ack,
                    !.unsent = Append(s.unsent, m),
                    !.unconfirmed = unconfirmed]
  BY DEF SendGamestate, m, many, cleared, ack, unconfirmed
<1> HIDE DEF r
<1>10. CS_PRIMED \in States /\ s.csUpdated \ cleared \subseteq Indices BY <1>1 DEF States
<1>11. r \in ServerType
  <2>1. s.outgoingSequence \in Int BY <1>1
  <2> QED BY <1>5, <1>7, <1>8, <1>9, <1>10, <2>1 DEF ServerType
<1>12. /\ r.map = s.map /\ r.serverId = s.serverId /\ r.configstrings = s.configstrings
       /\ r.commands = s.commands /\ r.outgoingSequence = s.outgoingSequence
       /\ r.reliableAcknowledge = s.reliableAcknowledge
       /\ r.lastClientCommand = s.lastClientCommand
       /\ r.gamestateMessageNum = s.outgoingSequence
       /\ r.unsent = Append(s.unsent, m) /\ r.state = CS_PRIMED /\ r.gamestateAck = ack
       /\ r.csUpdated = s.csUpdated \ cleared /\ r.unconfirmed = unconfirmed
  BY <1>9 DEF ServerType
<1>13. s.csUpdated \cup s.unconfirmed = r.csUpdated \cup r.unconfirmed
       \/ (ack = GSA_SENT_MANY /\ s.unsent = <<>>)
  <2>1. CASE ~many BY <1>6, <1>8, <1>12, <2>1
  <2>2. CASE many /\ s.unsent # <<>> BY <1>6, <1>8, <1>12, <2>2
  <2>3. CASE many /\ s.unsent = <<>> BY <1>7, <2>3
  <2> QED BY <2>1, <2>2, <2>3
<1> QED BY <1>4, <1>7, <1>11, <1>12, <1>13 DEF r, m

\* A gamestate is sent.  No client can have acknowledged it yet.
LEMMA GamestateSent ==
  ASSUME NEW s, NEW t \in Seq(MessageType), NEW p, NEW c, Inv(s, t \o s.unsent, p, c)
  PROVE  Inv(SendGamestate(s), t \o SendGamestate(s).unsent, p, c)
<1> DEFINE f == t \o s.unsent
           r == SendGamestate(s)
           m == [ sequence |-> NextSequence(s), gamestate |-> TRUE, map |-> s.map,
                  configstrings |-> s.configstrings,
                  reliableSequence |-> Len(s.commands) ]
           g == Append(f, m)
<1>1. /\ Types(s, f, p, c) /\ Numbered(s, f, c) /\ OnTheWay(s, f, c)
      /\ IdsKnown(s, f, p, c) /\ StringsTold(s, f, p, c)
  BY DEF Inv
<1>2. s \in ServerType /\ f \in Seq(MessageType) BY <1>1 DEF Types
<1>3. /\ r \in ServerType /\ m \in MessageType
      /\ r.map = s.map /\ r.serverId = s.serverId /\ r.configstrings = s.configstrings
      /\ r.commands = s.commands /\ r.outgoingSequence = s.outgoingSequence
      /\ r.reliableAcknowledge = s.reliableAcknowledge
      /\ r.lastClientCommand = s.lastClientCommand
      /\ r.gamestateMessageNum = s.outgoingSequence
      /\ r.unsent = Append(s.unsent, m)
      /\ r.state = CS_PRIMED
      /\ r.gamestateAck \in {GSA_SENT_ONCE, GSA_SENT_MANY}
      /\ s.gamestateAck = GSA_SENT_MANY => r.gamestateAck = GSA_SENT_MANY
      /\ s.csUpdated \cup s.unconfirmed = r.csUpdated \cup r.unconfirmed
         \/ (r.gamestateAck = GSA_SENT_MANY /\ s.unsent = <<>>)
  BY <1>2, SendGamestateIs
<1>4. /\ m.sequence = NextSequence(s) /\ m.gamestate /\ m.map = s.map
      /\ m.configstrings = s.configstrings /\ m.reliableSequence = Len(s.commands)
  OBVIOUS
<1>5. /\ s.unsent \in Seq(MessageType) /\ Len(s.unsent) \in Nat /\ Len(t) \in Nat
      /\ Len(f) = Len(t) + Len(s.unsent)
      /\ s.unsent = <<>> => Len(s.unsent) = 0
  BY <1>2, ConcatProperties, LenProperties, EmptySeq DEF ServerType
<1>6. t \o r.unsent = g BY <1>3, <1>5, RowAppended
<1> HIDE DEF r, m, f
<1>7. /\ g \in Seq(MessageType) /\ Len(g) = Len(f) + 1 /\ Len(f) \in Nat
      /\ \A n \in 1 .. Len(f) : g[n] = f[n]
      /\ g[Len(f) + 1] = m
  BY <1>2, <1>3, Appended
<1> HIDE DEF g
<1>8. /\ s.outgoingSequence \in Nat /\ s.gamestateMessageNum \in Int
      /\ s.gamestateMessageNum <= s.outgoingSequence
      /\ c.serverMessageSequence \in Nat /\ NextSequence(s) \in Nat
      /\ \A i \in 1 .. Len(f) : f[i].sequence \in Nat
      /\ s.map \in Nat /\ c.map \in Nat /\ Len(s.commands) \in Nat
  <2>1. /\ s.outgoingSequence \in Nat /\ s.gamestateMessageNum \in Int
        /\ c.serverMessageSequence \in Nat /\ NextSequence(s) \in Nat
        /\ \A i \in 1 .. Len(f) : f[i].sequence \in Nat
        /\ s.map \in Nat /\ c.map \in Nat /\ Len(s.commands) \in Nat
    BY <1>1, Basics
  <2>2. s.gamestateMessageNum \in -1 .. s.outgoingSequence BY <1>1 DEF Types
  <2> QED BY <2>1, <2>2
<1>9. NextSequence(s) = s.outgoingSequence + Len(s.unsent)
      /\ NextSequence(r) = NextSequence(s) + 1
  <2>1. Len(r.unsent) = Len(s.unsent) + 1 BY <1>3, <1>5, Appended
  <2> QED BY <1>3, <1>5, <1>8, <2>1 DEF NextSequence
<1>10. c.serverMessageSequence < s.outgoingSequence
  <2>1. c.serverMessageSequence + Len(f) < NextSequence(s) BY <1>1 DEF Numbered
  <2> QED BY <1>5, <1>8, <1>9, <2>1
<1>11. ASSUME NEW i \in 1 .. Len(f), f[i].sequence >= s.outgoingSequence
       PROVE  s.unsent # <<>>
  <2>1. f[i].sequence + Len(f) + 1 = NextSequence(s) + i /\ i <= Len(f)
    BY <1>1, <1>7 DEF Numbered
  <2>2. ASSUME NEW q \in Nat, NEW l \in Nat, NEW n \in Nat, NEW k \in Int,
               q + l + 1 = n + k, k <= l
        PROVE  q < n
    BY <2>2
  <2>3. f[i].sequence < NextSequence(s) BY <1>7, <1>8, <2>1, <2>2
  <2> QED BY <1>5, <1>8, <1>9, <1>11, <2>3
<1>12. /\ r.gamestateAck # GSA_INIT /\ r.gamestateAck # GSA_ACKED /\ r.state # CS_ACTIVE
  BY <1>3 DEF GSA_INIT, GSA_ACKED, GSA_SENT_ONCE, GSA_SENT_MANY, CS_PRIMED, CS_ACTIVE
<1>13. ASSUME s.csUpdated \cup s.unconfirmed = r.csUpdated \cup r.unconfirmed,
              NEW strings, NEW n, NEW others, Agrees(s, strings, n, others)
       PROVE  Agrees(r, strings, n, others)
  <2>1. ASSUME NEW i PROVE Reaches(r, strings, n, i) <=> Reaches(s, strings, n, i)
    BY <1>3 DEF Reaches
  <2>2. s.csUpdated \cup s.unconfirmed \cup others = r.csUpdated \cup r.unconfirmed \cup others
    BY <1>13
  <2> QED BY <1>13, <2>1, <2>2 DEF Agrees
<1>14. Types(r, g, p, c)
  <2>1. r.gamestateMessageNum \in -1 .. r.outgoingSequence BY <1>3, <1>8
  <2> QED BY <1>1, <1>3, <1>7, <2>1 DEF Types
<1>15. Numbered(r, g, c)
  <2>1. \A i \in 1 .. Len(f) :
          f[i].sequence = r.gamestateMessageNum \/ f[i].sequence >= r.outgoingSequence
          => f[i].gamestate
    BY <1>1, <1>3, <1>8 DEF Numbered
  <2>2. r.gamestateMessageNum \in Int /\ r.outgoingSequence \in Nat
        /\ r.gamestateMessageNum < NextSequence(r)
    BY <1>3, <1>5, <1>8, <1>9
  <2> QED BY <1>1, <1>3, <1>4, <1>9, <2>1, <2>2, NumberedNext DEF g
<1>16. OnTheWay(r, g, c)
  <2>1. ASSUME NEW i \in 1 .. Len(g), g[i].gamestate
        PROVE  c.map <= g[i].map /\ g[i].map <= s.map
    <3>1. CASE i = Len(f) + 1
      <4>1. c.map <= s.map BY <1>1 DEF OnTheWay
      <4> QED BY <1>4, <1>7, <1>8, <3>1, <4>1
    <3>2. CASE i # Len(f) + 1
      <4>1. i \in 1 .. Len(f) /\ g[i] = f[i] BY <1>7, <3>2
      <4> QED BY <1>1, <2>1, <4>1 DEF OnTheWay
    <3> QED BY <3>1, <3>2
  <2>2. ASSUME NEW i \in 1 .. Len(g), g[i].gamestate, NEW j \in i .. Len(g), g[j].gamestate
        PROVE  g[i].map <= g[j].map
    <3>1. CASE j = Len(f) + 1 BY <1>4, <1>7, <2>1, <2>2, <3>1
    <3>2. CASE j # Len(f) + 1
      <4>1. i \in 1 .. Len(f) /\ j \in i .. Len(f) /\ j \in 1 .. Len(f) BY <1>7, <3>2
      <4>2. g[i] = f[i] /\ g[j] = f[j] BY <1>7, <4>1
      <4> QED BY <1>1, <2>2, <4>1, <4>2 DEF OnTheWay
    <3> QED BY <3>1, <3>2
  <2>3. c.map <= r.map BY <1>1, <1>3 DEF OnTheWay
  <2> QED BY <1>3, <1>12, <2>1, <2>2, <2>3 DEF OnTheWay
<1>17. IdsKnown(r, g, p, c)
  <2>1. ASSUME NEW i \in 1 .. Len(g), g[i].gamestate
        PROVE  Knows(r, g[i].configstrings[CS_SYSTEMINFO], g[i].map)
    <3>1. CASE i = Len(f) + 1 BY <1>1, <1>3, <1>4, <1>7, <3>1 DEF IdsKnown, Knows
    <3>2. CASE i # Len(f) + 1
      <4>1. i \in 1 .. Len(f) /\ g[i] = f[i] BY <1>7, <3>2
      <4> QED BY <1>1, <1>3, <2>1, <4>1 DEF IdsKnown, Knows
    <3> QED BY <3>1, <3>2
  <2> QED BY <1>1, <1>3, <2>1 DEF IdsKnown, Knows
<1>18. StringsTold(r, g, p, c)
  <2>1. ASSUME NEW i \in 1 .. Len(g),
               g[i].gamestate, g[i].map = r.map, Counts(r, g[i].sequence)
        PROVE  Agrees(r, g[i].configstrings, g[i].reliableSequence, {})
    <3>1. CASE i = Len(f) + 1
      <4>1. g[i].configstrings = r.configstrings /\ g[i].reliableSequence = Len(r.commands)
        BY <1>3, <1>4, <1>7, <3>1
      <4>2. Len(r.commands) + 1 .. Len(r.commands) = {} BY <1>3, <1>8
      <4> QED BY <4>1, <4>2 DEF Agrees, Reaches
    <3>2. CASE i # Len(f) + 1
      <4>1. i \in 1 .. Len(f) /\ g[i] = f[i] BY <1>7, <3>2
      <4>2. r.gamestateAck = GSA_SENT_MANY => f[i].sequence >= s.outgoingSequence
        BY <1>3, <2>1, <4>1 DEF Counts
      <4>3. s.csUpdated \cup s.unconfirmed = r.csUpdated \cup r.unconfirmed
        BY <1>3, <1>11, <4>1, <4>2
      <4>4. Counts(s, f[i].sequence) BY <1>3, <1>8, <4>1, <4>2 DEF Counts
      <4>5. Agrees(s, f[i].configstrings, f[i].reliableSequence, {})
        BY <1>1, <1>3, <2>1, <4>1, <4>4 DEF StringsTold
      <4> QED BY <1>13, <4>1, <4>3, <4>5
    <3> QED BY <3>1, <3>2
  <2>2. ASSUME c.map = r.map, MayAcknowledge(r, p, c)
        PROVE  Agrees(r, c.configstrings, c.lastExecuted, c.overtaken)
    <3>1. \A m1 \in p : m1.messageAcknowledge \in Nat
                       /\ m1.messageAcknowledge <= c.serverMessageSequence
      BY <1>1 DEF Types, PacketType
    <3>2. r.gamestateAck # GSA_SENT_MANY
      BY <1>3, <1>8, <1>10, <2>2, <3>1 DEF MayAcknowledge
    <3>3. MayAcknowledge(s, p, c) BY <1>3, <3>2 DEF MayAcknowledge
    <3>4. Agrees(s, c.configstrings, c.lastExecuted, c.overtaken)
      BY <1>1, <1>3, <2>2, <3>3 DEF StringsTold
    <3> QED BY <1>3, <1>13, <3>2, <3>4
  <2> QED BY <2>1, <2>2 DEF StringsTold
<1> QED BY <1>6, <1>14, <1>15, <1>16, <1>17, <1>18 DEF Inv, r

\* A command of the client: a download begins or is done.
LEMMA CommandExecuted ==
  ASSUME NEW s, NEW t \in Seq(MessageType), NEW p, NEW c, NEW command,
         Inv(s, t \o s.unsent, p, c)
  PROVE  LET r == SV_ExecuteClientCommand(s, command)
         IN  Inv(r, t \o r.unsent, p, c)
<1> DEFINE b == [s EXCEPT !.state = CS_CONNECTED, !.downloading = TRUE,
                          !.gamestateAck = IF @ = GSA_ACKED THEN GSA_SENT_ONCE ELSE @]
           ack == IF s.gamestateAck = GSA_ACKED THEN GSA_SENT_ONCE ELSE s.gamestateAck
<1>1. CASE command = "download" /\ s.state # CS_ACTIVE
  <2>1. Types(s, t \o s.unsent, p, c) BY DEF Inv
  <2>2. s \in ServerType /\ s.reliableAcknowledge <= Len(s.commands)
        /\ s.lastClientCommand <= Len(c.commands) /\ s.outgoingSequence \in Nat
    BY <2>1 DEF Types, ServerType
  <2>3. ack \in Acks /\ CS_CONNECTED \in States BY <2>2 DEF ServerType, Acks, States
  <2>4. (s.gamestateAck = GSA_ACKED /\ ack = GSA_SENT_ONCE) \/ ack = s.gamestateAck
    OBVIOUS
  <2> HIDE DEF ack
  <2>5. b = [s EXCEPT !.state = CS_CONNECTED, !.downloading = TRUE, !.gamestateAck = ack]
    BY DEF ack
  <2> HIDE DEF b
  <2>6. b \in ServerType BY <2>2, <2>3, <2>5 DEF ServerType
  <2>7. /\ b.map = s.map /\ b.serverId = s.serverId /\ b.configstrings = s.configstrings
        /\ b.commands = s.commands /\ b.csUpdated = s.csUpdated
        /\ b.unconfirmed = s.unconfirmed
        /\ b.gamestateMessageNum = s.gamestateMessageNum
        /\ b.outgoingSequence = s.outgoingSequence /\ b.unsent = s.unsent
        /\ b.reliableAcknowledge = s.reliableAcknowledge
        /\ b.lastClientCommand = s.lastClientCommand
        /\ b.gamestateAck = ack /\ b.state = CS_CONNECTED
    BY <2>2, <2>5 DEF ServerType
  <2>8. NextSequence(b) = NextSequence(s) BY <2>7 DEF NextSequence
  <2>9. CS_CONNECTED # CS_ACTIVE BY DEF CS_CONNECTED, CS_ACTIVE
  <2>10. s.outgoingSequence <= b.outgoingSequence BY <2>2, <2>7
  <2>11. Inv(b, t \o s.unsent, p, c)
    BY <2>2, <2>4, <2>6, <2>7, <2>8, <2>9, <2>10, ServerMoves
  <2>12. SV_ExecuteClientCommand(s, command) = b
    BY <1>1 DEF SV_ExecuteClientCommand, SV_BeginDownload_f, b
  <2> QED BY <2>7, <2>11, <2>12
<1>2. CASE command # "download" /\ s.state # CS_ACTIVE
  <2>1. SV_ExecuteClientCommand(s, command) = SendGamestate(s)
    BY <1>2 DEF SV_ExecuteClientCommand, SV_DoneDownload_f
  <2> QED BY <2>1, GamestateSent
<1>3. CASE s.state = CS_ACTIVE
  <2>1. SV_ExecuteClientCommand(s, command) = s
    BY <1>3 DEF SV_ExecuteClientCommand, SV_BeginDownload_f, SV_DoneDownload_f
  <2> QED BY <2>1
<1> QED BY <1>1, <1>2, <1>3

\* The commands of a message, one after another.
LEMMA CommandsExecuted ==
  ASSUME NEW s, NEW t \in Seq(MessageType), NEW p, NEW c, NEW m \in p,
         Inv(s, t \o s.unsent, p, c)
  PROVE  LET r == ClientCommands(s, m)
         IN  Inv(r, t \o r.unsent, p, c)
<1> DEFINE N == Len(m.commands)
           first == s.lastClientCommand
           base == [s EXCEPT !.lastClientCommand = N]
           Step(f, n) == IF n <= first THEN base
                         ELSE SV_ExecuteClientCommand(f[n - 1], m.commands[n])
           Right(r) == Inv(r, t \o r.unsent, p, c)
<1>1. /\ s \in ServerType /\ m \in PacketType /\ N <= Len(c.commands)
      /\ s.reliableAcknowledge <= Len(s.commands) /\ first \in Nat
      /\ s.outgoingSequence \in Nat
  BY DEF Inv, Types, ServerType
<1>2. N \in Nat BY <1>1, LenProperties DEF PacketType
<1>3. Right(base)
  <2>1. base \in ServerType BY <1>1, <1>2 DEF ServerType
  <2>2. /\ base.map = s.map /\ base.serverId = s.serverId
        /\ base.configstrings = s.configstrings
        /\ base.commands = s.commands /\ base.csUpdated = s.csUpdated
        /\ base.unconfirmed = s.unconfirmed
        /\ base.gamestateMessageNum = s.gamestateMessageNum
        /\ base.outgoingSequence = s.outgoingSequence /\ base.unsent = s.unsent
        /\ base.reliableAcknowledge = s.reliableAcknowledge
        /\ base.lastClientCommand = N
        /\ base.gamestateAck = s.gamestateAck /\ base.state = s.state
    BY <1>1 DEF ServerType
  <2> HIDE DEF base, N
  <2>3. NextSequence(base) = NextSequence(s) BY <2>2 DEF NextSequence
  <2>4. s.outgoingSequence <= base.outgoingSequence BY <1>1, <2>2
  <2>5. Inv(base, t \o s.unsent, p, c)
    BY <1>1, <2>1, <2>2, <2>3, <2>4, ServerMoves
  <2> QED BY <2>2, <2>5
<1> HIDE DEF base, N, first
<1>4. ASSUME NEW r, NEW command, Right(r)
      PROVE  Right(SV_ExecuteClientCommand(r, command))
  BY <1>4, CommandExecuted
<1> DEFINE Lacking == {k \in 0 .. N : ~\E f : f = [n \in 0 .. k |-> Step(f, n)]}
<1>5. Lacking = {}
  <2>1. SUFFICES ASSUME Lacking # {} PROVE FALSE
    OBVIOUS
  <2>2. PICK k \in Lacking : \A j \in Lacking : k <= j
    <3>1. Lacking \subseteq Nat BY <1>2
    <3> HIDE DEF Lacking
    <3> QED BY <2>1, <3>1, LeastNatural
  <2>3. CASE k = 0
    <3> DEFINE h == [n \in 0 .. 0 |-> base]
    <3>1. \A n \in 0 .. 0 : n <= first BY <1>1 DEF first
    <3>2. h = [n \in 0 .. 0 |-> Step(h, n)] BY <3>1
    <3> HIDE DEF h
    <3> QED BY <2>2, <2>3, <3>2
  <2>4. CASE k # 0
    <3>1. k \in Nat /\ k - 1 \in 0 .. N /\ ~(k <= k - 1) BY <1>2, <2>2, <2>4
    <3>2. k - 1 \notin Lacking BY <2>2, <3>1
    <3>3. PICK f : f = [n \in 0 .. k - 1 |-> Step(f, n)] BY <3>1, <3>2
    <3> HIDE DEF Step
    <3> DEFINE h == [n \in 0 .. k |-> IF n = k THEN Step(f, n) ELSE f[n]]
    <3>4. ASSUME NEW n \in 0 .. k PROVE h[n] = Step(h, n)
      <4>1. h[n] = Step(f, n)
        <5>1. CASE n = k BY <5>1
        <5>2. CASE n # k
          <6>1. n \in 0 .. k - 1 BY <3>1, <5>2
          <6>2. f[n] = Step(f, n) BY <3>3, <6>1
          <6> QED BY <5>2, <6>2
        <5> QED BY <5>1, <5>2
      <4>2. n <= first \/ h[n - 1] = f[n - 1]
        <5>1. CASE n = 0 BY <1>1, <5>1 DEF first
        <5>2. CASE n # 0
          <6>1. n - 1 \in 0 .. k /\ n - 1 # k BY <3>1, <5>2
          <6> QED BY <6>1
        <5> QED BY <5>1, <5>2
      <4> HIDE DEF h
      <4> QED BY <4>1, <4>2 DEF Step
    <3>5. h = [n \in 0 .. k |-> Step(h, n)] BY <3>4
    <3> HIDE DEF h
    <3> QED BY <2>2, <3>5 DEF Step
  <2> QED BY <2>3, <2>4
<1> DEFINE after == CHOOSE f : f = [n \in 0 .. N |-> Step(f, n)]
<1>6. after = [n \in 0 .. N |-> Step(after, n)]
  <2>1. \E f : f = [n \in 0 .. N |-> Step(f, n)] BY <1>2, <1>5
  <2> HIDE DEF Step
  <2> QED BY <2>1
<1>7. ClientCommands(s, m) = after[N]
  BY DEF ClientCommands, N, base, first
<1> HIDE DEF after, Step
<1> DEFINE Wrong == {k \in 0 .. N : ~Right(after[k])}
<1>8. Wrong = {}
  <2>1. SUFFICES ASSUME Wrong # {} PROVE FALSE
    OBVIOUS
  <2>2. PICK k \in Wrong : \A j \in Wrong : k <= j
    <3>1. Wrong \subseteq Nat BY <1>2
    <3> HIDE DEF Wrong
    <3> QED BY <2>1, <3>1, LeastNatural
  <2>3. after[k] = Step(after, k) /\ k \in 0 .. N /\ ~Right(after[k])
    BY <1>6, <2>2
  <2>4. CASE k <= first
    BY <1>3, <2>3, <2>4 DEF Step
  <2>5. CASE ~(k <= first)
    <3>1. k - 1 \in 0 .. N /\ ~(k <= k - 1) BY <1>1, <1>2, <2>3, <2>5 DEF first
    <3>2. Right(after[k - 1]) BY <2>2, <3>1
    <3> HIDE DEF Right
    <3> QED BY <1>4, <2>3, <2>5, <3>2 DEF Step
  <2> QED BY <2>4, <2>5
<1>9. Right(after[N]) BY <1>2, <1>8
<1> QED BY <1>7, <1>9

-----------------------------------------------------------------------------
(* Configstrings change *)

\* The sequence of a finite set has its elements.
LEMMA SetListed ==
  ASSUME NEW S, IsFiniteSet(S)
  PROVE  /\ Cardinality(S) \in Nat
         /\ SetToSeq(S) \in [1 .. Cardinality(S) -> S]
         /\ \A e \in S : \E k \in 1 .. Cardinality(S) : SetToSeq(S)[k] = e
<1> DEFINE n == Cardinality(S)
           q == SetToSeq(S)
<1>1. n \in Nat /\ ExistsBijection(1 .. n, S) BY FS_CardinalityType
<1>2. \E g : g \in Injection(1 .. n, S) BY <1>1 DEF ExistsBijection, Bijection
<1>3. q \in [1 .. n -> S] /\ IsInjective(q)
  <2>1. \E g \in [1 .. n -> S] : IsInjective(g) BY <1>2 DEF Injection
  <2> QED BY <2>1 DEF SetToSeq
<1> HIDE DEF q, n
<1>4. q \in Injection(1 .. n, S) BY <1>3 DEF Injection
<1>5. Cardinality(1 .. n) = n
  <2>1. 1 \in Int /\ n \in Int /\ (1 > n => n = 0) /\ n - 1 + 1 = n BY <1>1
  <2>2. Cardinality(1 .. n) = IF 1 > n THEN 0 ELSE n - 1 + 1 BY <2>1, FS_Interval
  <2> QED BY <2>1, <2>2
<1>6. q \in Surjection(1 .. n, S) BY <1>4, <1>5, FS_Injection DEF n
<1>7. \A e \in S : \E k \in 1 .. n : q[k] = e BY <1>6 DEF Surjection
<1> QED BY <1>1, <1>3, <1>7 DEF q, n

\* What SendConfigstrings does: there is a command for each that has changed.
LEMMA SendConfigstringsIs ==
  ASSUME NEW s \in ServerType, NEW changed \in SUBSET Indices
  PROVE  LET r == SendConfigstrings(s, changed)
         IN  /\ r \in ServerType
             /\ r.map = s.map /\ r.serverId = s.serverId /\ r.configstrings = s.configstrings
             /\ r.gamestateAck = s.gamestateAck /\ r.csUpdated = s.csUpdated
             /\ r.gamestateMessageNum = s.gamestateMessageNum
             /\ r.reliableAcknowledge = s.reliableAcknowledge
             /\ r.lastClientCommand = s.lastClientCommand
             /\ r.outgoingSequence = s.outgoingSequence /\ r.unsent = s.unsent
             /\ r.unconfirmed = s.unconfirmed
             /\ r.state \in {s.state, CS_ZOMBIE}
             /\ Len(s.commands) <= Len(r.commands)
             /\ \A k \in 1 .. Len(s.commands) : r.commands[k] = s.commands[k]
             /\ \A k \in Len(s.commands) + 1 .. Len(r.commands) :
                  /\ r.commands[k].index \in changed
                  /\ r.commands[k].value = s.configstrings[r.commands[k].index]
             /\ \A i \in changed : \E k \in Len(s.commands) + 1 .. Len(r.commands) :
                  r.commands[k].index = i
<1> DEFINE n == Cardinality(changed)
           q == SetToSeq(changed)
           cs(i) == [index |-> i, value |-> s.configstrings[i]]
           new == [k \in 1 .. n |-> cs(q[k])]
           L == Len(s.commands)
           issued == s.commands \o new
           state == IF Len(issued) - s.reliableAcknowledge > MAX_RELIABLE_COMMANDS
                    THEN CS_ZOMBIE ELSE s.state
           r == SendConfigstrings(s, changed)
           C == [index : Indices, value : Nat]
<1>1. s.commands \in Seq(C) /\ s.configstrings \in StringsType /\ s.state \in States
      /\ L \in Nat
  <2>1. s.commands \in Seq(C) /\ s.configstrings \in StringsType /\ s.state \in States
    BY DEF ServerType
  <2> QED BY <2>1, LenProperties
<1>2. n \in Nat /\ q \in [1 .. n -> changed]
      /\ \A e \in changed : \E k \in 1 .. n : q[k] = e
  <2>1. IsFiniteSet(changed) BY GamestateAssumption, FS_Subset
  <2> QED BY <2>1, SetListed
<1> HIDE DEF n, q
<1>3. \A i \in changed : cs(i) \in C BY <1>1 DEF StringsType
<1>4. new \in Seq(C) /\ Len(new) = n /\ \A k \in 1 .. n : new[k] = cs(q[k])
  <2>1. new \in [1 .. n -> C] BY <1>2, <1>3
  <2> QED BY <1>2, <2>1
<1> HIDE DEF new
<1>5. /\ issued \in Seq(C) /\ Len(issued) = L + n
      /\ \A k \in 1 .. L + n : issued[k] = IF k <= L THEN s.commands[k] ELSE new[k - L]
  BY <1>1, <1>4, ConcatProperties
<1>6. r = [s EXCEPT !.commands = issued, !.state = state]
  BY DEF SendConfigstrings, issued, new, n, q, state
<1>7. state \in States /\ state \in {s.state, CS_ZOMBIE} BY <1>1 DEF States
<1> HIDE DEF issued, r, state, L
<1>8. /\ r \in ServerType
      /\ r.map = s.map /\ r.serverId = s.serverId /\ r.configstrings = s.configstrings
      /\ r.gamestateAck = s.gamestateAck /\ r.csUpdated = s.csUpdated
      /\ r.gamestateMessageNum = s.gamestateMessageNum
      /\ r.reliableAcknowledge = s.reliableAcknowledge
      /\ r.lastClientCommand = s.lastClientCommand
      /\ r.outgoingSequence = s.outgoingSequence /\ r.unsent = s.unsent
      /\ r.unconfirmed = s.unconfirmed
      /\ r.state \in {s.state, CS_ZOMBIE}
      /\ r.commands = issued
  BY <1>5, <1>6, <1>7 DEF ServerType
<1>9. ASSUME NEW k \in 1 .. L PROVE issued[k] = s.commands[k]
  <2>1. k \in 1 .. L + n /\ k <= L BY <1>1, <1>2
  <2> QED BY <1>5, <2>1
<1>10. ASSUME NEW k \in 1 .. n PROVE L + k \in L + 1 .. L + n /\ issued[L + k] = cs(q[k])
  <2>1. L + k \in 1 .. L + n /\ ~(L + k <= L) /\ (L + k) - L = k
        /\ L + k \in L + 1 .. L + n
    BY <1>1, <1>2
  <2>2. issued[L + k] = new[k] BY <1>5, <2>1
  <2> QED BY <1>4, <2>1, <2>2
<1>11. ASSUME NEW k \in L + 1 .. L + n
       PROVE  /\ issued[k].index \in changed
              /\ issued[k].value = s.configstrings[issued[k].index]
  <2>1. k - L \in 1 .. n /\ L + (k - L) = k BY <1>1, <1>2
  <2>2. issued[k] = cs(q[k - L]) BY <1>10, <2>1
  <2>3. q[k - L] \in changed BY <1>2, <2>1
  <2> QED BY <2>2, <2>3
<1>12. ASSUME NEW i \in changed PROVE \E k \in L + 1 .. L + n : issued[k].index = i
  <2>1. PICK k \in 1 .. n : q[k] = i BY <1>2
  <2>2. issued[L + k] = cs(i) BY <1>10, <2>1
  <2>3. issued[L + k].index = i BY <2>2
  <2> QED BY <1>10, <2>3
<1>13. L <= Len(issued) BY <1>1, <1>2, <1>5
<1> QED BY <1>5, <1>8, <1>9, <1>11, <1>12, <1>13 DEF r, L

\* Configstrings change, and commands are added that tell of those that are
\* not kept for later; only a client with the map is told.
LEMMA StringsChange ==
  ASSUME NEW s, NEW f, NEW p, NEW c, Inv(s, f, p, c),
         NEW r \in ServerType, NEW changed,
         r.map = s.map, s.serverId <= r.serverId,
         r.gamestateAck = s.gamestateAck, r.gamestateMessageNum = s.gamestateMessageNum,
         r.reliableAcknowledge = s.reliableAcknowledge,
         r.lastClientCommand = s.lastClientCommand,
         r.outgoingSequence = s.outgoingSequence, r.unsent = s.unsent,
         r.unconfirmed = s.unconfirmed,
         r.configstrings[CS_SYSTEMINFO] <= r.serverId,
         \A i \in Indices \ changed : r.configstrings[i] = s.configstrings[i],
         Len(s.commands) <= Len(r.commands),
         \A k \in 1 .. Len(s.commands) : r.commands[k] = s.commands[k],
         \A k \in Len(s.commands) + 1 .. Len(r.commands) :
           /\ r.commands[k].value = r.configstrings[r.commands[k].index]
           /\ s.gamestateAck = GSA_ACKED,
         \A i \in s.csUpdated \cup changed :
           \/ i \in r.csUpdated
           \/ \E k \in Len(s.commands) + 1 .. Len(r.commands) : r.commands[k].index = i,
         r.state = CS_ACTIVE => r.gamestateAck = GSA_ACKED /\ r.csUpdated = {}
  PROVE  Inv(r, f, p, c)
<1> DEFINE L == Len(s.commands)
           M == Len(r.commands)
<1>1. /\ Types(s, f, p, c) /\ Numbered(s, f, c) /\ OnTheWay(s, f, c)
      /\ IdsKnown(s, f, p, c) /\ StringsTold(s, f, p, c)
  BY DEF Inv
<1>2. /\ L \in Nat /\ M \in Nat /\ s.serverId \in Nat /\ r.serverId \in Nat
      /\ s.map \in Nat /\ s.reliableAcknowledge \in Nat
      /\ c.lastExecuted \in Nat /\ c.serverCommandSequence \in Nat
      /\ \A i \in 1 .. Len(f) : f[i].reliableSequence \in Nat
  BY <1>1, Basics, LenProperties DEF Types, ServerType
<1>3. L <= M OBVIOUS
<1> HIDE DEF L, M
<1>4. ASSUME NEW id \in Nat, NEW map, Knows(s, id, map) PROVE Knows(r, id, map)
  BY <1>2, <1>4 DEF Knows
<1>5. ASSUME NEW strings, NEW n \in Nat, n <= L, NEW others, Agrees(s, strings, n, others)
      PROVE  Agrees(r, strings, n, others)
  <2>1. SUFFICES ASSUME NEW i \in Indices \ (r.csUpdated \cup r.unconfirmed \cup others)
                 PROVE  Reaches(r, strings, n, i)
    BY DEF Agrees
  <2>2. CASE \E k \in L + 1 .. M : r.commands[k].index = i
    <3>1. PICK l \in L + 1 .. M : r.commands[l].index = i BY <2>2
    <3>2. l \in n + 1 .. M BY <1>2, <1>5
    <3>3. ASSUME NEW k \in n + 1 .. M, r.commands[k].index = i,
                 \A j \in k + 1 .. M : r.commands[j].index # i
          PROVE  r.commands[k].value = r.configstrings[i]
      <4>1. ~(l \in k + 1 .. M) BY <3>1, <3>3
      <4>2. k \in L + 1 .. M BY <1>2, <1>5, <4>1
      <4> QED BY <3>3, <4>2 DEF L, M
    <3> QED BY <3>1, <3>2, <3>3 DEF Reaches, M
  <2>3. CASE ~\E k \in L + 1 .. M : r.commands[k].index = i
    <3>1. i \notin s.csUpdated \cup changed BY <2>1, <2>3 DEF L, M
    <3>2. r.configstrings[i] = s.configstrings[i] BY <2>1, <3>1
    <3>3. Reaches(s, strings, n, i) BY <1>5, <2>1, <3>1 DEF Agrees
    <3>4. \A k \in n + 1 .. L : k \in 1 .. L /\ k \in n + 1 .. M /\ r.commands[k] = s.commands[k]
      <4>1. \A k \in n + 1 .. L : k \in 1 .. L /\ k \in n + 1 .. M BY <1>2, <1>3, <1>5
      <4> QED BY <4>1 DEF L
    <3>5. \A k \in n + 1 .. M : r.commands[k].index = i => k \in n + 1 .. L
      <4>1. \A k \in n + 1 .. M : k \in n + 1 .. L \/ k \in L + 1 .. M BY <1>2, <1>3, <1>5
      <4> QED BY <2>3, <4>1
    <3>6. (\A k \in n + 1 .. M : r.commands[k].index # i) => strings[i] = r.configstrings[i]
      BY <3>2, <3>3, <3>4 DEF Reaches, L
    <3>7. ASSUME NEW k \in n + 1 .. M, r.commands[k].index = i,
                 \A j \in k + 1 .. M : r.commands[j].index # i
          PROVE  r.commands[k].value = r.configstrings[i]
      <4>1. k \in n + 1 .. L /\ r.commands[k] = s.commands[k] BY <3>4, <3>5, <3>7
      <4>2. \A j \in k + 1 .. L : j \in k + 1 .. M /\ j \in n + 1 .. L
        BY <1>2, <1>3, <1>5, <4>1
      <4>3. \A j \in k + 1 .. L : s.commands[j].index # i BY <3>4, <3>7, <4>2
      <4>4. s.commands[k].value = s.configstrings[i]
        BY <3>3, <3>7, <4>1, <4>3 DEF Reaches, L
      <4> QED BY <3>2, <4>1, <4>4
    <3> QED BY <3>6, <3>7 DEF Reaches, M
  <2> QED BY <2>2, <2>3
<1>6. Types(r, f, p, c)
  <2>1. s.reliableAcknowledge <= L /\ \A m \in p : m.reliableAcknowledge <= L
    BY <1>1 DEF Types, L
  <2>2. \A m \in p : m.reliableAcknowledge \in Nat BY <1>1 DEF Types, PacketType
  <2>3. s.reliableAcknowledge <= M /\ \A m \in p : m.reliableAcknowledge <= M
    BY <1>2, <1>3, <2>1, <2>2
  <2>4. s.map <= r.serverId
    <3>1. s.map <= s.serverId BY <1>1 DEF Types
    <3> QED BY <1>2, <3>1
  <2> QED BY <1>1, <2>3, <2>4 DEF Types, M
<1>7. Numbered(r, f, c)
  <2>1. NextSequence(r) = NextSequence(s) BY DEF NextSequence
  <2>2. c.serverCommandSequence <= L
        /\ \A i \in 1 .. Len(f) : f[i].reliableSequence <= L
    BY <1>1 DEF Numbered, L
  <2>3. c.serverCommandSequence <= M
        /\ \A i \in 1 .. Len(f) : f[i].reliableSequence <= M
    BY <1>2, <1>3, <2>2
  <2> QED BY <1>1, <2>1, <2>3 DEF Numbered, M
<1>8. OnTheWay(r, f, c) BY <1>1 DEF OnTheWay
<1>9. IdsKnown(r, f, p, c)
  <2>1. Knows(r, ServerId(c), c.map)
    <3>1. ServerId(c) \in Nat
      <4>1. c.configstrings \in StringsType BY <1>1, Basics
      <4> QED BY <4>1, GamestateAssumption DEF StringsType, ServerId
    <3> QED BY <1>1, <1>4, <3>1 DEF IdsKnown
  <2>2. ASSUME NEW i \in 1 .. Len(f), f[i].gamestate
        PROVE  Knows(r, f[i].configstrings[CS_SYSTEMINFO], f[i].map)
    <3>1. f[i].configstrings \in StringsType BY <1>1, Basics
    <3>2. f[i].configstrings[CS_SYSTEMINFO] \in Nat
      BY <3>1, GamestateAssumption DEF StringsType
    <3> QED BY <1>1, <1>4, <2>2, <3>2 DEF IdsKnown
  <2>3. ASSUME NEW m \in p PROVE Knows(r, m.serverId, c.map)
    <3>1. m.serverId \in Nat BY <1>1 DEF Types, PacketType
    <3> QED BY <1>1, <1>4, <3>1 DEF IdsKnown
  <2>4. ASSUME NEW k \in 1 .. M, r.commands[k].index = CS_SYSTEMINFO
        PROVE  Knows(r, r.commands[k].value, c.map)
    <3>1. CASE k <= L
      <4>1. k \in 1 .. L BY <1>2, <3>1
      <4>2. r.commands[k] = s.commands[k] BY <4>1 DEF L
      <4>3. s.commands[k].value \in Nat
        <5>1. s.commands \in Seq([index : Indices, value : Nat]) BY <1>1, Basics
        <5>2. s.commands[k] \in [index : Indices, value : Nat]
          BY <4>1, <5>1, ElementOfSeq DEF L
        <5> QED BY <5>2
      <4> QED BY <1>1, <1>4, <2>4, <4>1, <4>2, <4>3 DEF IdsKnown, L
    <3>2. CASE ~(k <= L)
      <4>1. k \in L + 1 .. M BY <1>2, <3>2
      <4>2. r.commands[k].value = r.configstrings[CS_SYSTEMINFO] /\ s.gamestateAck = GSA_ACKED
        BY <2>4, <4>1 DEF L, M
      <4>3. c.map = s.map BY <1>1, <4>2 DEF OnTheWay
      <4> QED BY <4>2, <4>3 DEF Knows
    <3> QED BY <3>1, <3>2
  <2> QED BY <2>1, <2>2, <2>3, <2>4 DEF IdsKnown, M
<1>10. StringsTold(r, f, p, c)
  <2>1. ASSUME NEW i \in 1 .. Len(f),
               f[i].gamestate, f[i].map = r.map, Counts(r, f[i].sequence)
        PROVE  Agrees(r, f[i].configstrings, f[i].reliableSequence, {})
    <3>1. f[i].reliableSequence <= L BY <1>1 DEF Numbered, L
    <3>2. Counts(s, f[i].sequence) BY <2>1 DEF Counts
    <3>3. Agrees(s, f[i].configstrings, f[i].reliableSequence, {})
      BY <1>1, <2>1, <3>2 DEF StringsTold
    <3> QED BY <1>2, <1>5, <3>1, <3>3
  <2>2. ASSUME c.map = r.map, MayAcknowledge(r, p, c)
        PROVE  Agrees(r, c.configstrings, c.lastExecuted, c.overtaken)
    <3>1. c.lastExecuted <= L
      <4>1. c.lastExecuted <= c.serverCommandSequence /\ c.serverCommandSequence <= L
        BY <1>1 DEF Numbered, L
      <4> QED BY <1>2, <4>1
    <3>2. \A m \in p : m.serverId = r.serverId => m.serverId = s.serverId
      <4>1. \A m \in p : m.serverId \in Nat /\ m.serverId <= s.serverId
        BY <1>1 DEF Types, PacketType, IdsKnown, Knows
      <4> QED BY <1>2, <4>1
    <3>3. MayAcknowledge(s, p, c) BY <2>2, <3>2 DEF MayAcknowledge
    <3>4. Agrees(s, c.configstrings, c.lastExecuted, c.overtaken)
      BY <1>1, <2>2, <3>3 DEF StringsTold
    <3> QED BY <1>2, <1>5, <3>1, <3>4
  <2> QED BY <2>1, <2>2 DEF StringsTold
<1> QED BY <1>6, <1>7, <1>8, <1>9, <1>10 DEF Inv

\* A client enters the world, and is sent what changed while it was loading.
LEMMA WorldEntered ==
  ASSUME NEW s, NEW f, NEW p, NEW c, Inv(s, f, p, c), s.gamestateAck = GSA_ACKED
  PROVE  LET r == SV_ClientEnterWorld(s)
         IN  Inv(r, f, p, c) /\ r.unsent = s.unsent
<1> DEFINE q == [s EXCEPT !.state = CS_ACTIVE, !.gamestateAck = GSA_ACKED, !.csUpdated = {}]
           r == SendConfigstrings(q, s.csUpdated)
<1>1. /\ s \in ServerType /\ s.csUpdated \in SUBSET Indices /\ s.serverId \in Nat
      /\ s.configstrings[CS_SYSTEMINFO] <= s.serverId
  BY DEF Inv, Types, ServerType, IdsKnown
<1>2. q \in ServerType
  <2>1. CS_ACTIVE \in States /\ GSA_ACKED \in Acks BY DEF States, Acks
  <2> QED BY <1>1, <2>1 DEF ServerType
<1>3. /\ q.map = s.map /\ q.serverId = s.serverId /\ q.configstrings = s.configstrings
      /\ q.gamestateAck = s.gamestateAck /\ q.csUpdated = {}
      /\ q.gamestateMessageNum = s.gamestateMessageNum
      /\ q.reliableAcknowledge = s.reliableAcknowledge
      /\ q.lastClientCommand = s.lastClientCommand
      /\ q.outgoingSequence = s.outgoingSequence /\ q.unsent = s.unsent
      /\ q.unconfirmed = s.unconfirmed /\ q.commands = s.commands
  BY <1>1 DEF ServerType
<1>4. SV_ClientEnterWorld(s) = r BY DEF SV_ClientEnterWorld
<1> HIDE DEF q
<1>5. /\ r \in ServerType
      /\ r.map = s.map /\ r.serverId = s.serverId /\ r.configstrings = s.configstrings
      /\ r.gamestateAck = s.gamestateAck /\ r.csUpdated = {}
      /\ r.gamestateMessageNum = s.gamestateMessageNum
      /\ r.reliableAcknowledge = s.reliableAcknowledge
      /\ r.lastClientCommand = s.lastClientCommand
      /\ r.outgoingSequence = s.outgoingSequence /\ r.unsent = s.unsent
      /\ r.unconfirmed = s.unconfirmed
      /\ Len(s.commands) <= Len(r.commands)
      /\ \A k \in 1 .. Len(s.commands) : r.commands[k] = s.commands[k]
      /\ \A k \in Len(s.commands) + 1 .. Len(r.commands) :
           r.commands[k].value = r.configstrings[r.commands[k].index]
      /\ \A i \in s.csUpdated : \E k \in Len(s.commands) + 1 .. Len(r.commands) :
           r.commands[k].index = i
  BY <1>1, <1>2, <1>3, SendConfigstringsIs
<1> HIDE DEF r
<1>6. s.serverId <= r.serverId /\ r.configstrings[CS_SYSTEMINFO] <= r.serverId
  BY <1>1, <1>5
<1>7. Inv(r, f, p, c) BY <1>5, <1>6, StringsChange
<1> QED BY <1>4, <1>5, <1>7

\* Strings are changed: a client in the world is told, for another they are kept.
Broadcast(s, id, strings, changed) ==
  LET q == [s EXCEPT !.serverId = id, !.configstrings = strings]
  IN  IF s.state = CS_ACTIVE THEN SendConfigstrings(q, changed)
      ELSE [q EXCEPT !.csUpdated = @ \cup changed]

LEMMA StringsBroadcast ==
  ASSUME NEW s, NEW f, NEW p, NEW c, Inv(s, f, p, c),
         NEW changed \in SUBSET Indices, NEW id \in Nat \ {0}, s.serverId <= id,
         NEW strings \in StringsType, strings[CS_SYSTEMINFO] <= id,
         \A i \in Indices \ changed : strings[i] = s.configstrings[i]
  PROVE  LET r == Broadcast(s, id, strings, changed)
         IN  Inv(r, f, p, c) /\ r.unsent = s.unsent
<1> DEFINE q == [s EXCEPT !.serverId = id, !.configstrings = strings]
           told == SendConfigstrings(q, changed)
           kept == [q EXCEPT !.csUpdated = @ \cup changed]
<1>1. s \in ServerType /\ s.csUpdated \in SUBSET Indices /\ Len(s.commands) \in Nat
      /\ (s.state = CS_ACTIVE => s.gamestateAck = GSA_ACKED /\ s.csUpdated = {})
  <2>1. Types(s, f, p, c) /\ OnTheWay(s, f, c) BY DEF Inv
  <2>2. Len(s.commands) \in Nat BY <2>1, Basics
  <2> QED BY <2>1, <2>2 DEF Types, OnTheWay, ServerType
<1>2. /\ q \in ServerType
      /\ q.map = s.map /\ q.serverId = id /\ q.configstrings = strings
      /\ q.gamestateAck = s.gamestateAck /\ q.csUpdated = s.csUpdated
      /\ q.gamestateMessageNum = s.gamestateMessageNum
      /\ q.reliableAcknowledge = s.reliableAcknowledge
      /\ q.lastClientCommand = s.lastClientCommand
      /\ q.outgoingSequence = s.outgoingSequence /\ q.unsent = s.unsent
      /\ q.unconfirmed = s.unconfirmed /\ q.commands = s.commands /\ q.state = s.state
  BY <1>1 DEF ServerType
<1> HIDE DEF q
<1>3. CASE s.state = CS_ACTIVE
  <2>1. /\ told \in ServerType
        /\ told.map = s.map /\ told.serverId = id /\ told.configstrings = strings
        /\ told.gamestateAck = s.gamestateAck /\ told.csUpdated = {}
        /\ told.gamestateMessageNum = s.gamestateMessageNum
        /\ told.reliableAcknowledge = s.reliableAcknowledge
        /\ told.lastClientCommand = s.lastClientCommand
        /\ told.outgoingSequence = s.outgoingSequence /\ told.unsent = s.unsent
        /\ told.unconfirmed = s.unconfirmed
        /\ Len(s.commands) <= Len(told.commands)
        /\ \A k \in 1 .. Len(s.commands) : told.commands[k] = s.commands[k]
        /\ \A k \in Len(s.commands) + 1 .. Len(told.commands) :
             told.commands[k].value = strings[told.commands[k].index]
        /\ \A i \in changed : \E k \in Len(s.commands) + 1 .. Len(told.commands) :
             told.commands[k].index = i
    BY <1>1, <1>2, <1>3, SendConfigstringsIs
  <2> HIDE DEF told
  <2>2. s.gamestateAck = GSA_ACKED /\ s.csUpdated \cup changed = changed BY <1>1, <1>3
  <2>3. /\ s.serverId <= told.serverId /\ told.configstrings[CS_SYSTEMINFO] <= told.serverId
        /\ \A i \in Indices \ changed : told.configstrings[i] = s.configstrings[i]
    BY <2>1
  <2>4. \A k \in Len(s.commands) + 1 .. Len(told.commands) :
          /\ told.commands[k].value = told.configstrings[told.commands[k].index]
          /\ s.gamestateAck = GSA_ACKED
    BY <2>1, <2>2
  <2>5. \A i \in s.csUpdated \cup changed :
          \/ i \in told.csUpdated
          \/ \E k \in Len(s.commands) + 1 .. Len(told.commands) : told.commands[k].index = i
    BY <2>1, <2>2
  <2>6. Inv(told, f, p, c) BY <2>1, <2>2, <2>3, <2>4, <2>5, StringsChange
  <2> QED BY <1>3, <2>1, <2>6 DEF told, q, Broadcast
<1>4. CASE s.state # CS_ACTIVE
  <2>1. s.csUpdated \cup changed \in SUBSET Indices BY <1>1
  <2>2. /\ kept \in ServerType
        /\ kept.map = s.map /\ kept.serverId = id /\ kept.configstrings = strings
        /\ kept.gamestateAck = s.gamestateAck /\ kept.csUpdated = s.csUpdated \cup changed
        /\ kept.gamestateMessageNum = s.gamestateMessageNum
        /\ kept.reliableAcknowledge = s.reliableAcknowledge
        /\ kept.lastClientCommand = s.lastClientCommand
        /\ kept.outgoingSequence = s.outgoingSequence /\ kept.unsent = s.unsent
        /\ kept.unconfirmed = s.unconfirmed /\ kept.commands = s.commands
        /\ kept.state = s.state
    BY <1>2, <2>1 DEF ServerType
  <2> HIDE DEF kept
  <2>3. Len(s.commands) <= Len(kept.commands)
        /\ \A k \in 1 .. Len(s.commands) : kept.commands[k] = s.commands[k]
    BY <1>1, <2>2
  <2>4. Len(s.commands) + 1 .. Len(kept.commands) = {} BY <1>1, <2>2
  <2>5. kept.state # CS_ACTIVE BY <1>4, <2>2
  <2>6. Inv(kept, f, p, c) BY <2>2, <2>3, <2>4, <2>5, StringsChange
  <2> QED BY <1>4, <2>2, <2>6 DEF kept, q, Broadcast
<1> QED BY <1>3, <1>4

\* A new map: nothing on its way is of it.
LEMMA MapChanged ==
  ASSUME NEW s, NEW f, NEW p, NEW c, Inv(s, f, p, c),
         NEW r \in ServerType,
         r.map = s.map + 1, r.serverId = s.serverId + 1,
         r.configstrings[CS_SYSTEMINFO] = s.serverId + 1,
         r.state = CS_CONNECTED, r.gamestateAck = GSA_INIT,
         r.gamestateMessageNum = s.gamestateMessageNum,
         r.reliableAcknowledge = s.reliableAcknowledge,
         r.lastClientCommand = s.lastClientCommand, r.commands = s.commands,
         r.outgoingSequence = s.outgoingSequence, r.unsent = s.unsent
  PROVE  Inv(r, f, p, c)
<1>1. /\ Types(s, f, p, c) /\ Numbered(s, f, c) /\ OnTheWay(s, f, c) /\ IdsKnown(s, f, p, c)
  BY DEF Inv
<1>2. /\ s.map \in Nat /\ s.serverId \in Nat /\ s.map <= s.serverId
      /\ c.map \in Nat /\ c.map <= s.map
      /\ \A i \in 1 .. Len(f) : f[i].map \in Nat /\ (f[i].gamestate => f[i].map <= s.map)
  <2>1. /\ s.map \in Nat /\ s.serverId \in Nat /\ c.map \in Nat
        /\ \A i \in 1 .. Len(f) : f[i].map \in Nat
    BY <1>1, Basics
  <2>2. s.map <= s.serverId BY <1>1 DEF Types
  <2> QED BY <1>1, <2>1, <2>2 DEF OnTheWay
<1>3. /\ c.map < r.map /\ r.map <= r.serverId
      /\ \A i \in 1 .. Len(f) : f[i].gamestate => f[i].map < r.map
      /\ \A i \in 1 .. Len(f) : f[i].gamestate => f[i].map <= r.map
  BY <1>2
<1>4. r.gamestateAck # GSA_ACKED /\ r.state # CS_ACTIVE
  BY DEF GSA_INIT, GSA_ACKED, CS_CONNECTED, CS_ACTIVE
<1>5. ASSUME NEW id \in Nat, NEW map, Knows(s, id, map) PROVE Knows(r, id, map)
  BY <1>2, <1>5 DEF Knows
<1>6. Types(r, f, p, c) BY <1>1, <1>3 DEF Types
<1>7. Numbered(r, f, c)
  <2>1. NextSequence(r) = NextSequence(s) BY DEF NextSequence
  <2> QED BY <1>1, <2>1 DEF Numbered
<1>8. OnTheWay(r, f, c)
  <2>1. c.map <= r.map BY <1>2
  <2> QED BY <1>1, <1>3, <1>4, <2>1 DEF OnTheWay
<1>9. IdsKnown(r, f, p, c)
  <2>1. ServerId(c) \in Nat
        /\ \A i \in 1 .. Len(f) : f[i].configstrings[CS_SYSTEMINFO] \in Nat
    <3>1. c.configstrings \in StringsType
          /\ \A i \in 1 .. Len(f) : f[i].configstrings \in StringsType
      BY <1>1, Basics
    <3> QED BY <3>1, GamestateAssumption DEF StringsType, ServerId
  <2>2. \A m \in p : m.serverId \in Nat BY <1>1 DEF Types, PacketType
  <2>3. \A k \in 1 .. Len(s.commands) : s.commands[k].value \in Nat
    <3>1. s.commands \in Seq([index : Indices, value : Nat]) BY <1>1, Basics
    <3>2. ASSUME NEW k \in 1 .. Len(s.commands) PROVE s.commands[k].value \in Nat
      <4>1. s.commands[k] \in [index : Indices, value : Nat] BY <3>1, ElementOfSeq
      <4> QED BY <4>1
    <3> QED BY <3>2
  <2>4. r.configstrings[CS_SYSTEMINFO] <= r.serverId BY <1>2
  <2> QED BY <1>1, <1>5, <2>1, <2>2, <2>3, <2>4 DEF IdsKnown
<1>10. StringsTold(r, f, p, c)
  <2>1. r.map \in Nat /\ c.map # r.map BY <1>2, <1>3
  <2>2. \A i \in 1 .. Len(f) : ~(f[i].gamestate /\ f[i].map = r.map) BY <1>2, <1>3, <2>1
  <2> QED BY <2>1, <2>2 DEF StringsTold
<1> QED BY <1>6, <1>7, <1>8, <1>9, <1>10 DEF Inv

-----------------------------------------------------------------------------
(* The steps of the server *)

LEMMA Parts ==
  ASSUME IInv
  PROVE  /\ sv \in ServerType /\ sv.serverId \in Nat \ {0} /\ sv.map \in Nat
         /\ sv.outgoingSequence \in Nat
         /\ sv.configstrings \in StringsType /\ sv.configstrings[CS_SYSTEMINFO] <= sv.serverId
         /\ sv.configstrings[CS_SYSTEMINFO] \in Nat
         /\ Len(sv.commands) \in Nat
         /\ sv.unsent \in Seq(MessageType) /\ toClient \in Seq(MessageType)
         /\ Flight \in Seq(MessageType) /\ cl \in ClientType
         /\ Inv(sv, Flight, toServer, cl) /\ Types(sv, Flight, toServer, cl)
<1>1. Inv(sv, Flight, toServer, cl) /\ toClient \in Seq(MessageType) BY DEF IInv
<1>2. Types(sv, Flight, toServer, cl) /\ IdsKnown(sv, Flight, toServer, cl) BY <1>1 DEF Inv
<1>3. sv.outgoingSequence \in Nat /\ Len(sv.commands) \in Nat BY <1>2, Basics
<1>4. sv \in ServerType /\ cl \in ClientType /\ Flight \in Seq(MessageType) BY <1>2 DEF Types
<1>5. sv.configstrings \in StringsType /\ sv.serverId \in Nat \ {0} /\ sv.map \in Nat
      /\ sv.unsent \in Seq(MessageType)
  BY <1>4 DEF ServerType
<1>6. sv.configstrings[CS_SYSTEMINFO] \in Nat BY <1>5, GamestateAssumption DEF StringsType
<1> QED BY <1>1, <1>2, <1>3, <1>4, <1>5, <1>6 DEF IdsKnown

LEMMA ConfigstringStep ==
  ASSUME IInv, NEW i \in Indices, SV_SetConfigstring(i)
  PROVE  IInv'
<1> DEFINE value == IF i = CS_SYSTEMINFO THEN sv.serverId ELSE sv.configstrings[i] + 1
           strings == [sv.configstrings EXCEPT ![i] = value]
           q == [sv EXCEPT !.serverId = sv.serverId, !.configstrings = strings]
           r == Broadcast(sv, sv.serverId, strings, {i})
<1>1. /\ sv \in ServerType /\ sv.serverId \in Nat \ {0} /\ sv.configstrings \in StringsType
      /\ sv.configstrings[CS_SYSTEMINFO] <= sv.serverId
      /\ Inv(sv, Flight, toServer, cl)
  BY Parts
<1>2. value \in Nat BY <1>1 DEF StringsType
<1>3. strings \in StringsType /\ strings[i] = value
      /\ \A j \in Indices \ {i} : strings[j] = sv.configstrings[j]
  BY <1>1, <1>2 DEF StringsType
<1>4. strings[CS_SYSTEMINFO] <= sv.serverId
  <2>1. CASE i = CS_SYSTEMINFO BY <1>1, <1>3, <2>1
  <2>2. CASE i # CS_SYSTEMINFO
    BY <1>1, <1>3, <2>2, GamestateAssumption DEF StringsType
  <2> QED BY <2>1, <2>2
<1>5. [sv EXCEPT !.configstrings[i] = IF i = CS_SYSTEMINFO THEN sv.serverId ELSE @ + 1] = q
  BY <1>1 DEF ServerType
<1>6. sv' = r
  BY <1>5 DEF SV_SetConfigstring, Broadcast
<1>7. toClient' = toClient /\ toServer' = toServer /\ cl' = cl BY DEF SV_SetConfigstring
<1> HIDE DEF strings
<1>8. Inv(r, Flight, toServer, cl) /\ r.unsent = sv.unsent
  <2>1. sv.serverId <= sv.serverId BY <1>1
  <2>2. {i} \in SUBSET Indices OBVIOUS
  <2> QED BY <1>1, <1>3, <1>4, <2>1, <2>2, StringsBroadcast
<1> HIDE DEF r
<1> QED BY <1>6, <1>7, <1>8 DEF IInv, Flight

LEMMA RestartStep ==
  ASSUME IInv, SV_MapRestart_f
  PROVE  IInv'
<1>1. /\ sv \in ServerType /\ sv.serverId \in Nat \ {0} /\ sv.configstrings \in StringsType
      /\ sv.configstrings[CS_SYSTEMINFO] <= sv.serverId
      /\ sv.configstrings[CS_SYSTEMINFO] \in Nat
      /\ Inv(sv, Flight, toServer, cl)
  BY Parts
<1>2. PICK changed \in SUBSET Settable :
        sv' = IF sv.state = CS_ACTIVE
              THEN SendConfigstrings(NewGame(changed), changed)
              ELSE [NewGame(changed) EXCEPT !.csUpdated = @ \cup changed]
  BY DEF SV_MapRestart_f
<1>3. changed \in SUBSET Indices /\ CS_SYSTEMINFO \notin changed BY DEF Settable
<1> DEFINE strings == [i \in Indices |-> IF i \in changed THEN sv.configstrings[i] + 1
                                         ELSE sv.configstrings[i]]
           id == sv.serverId + 1
           q == [sv EXCEPT !.serverId = id, !.configstrings = strings]
           r == Broadcast(sv, id, strings, changed)
<1>4. sv' = r
  <2>1. NewGame(changed) = q BY <1>1 DEF NewGame, ServerType
  <2> QED BY <1>2, <2>1 DEF Broadcast
<1>5. strings \in StringsType /\ \A i \in Indices \ changed : strings[i] = sv.configstrings[i]
  BY <1>1 DEF StringsType
<1>6. strings[CS_SYSTEMINFO] <= id
  BY <1>1, <1>3, <1>5, GamestateAssumption
<1>7. id \in Nat \ {0} /\ sv.serverId <= id BY <1>1
<1>8. toClient' = toClient /\ toServer' = toServer /\ cl' = cl BY DEF SV_MapRestart_f
<1> HIDE DEF strings, id
<1>9. Inv(r, Flight, toServer, cl) /\ r.unsent = sv.unsent
  BY <1>1, <1>3, <1>5, <1>6, <1>7, StringsBroadcast
<1> HIDE DEF r
<1> QED BY <1>4, <1>8, <1>9 DEF IInv, Flight

LEMMA SpawnStep ==
  ASSUME IInv, SV_SpawnServer
  PROVE  IInv'
<1>1. /\ sv \in ServerType /\ sv.serverId \in Nat \ {0} /\ sv.map \in Nat
      /\ sv.configstrings \in StringsType
      /\ Inv(sv, Flight, toServer, cl)
  BY Parts
<1>2. PICK changed \in SUBSET Settable :
        sv' = [NewGame(changed) EXCEPT !.map = @ + 1,
                                       !.configstrings[CS_SYSTEMINFO] = sv.serverId + 1,
                                       !.state = CS_CONNECTED,
                                       !.gamestateAck = GSA_INIT,
                                       !.unconfirmed = {}]
  BY DEF SV_SpawnServer
<1> DEFINE set == [i \in Indices |-> IF i \in changed THEN sv.configstrings[i] + 1
                                     ELSE sv.configstrings[i]]
           strings == [set EXCEPT ![CS_SYSTEMINFO] = sv.serverId + 1]
<1>3. sv' = [sv EXCEPT !.serverId = sv.serverId + 1, !.map = sv.map + 1,
                       !.configstrings = strings, !.state = CS_CONNECTED,
                       !.gamestateAck = GSA_INIT, !.unconfirmed = {}]
  BY <1>1, <1>2 DEF NewGame, ServerType
<1>4. sv.serverId + 1 \in Nat \ {0} /\ sv.map + 1 \in Nat BY <1>1
<1>5. set \in StringsType BY <1>1 DEF StringsType
<1> HIDE DEF set
<1>6. strings \in StringsType /\ strings[CS_SYSTEMINFO] = sv.serverId + 1
  BY <1>4, <1>5, GamestateAssumption DEF StringsType
<1> HIDE DEF strings
<1>7. CS_CONNECTED \in States /\ GSA_INIT \in Acks BY DEF States, Acks
<1>8. /\ sv' \in ServerType
      /\ sv'.map = sv.map + 1 /\ sv'.serverId = sv.serverId + 1
      /\ sv'.configstrings[CS_SYSTEMINFO] = sv.serverId + 1
      /\ sv'.state = CS_CONNECTED /\ sv'.gamestateAck = GSA_INIT
      /\ sv'.gamestateMessageNum = sv.gamestateMessageNum
      /\ sv'.reliableAcknowledge = sv.reliableAcknowledge
      /\ sv'.lastClientCommand = sv.lastClientCommand /\ sv'.commands = sv.commands
      /\ sv'.outgoingSequence = sv.outgoingSequence /\ sv'.unsent = sv.unsent
  BY <1>1, <1>3, <1>4, <1>6, <1>7 DEF ServerType
<1>9. toClient' = toClient /\ toServer' = toServer /\ cl' = cl BY DEF SV_SpawnServer
<1>10. Inv(sv', Flight, toServer, cl) BY <1>1, <1>8, MapChanged
<1> QED BY <1>8, <1>9, <1>10 DEF IInv, Flight

\* Only packets tell what the client has got.
LEMMA PacketGone ==
  ASSUME NEW s, NEW f, NEW p, NEW c, Inv(s, f, p, c)
  PROVE  Inv(s, f, {}, c)
<1>1. /\ Types(s, f, p, c) /\ Numbered(s, f, c) /\ OnTheWay(s, f, c)
      /\ IdsKnown(s, f, p, c) /\ StringsTold(s, f, p, c)
  BY DEF Inv
<1>2. MayAcknowledge(s, {}, c) => MayAcknowledge(s, p, c) BY DEF MayAcknowledge
<1>3. Types(s, f, {}, c) BY <1>1 DEF Types
<1>4. IdsKnown(s, f, {}, c) BY <1>1 DEF IdsKnown
<1>5. StringsTold(s, f, {}, c) BY <1>1, <1>2 DEF StringsTold
<1> QED BY <1>1, <1>3, <1>4, <1>5 DEF Inv

\* A message of the client.
LEMMA MessageExecuted ==
  ASSUME NEW s, NEW t \in Seq(MessageType), NEW p, NEW c, NEW m \in p,
         Inv(s, t \o s.unsent, p, c),
         NEW r \in ExecuteClientMessage(s, m)
  PROVE  Inv(r, t \o r.unsent, p, c)
<1> DEFINE Right(q) == Inv(q, t \o q.unsent, p, c)
           read == [s EXCEPT !.reliableAcknowledge = m.reliableAcknowledge]
           early == IF read.state # CS_CONNECTED /\ read.gamestateAck # GSA_ACKED
                    THEN SV_AcknowledgeGamestate(read, m) ELSE read
           done == ClientCommands(early, m)
<1>1. /\ s \in ServerType /\ m \in PacketType /\ m.reliableAcknowledge <= Len(s.commands)
      /\ s.lastClientCommand <= Len(c.commands) /\ s.outgoingSequence \in Nat
  BY DEF Inv, Types, ServerType
<1>2. Right(read)
  <2>1. m.reliableAcknowledge \in Nat BY <1>1 DEF PacketType
  <2>2. /\ read \in ServerType
        /\ read.map = s.map /\ read.serverId = s.serverId
        /\ read.configstrings = s.configstrings
        /\ read.commands = s.commands /\ read.csUpdated = s.csUpdated
        /\ read.unconfirmed = s.unconfirmed
        /\ read.gamestateMessageNum = s.gamestateMessageNum
        /\ read.outgoingSequence = s.outgoingSequence /\ read.unsent = s.unsent
        /\ read.reliableAcknowledge = m.reliableAcknowledge
        /\ read.lastClientCommand = s.lastClientCommand
        /\ read.gamestateAck = s.gamestateAck /\ read.state = s.state
    BY <1>1, <2>1 DEF ServerType
  <2> HIDE DEF read
  <2>3. NextSequence(read) = NextSequence(s) BY <2>2 DEF NextSequence
  <2>4. s.outgoingSequence <= read.outgoingSequence BY <1>1, <2>2
  <2>5. Inv(read, t \o s.unsent, p, c) BY <1>1, <2>2, <2>3, <2>4, ServerMoves
  <2> QED BY <2>2, <2>5
<1>3. ASSUME NEW q, Right(q)
      PROVE  Right(SV_AcknowledgeGamestate(q, m))
  <2>1. q \in ServerType BY <1>3 DEF Inv, Types
  <2>2. SV_AcknowledgeGamestate(q, m).unsent = q.unsent
    BY <2>1 DEF SV_AcknowledgeGamestate, ServerType
  <2>3. Inv(SV_AcknowledgeGamestate(q, m), t \o q.unsent, p, c) BY <1>3, Acknowledged
  <2> QED BY <2>2, <2>3
<1>4. ASSUME NEW q, Right(q), NEW q1 \in ResendGamestate(q) PROVE Right(q1)
  <2>1. q1 = q \/ q1 = SendGamestate(q) BY <1>4 DEF ResendGamestate
  <2>2. Right(SendGamestate(q)) BY <1>4, GamestateSent
  <2> QED BY <1>4, <2>1, <2>2
<1>5. ASSUME NEW q, Right(q), q.gamestateAck = GSA_ACKED PROVE Right(SV_UserMove(q, m))
  <2>1. SV_UserMove(q, m) = q \/ SV_UserMove(q, m) = SV_ClientEnterWorld(q)
    BY DEF SV_UserMove
  <2>2. Right(SV_ClientEnterWorld(q))
    <3>1. /\ Inv(SV_ClientEnterWorld(q), t \o q.unsent, p, c)
          /\ SV_ClientEnterWorld(q).unsent = q.unsent
      BY <1>5, WorldEntered
    <3> QED BY <3>1
  <2> QED BY <1>5, <2>1, <2>2
<1>6. ASSUME NEW q, Right(q), NEW q1 \in AfterCommands(q, m) PROVE Right(q1)
  <2> DEFINE late == SV_AcknowledgeGamestate(q, m)
  <2>1. Right(late) BY <1>3, <1>6
  <2>2. \/ q.gamestateAck = GSA_ACKED /\ q1 = SV_UserMove(q, m)
        \/ q1 = q
        \/ late.gamestateAck = GSA_ACKED /\ q1 = SV_UserMove(late, m)
        \/ q1 \in ResendGamestate(late)
    BY <1>6 DEF AfterCommands
  <2> HIDE DEF late, Right
  <2> QED BY <1>4, <1>5, <1>6, <2>1, <2>2
<1> HIDE DEF read
<1>7. Right(early) BY <1>2, <1>3
<1> HIDE DEF early
<1>8. Right(done) BY <1>7, CommandsExecuted
<1> HIDE DEF done
<1>9. r \in ResendGamestate(read) \/ r \in AfterCommands(done, m)
  BY DEF ExecuteClientMessage, read, early, done
<1>10. Right(r)
  <2> HIDE DEF Right
  <2> QED BY <1>2, <1>4, <1>6, <1>8, <1>9
<1> QED BY <1>10

LEMMA MessageStep ==
  ASSUME IInv, NEW m \in toServer, SV_ExecuteClientMessage(m)
  PROVE  IInv'
<1>1. sv' \in ExecuteClientMessage(sv, m) /\ toServer' = {}
      /\ toClient' = toClient /\ cl' = cl
  BY DEF SV_ExecuteClientMessage
<1>2. toClient \in Seq(MessageType) /\ Inv(sv, toClient \o sv.unsent, toServer, cl)
  BY Parts DEF Flight
<1>3. Inv(sv', toClient \o sv'.unsent, toServer, cl) BY <1>1, <1>2, MessageExecuted
<1>4. Inv(sv', toClient \o sv'.unsent, {}, cl) BY <1>3, PacketGone
<1> QED BY <1>1, <1>2, <1>4 DEF IInv, Flight

LEMMA SnapshotStep ==
  ASSUME IInv, SV_SendClientSnapshot
  PROVE  IInv'
<1> DEFINE m == [ sequence |-> sv.outgoingSequence, gamestate |-> FALSE, map |-> 0,
                  configstrings |-> NoStrings, reliableSequence |-> Len(sv.commands) ]
           r == [sv EXCEPT !.outgoingSequence = @ + 1]
<1>1. /\ sv.unsent = <<>> /\ toClient' = Append(toClient, m) /\ sv' = r
      /\ toServer' = toServer /\ cl' = cl
  BY DEF SV_SendClientSnapshot
<1>2. /\ sv \in ServerType /\ sv.outgoingSequence \in Nat /\ Len(sv.commands) \in Nat
      /\ toClient \in Seq(MessageType) /\ Inv(sv, Flight, toServer, cl)
  BY Parts
<1>3. m \in MessageType
  <2>1. NoStrings \in StringsType BY DEF NoStrings, StringsType
  <2> QED BY <1>2, <2>1 DEF MessageType
<1>4. /\ m.sequence = sv.outgoingSequence /\ ~m.gamestate
      /\ m.reliableSequence = Len(sv.commands)
  OBVIOUS
<1> HIDE DEF m
<1>5. r.unsent = sv.unsent BY <1>2 DEF ServerType
<1>6. Flight = toClient BY <1>1, <1>2, ConcatEmptySeq DEF Flight
<1>7. Append(toClient, m) \in Seq(MessageType) BY <1>2, <1>3, Appended
<1>8. Append(toClient, m) \o r.unsent = Append(toClient, m)
  BY <1>1, <1>5, <1>7, ConcatEmptySeq
<1>9. Inv(r, Append(toClient, m), toServer, cl)
  BY <1>1, <1>2, <1>3, <1>4, <1>6, SnapshotSent
<1> HIDE DEF r
<1>10. Flight' = Append(toClient, m) BY <1>1, <1>8 DEF Flight
<1>11. toServer \in SUBSET PacketType BY DEF IInv
<1>12. Inv(sv', Flight', toServer', cl') BY <1>1, <1>9, <1>10
<1> QED BY <1>1, <1>7, <1>11, <1>12 DEF IInv

LEMMA FragmentStep ==
  ASSUME IInv, SV_Netchan_TransmitNextFragment
  PROVE  IInv'
<1>1. /\ sv.unsent # <<>> /\ toClient' = Append(toClient, Head(sv.unsent))
      /\ sv' = [sv EXCEPT !.unsent = Tail(@), !.outgoingSequence = @ + 1]
      /\ toServer' = toServer /\ cl' = cl
  BY DEF SV_Netchan_TransmitNextFragment
<1>2. /\ sv \in ServerType /\ sv.outgoingSequence \in Nat
      /\ sv.unsent \in Seq(MessageType)
      /\ toClient \in Seq(MessageType) /\ Inv(sv, Flight, toServer, cl)
      /\ Types(sv, Flight, toServer, cl)
  BY Parts
<1>3. /\ Tail(sv.unsent) \in Seq(MessageType) /\ Len(Tail(sv.unsent)) = Len(sv.unsent) - 1
      /\ Len(sv.unsent) \in Nat /\ Head(sv.unsent) \in MessageType
  BY <1>1, <1>2, Tailed
<1>4. sv.outgoingSequence + 1 \in Nat BY <1>2
<1>5. /\ sv' \in ServerType
      /\ sv'.map = sv.map /\ sv'.serverId = sv.serverId
      /\ sv'.configstrings = sv.configstrings
      /\ sv'.commands = sv.commands /\ sv'.csUpdated = sv.csUpdated
      /\ sv'.unconfirmed = sv.unconfirmed
      /\ sv'.gamestateMessageNum = sv.gamestateMessageNum
      /\ sv'.outgoingSequence = sv.outgoingSequence + 1 /\ sv'.unsent = Tail(sv.unsent)
      /\ sv'.reliableAcknowledge = sv.reliableAcknowledge
      /\ sv'.lastClientCommand = sv.lastClientCommand
      /\ sv'.gamestateAck = sv.gamestateAck /\ sv'.state = sv.state
  BY <1>1, <1>2, <1>3, <1>4 DEF ServerType
<1>6. NextSequence(sv') = NextSequence(sv) /\ sv.outgoingSequence <= sv'.outgoingSequence
  <2>1. Len(sv'.unsent) = Len(sv.unsent) - 1 BY <1>3, <1>5
  <2> QED BY <1>2, <1>3, <1>5, <2>1 DEF NextSequence
<1>7. /\ sv'.reliableAcknowledge <= Len(sv.commands)
      /\ sv'.lastClientCommand <= Len(cl.commands)
  BY <1>2, <1>5 DEF Types
<1>8. Inv(sv', Flight, toServer, cl) BY <1>2, <1>5, <1>6, <1>7, ServerMoves
<1>9. Flight' = Flight BY <1>1, <1>2, <1>5, RowMoved DEF Flight
<1>10. toClient' \in Seq(MessageType) BY <1>1, <1>2, <1>3, Appended
<1>11. Inv(sv', Flight', toServer', cl') BY <1>1, <1>8, <1>9
<1>12. toServer \in SUBSET PacketType BY DEF IInv
<1> QED BY <1>1, <1>10, <1>11, <1>12 DEF IInv

-----------------------------------------------------------------------------
(* The steps of the client *)

\* What the first message on its way is.
LEMMA FirstMessage ==
  ASSUME NEW s, NEW f, NEW p, NEW c, Inv(s, f, p, c), f # <<>>
  PROVE  /\ Len(f) \in Nat /\ Len(f) > 0 /\ 1 \in 1 .. Len(f)
         /\ f[1] \in MessageType /\ f[1].sequence \in Nat /\ f[1].gamestate \in BOOLEAN
         /\ f[1].map \in Nat /\ f[1].configstrings \in StringsType
         /\ f[1].reliableSequence \in Nat
         /\ c.serverMessageSequence < f[1].sequence
         /\ f[1].sequence + Len(f) = NextSequence(s)
         /\ c.serverCommandSequence <= f[1].reliableSequence
         /\ f[1].reliableSequence <= Len(s.commands)
<1>1. Types(s, f, p, c) /\ Numbered(s, f, c) BY DEF Inv
<1>2. f \in Seq(MessageType) BY <1>1 DEF Types
<1>3. Len(f) \in Nat /\ Len(f) > 0 /\ 1 \in 1 .. Len(f)
  <2>1. Len(f) \in Nat /\ Len(f) > 0 BY <1>2, Tailed
  <2> QED BY <2>1
<1>4. /\ f[1] \in MessageType /\ f[1].sequence \in Nat /\ f[1].gamestate \in BOOLEAN
      /\ f[1].map \in Nat /\ f[1].configstrings \in StringsType
      /\ f[1].reliableSequence \in Nat
      /\ NextSequence(s) \in Nat /\ c.serverMessageSequence \in Nat
  BY <1>1, <1>3, Basics
<1>5. /\ f[1].sequence + Len(f) + 1 = NextSequence(s) + 1
      /\ c.serverMessageSequence + Len(f) < NextSequence(s)
      /\ c.serverCommandSequence <= f[1].reliableSequence
      /\ f[1].reliableSequence <= Len(s.commands)
  BY <1>1, <1>3 DEF Numbered
<1>6. ASSUME NEW q \in Nat, NEW l \in Nat, NEW n \in Nat, NEW e \in Nat,
             q + l + 1 = n + 1, e + l < n
      PROVE  q + l = n /\ e < q
  BY <1>6
<1>7. f[1].sequence + Len(f) = NextSequence(s) /\ c.serverMessageSequence < f[1].sequence
  BY <1>3, <1>4, <1>5, <1>6
<1> QED BY <1>3, <1>4, <1>5, <1>7

\* The client reads a message; if it is a gamestate, it loads that.
LEMMA MessageRead ==
  ASSUME NEW s, NEW f, NEW p, NEW c, Inv(s, f, p, c), f # <<>>,
         NEW d \in ClientType,
         d.serverMessageSequence = f[1].sequence,
         d.serverCommandSequence = f[1].reliableSequence,
         d.lastExecuted = c.lastExecuted, Len(c.commands) <= Len(d.commands),
         \/ /\ ~f[1].gamestate
            /\ d.map = c.map /\ d.configstrings = c.configstrings
            /\ d.overtaken = c.overtaken
         \/ /\ f[1].gamestate
            /\ d.map = f[1].map /\ d.configstrings = f[1].configstrings
            /\ \A k \in c.lastExecuted + 1 .. f[1].reliableSequence :
                 s.commands[k].index \in d.overtaken
  PROVE  Inv(s, Tail(f), p, d)
<1> DEFINE g == Tail(f)
<1>1. /\ Types(s, f, p, c) /\ Numbered(s, f, c) /\ OnTheWay(s, f, c)
      /\ IdsKnown(s, f, p, c) /\ StringsTold(s, f, p, c)
  BY DEF Inv
<1>2. /\ Types(s, g, p, c) /\ Numbered(s, g, c) /\ OnTheWay(s, g, c)
      /\ IdsKnown(s, g, p, c) /\ StringsTold(s, g, p, c)
  BY FirstGone DEF Inv
<1>3. /\ Len(f) \in Nat /\ Len(f) > 0 /\ 1 \in 1 .. Len(f)
      /\ f[1] \in MessageType /\ f[1].sequence \in Nat /\ f[1].gamestate \in BOOLEAN
      /\ f[1].map \in Nat /\ f[1].configstrings \in StringsType
      /\ f[1].reliableSequence \in Nat
      /\ c.serverMessageSequence < f[1].sequence
      /\ f[1].sequence + Len(f) = NextSequence(s)
      /\ c.serverCommandSequence <= f[1].reliableSequence
      /\ f[1].reliableSequence <= Len(s.commands)
  BY FirstMessage
<1>4. /\ s.map \in Nat /\ c.map \in Nat /\ NextSequence(s) \in Nat
      /\ c.serverMessageSequence \in Nat /\ c.serverCommandSequence \in Nat
      /\ c.lastExecuted \in Nat /\ Len(s.commands) \in Nat /\ Len(c.commands) \in Nat
      /\ s.gamestateMessageNum \in Int
  BY <1>1, Basics
<1>5. /\ Len(g) = Len(f) - 1
      /\ \A n \in 1 .. Len(g) : n + 1 \in 1 .. Len(f) /\ g[n] = f[n + 1]
  <2>1. f \in Seq(MessageType) BY <1>1 DEF Types
  <2> QED BY <2>1, Tailed
<1> HIDE DEF g
<1>6. /\ d.map \in Nat /\ d.serverMessageSequence \in Nat /\ Len(d.commands) \in Nat
  <2>1. d.commands \in Seq(ClientCommand) /\ d.map \in Nat /\ d.serverMessageSequence \in Nat
    BY DEF ClientType
  <2> QED BY <2>1, LenProperties
<1>7. c.map <= d.map /\ d.map <= s.map
  <2>1. c.map <= s.map BY <1>1 DEF OnTheWay
  <2>2. f[1].gamestate => c.map <= f[1].map /\ f[1].map <= s.map
    BY <1>1, <1>3 DEF OnTheWay
  <2> QED BY <1>3, <1>4, <2>1, <2>2
<1>8. c.map = s.map => d.map = s.map BY <1>4, <1>6, <1>7
<1>9. Types(s, g, p, d)
  <2>1. /\ s.lastClientCommand <= Len(c.commands) /\ s.lastClientCommand \in Nat
        /\ \A m \in p : /\ m.messageAcknowledge <= c.serverMessageSequence
                        /\ Len(m.commands) <= Len(c.commands)
                        /\ m.messageAcknowledge \in Nat /\ m.commands \in Seq(ClientCommand)
    BY <1>1 DEF Types, ServerType, PacketType
  <2>2. \A m \in p : Len(m.commands) \in Nat BY <2>1, LenProperties
  <2>3. ASSUME NEW m \in p
        PROVE  /\ m.messageAcknowledge <= d.serverMessageSequence
               /\ Len(m.commands) <= Len(d.commands)
    <3>1. /\ m.messageAcknowledge \in Nat /\ Len(m.commands) \in Nat
          /\ m.messageAcknowledge <= c.serverMessageSequence
          /\ Len(m.commands) <= Len(c.commands)
      BY <2>1, <2>2
    <3>2. ASSUME NEW a \in Nat, NEW b \in Nat, NEW e \in Nat, a <= b, b <= e PROVE a <= e
      BY <3>2
    <3>3. c.serverMessageSequence <= d.serverMessageSequence BY <1>3, <1>4
    <3> QED BY <1>4, <1>6, <3>1, <3>2, <3>3
  <2>4. s.lastClientCommand <= Len(d.commands) BY <1>4, <1>6, <2>1
  <2> QED BY <1>2, <2>3, <2>4 DEF Types
<1>10. Numbered(s, g, d)
  <2>1. c.lastExecuted <= c.serverCommandSequence BY <1>1 DEF Numbered
  <2>2. d.lastExecuted <= d.serverCommandSequence BY <1>3, <1>4, <2>1
  <2>3. ASSUME NEW q \in Nat, NEW l \in Nat, NEW n \in Nat, q + l = n
        PROVE  q + (l - 1) < n
    BY <2>3
  <2>4. d.serverMessageSequence + Len(g) < NextSequence(s)
    BY <1>3, <1>4, <1>5, <2>3
  <2>5. ASSUME NEW i \in 1 .. Len(g)
        PROVE  d.serverCommandSequence <= g[i].reliableSequence
    <3>1. i + 1 \in 1 .. Len(f) /\ g[i] = f[i + 1] BY <1>5
    <3> QED BY <1>1, <1>3, <3>1 DEF Numbered
  <2> QED BY <1>2, <1>3, <2>2, <2>4, <2>5 DEF Numbered
<1>11. OnTheWay(s, g, d)
  <2>1. ASSUME NEW i \in 1 .. Len(g), g[i].gamestate PROVE d.map <= g[i].map
    <3>1. i + 1 \in 1 .. Len(f) /\ g[i] = f[i + 1] BY <1>5
    <3> QED BY <1>1, <1>2, <1>3, <2>1, <3>1 DEF OnTheWay
  <2>2. s.gamestateAck = GSA_INIT => d.map < s.map BY <1>1, <1>3 DEF OnTheWay
  <2>3. s.gamestateAck = GSA_ACKED => d.map = s.map BY <1>1, <1>8 DEF OnTheWay
  <2> QED BY <1>2, <1>7, <2>1, <2>2, <2>3 DEF OnTheWay
<1>12. IdsKnown(s, g, p, d)
  <2>1. ASSUME NEW id, Knows(s, id, c.map) PROVE Knows(s, id, d.map)
    BY <1>8, <2>1 DEF Knows
  <2>2. Knows(s, ServerId(d), d.map)
    <3>1. CASE f[1].gamestate BY <1>1, <1>3, <3>1 DEF IdsKnown, ServerId
    <3>2. CASE ~f[1].gamestate BY <1>1, <1>3, <3>2 DEF IdsKnown, ServerId
    <3> QED BY <3>1, <3>2
  <2> QED BY <1>2, <2>1, <2>2 DEF IdsKnown
<1>13. \A m \in p : m.messageAcknowledge \in Int
                    /\ m.messageAcknowledge <= c.serverMessageSequence
  BY <1>1 DEF Types, PacketType
<1>14. StringsTold(s, g, p, d)
  <2>1. SUFFICES ASSUME d.map = s.map, MayAcknowledge(s, p, d)
                 PROVE  Agrees(s, d.configstrings, d.lastExecuted, d.overtaken)
    BY <1>2 DEF StringsTold
  <2>2. CASE ~f[1].gamestate
    <3>1. f[1].sequence # s.gamestateMessageNum BY <1>1, <1>3, <2>2 DEF Numbered
    <3>2. MayAcknowledge(s, p, c) BY <2>1, <3>1 DEF MayAcknowledge
    <3>3. Agrees(s, c.configstrings, c.lastExecuted, c.overtaken)
      BY <1>1, <2>1, <2>2, <3>2 DEF StringsTold
    <3> QED BY <2>2, <3>3
  <2>3. CASE f[1].gamestate
    <3>1. Counts(s, f[1].sequence)
      BY <1>3, <1>4, <1>13, <2>1 DEF Counts, MayAcknowledge
    <3> DEFINE n == f[1].reliableSequence
               l == c.lastExecuted
               L == Len(s.commands)
    <3>2. Agrees(s, d.configstrings, n, {})
      BY <1>1, <1>3, <2>1, <2>3, <3>1 DEF StringsTold
    <3>3. l \in Nat /\ n \in Nat /\ L \in Nat /\ l <= n
      <4>1. c.lastExecuted <= c.serverCommandSequence BY <1>1 DEF Numbered
      <4> QED BY <1>3, <1>4, <4>1
    <3>4. \A k \in l + 1 .. n : s.commands[k].index \in d.overtaken BY <2>3
    <3> HIDE DEF n, l, L
    <3>5. ASSUME NEW i \in Indices \ (s.csUpdated \cup s.unconfirmed \cup d.overtaken)
          PROVE  Reaches(s, d.configstrings, l, i)
      <4>1. Reaches(s, d.configstrings, n, i) BY <3>2, <3>5 DEF Agrees
      <4>2. \A k \in n + 1 .. L : k \in l + 1 .. L BY <3>3
      <4>3. \A k \in l + 1 .. L : k \in l + 1 .. n \/ k \in n + 1 .. L BY <3>3
      <4>4. \A k \in l + 1 .. L : s.commands[k].index = i => k \in n + 1 .. L
        BY <3>4, <3>5, <4>3
      <4> QED BY <4>1, <4>2, <4>4 DEF Reaches, L
    <3>6. Agrees(s, d.configstrings, l, d.overtaken) BY <3>5 DEF Agrees
    <3> QED BY <3>6 DEF l
  <2> QED BY <1>3, <2>2, <2>3
<1> QED BY <1>9, <1>10, <1>11, <1>12, <1>14 DEF Inv, g

\* The client goes on: it asks for something, or its game starts.
LEMMA ClientMoves ==
  ASSUME NEW s, NEW f, NEW p, NEW c, Inv(s, f, p, c), NEW d \in ClientType,
         d.map = c.map, d.configstrings = c.configstrings,
         d.serverMessageSequence = c.serverMessageSequence,
         d.serverCommandSequence = c.serverCommandSequence,
         d.lastExecuted = c.lastExecuted, d.overtaken = c.overtaken,
         Len(c.commands) <= Len(d.commands)
  PROVE  Inv(s, f, p, d)
<1>1. /\ Types(s, f, p, c) /\ Numbered(s, f, c) /\ OnTheWay(s, f, c)
      /\ IdsKnown(s, f, p, c) /\ StringsTold(s, f, p, c)
  BY DEF Inv
<1>2. Types(s, f, p, d)
  <2>1. Len(c.commands) \in Nat /\ Len(d.commands) \in Nat
    <3>1. c.commands \in Seq(ClientCommand) /\ d.commands \in Seq(ClientCommand)
      BY <1>1 DEF Types, ClientType
    <3> QED BY <3>1, LenProperties
  <2>2. s.lastClientCommand \in Nat /\ s.lastClientCommand <= Len(c.commands)
    BY <1>1 DEF Types, ServerType
  <2>3. ASSUME NEW m \in p PROVE Len(m.commands) <= Len(d.commands)
    <3>1. m.commands \in Seq(ClientCommand) /\ Len(m.commands) <= Len(c.commands)
      BY <1>1 DEF Types, PacketType
    <3>2. Len(m.commands) \in Nat BY <3>1, LenProperties
    <3> QED BY <2>1, <3>1, <3>2
  <2>4. s.lastClientCommand <= Len(d.commands) BY <2>1, <2>2
  <2> QED BY <1>1, <2>3, <2>4 DEF Types
<1>3. Numbered(s, f, d) BY <1>1 DEF Numbered
<1>4. OnTheWay(s, f, d) BY <1>1 DEF OnTheWay
<1>5. IdsKnown(s, f, p, d) BY <1>1 DEF IdsKnown, ServerId
<1>6. StringsTold(s, f, p, d) BY <1>1 DEF StringsTold, MayAcknowledge
<1> QED BY <1>2, <1>3, <1>4, <1>5, <1>6 DEF Inv

\* The next command: it sets a string, and is no longer to come.
LEMMA CommandRead ==
  ASSUME NEW s, NEW f, NEW p, NEW c, Inv(s, f, p, c),
         NEW n, n = c.lastExecuted + 1, n <= c.serverCommandSequence,
         NEW d, d = [c EXCEPT !.lastExecuted = n,
                              !.configstrings[s.commands[n].index] = s.commands[n].value]
  PROVE  Inv(s, f, p, d)
<1> DEFINE cs == s.commands[n]
           L == Len(s.commands)
           strings == [c.configstrings EXCEPT ![cs.index] = cs.value]
<1>1. /\ Types(s, f, p, c) /\ Numbered(s, f, c) /\ OnTheWay(s, f, c)
      /\ IdsKnown(s, f, p, c) /\ StringsTold(s, f, p, c)
  BY DEF Inv
<1>2. /\ c.lastExecuted \in Nat /\ c.serverCommandSequence \in Nat /\ L \in Nat
      /\ c.serverCommandSequence <= L
      /\ s.commands \in Seq([index : Indices, value : Nat])
      /\ c \in ClientType /\ c.configstrings \in StringsType
  BY <1>1, Basics DEF Types, Numbered
<1>3. n \in 1 .. L /\ n \in Nat /\ n - 1 = c.lastExecuted BY <1>2
<1>4. cs.index \in Indices /\ cs.value \in Nat
  <2>1. cs \in [index : Indices, value : Nat] BY <1>2, <1>3, ElementOfSeq
  <2> QED BY <2>1
<1> HIDE DEF cs
<1>5. /\ strings \in StringsType /\ strings[cs.index] = cs.value
      /\ \A i \in Indices \ {cs.index} : strings[i] = c.configstrings[i]
  BY <1>2, <1>4 DEF StringsType
<1>6. d = [c EXCEPT !.lastExecuted = n, !.configstrings = strings]
  BY <1>2 DEF ClientType, cs
<1> HIDE DEF strings, L
<1>7. /\ d \in ClientType /\ d.map = c.map /\ d.configstrings = strings
      /\ d.serverMessageSequence = c.serverMessageSequence
      /\ d.serverCommandSequence = c.serverCommandSequence
      /\ d.lastExecuted = n /\ d.overtaken = c.overtaken /\ d.commands = c.commands
  BY <1>2, <1>3, <1>5, <1>6 DEF ClientType
<1>8. Types(s, f, p, d) BY <1>1, <1>7 DEF Types
<1>9. Numbered(s, f, d) BY <1>1, <1>7 DEF Numbered
<1>10. OnTheWay(s, f, d) BY <1>1, <1>7 DEF OnTheWay
<1>11. IdsKnown(s, f, p, d)
  <2>1. Knows(s, ServerId(d), d.map)
    <3>1. CASE cs.index = CS_SYSTEMINFO
      <4>1. Knows(s, cs.value, c.map) BY <1>1, <1>3, <3>1 DEF IdsKnown, cs, L
      <4> QED BY <1>5, <1>7, <3>1, <4>1 DEF ServerId
    <3>2. CASE cs.index # CS_SYSTEMINFO
      <4>1. strings[CS_SYSTEMINFO] = c.configstrings[CS_SYSTEMINFO]
        BY <1>5, <3>2, GamestateAssumption
      <4> QED BY <1>1, <1>7, <4>1 DEF ServerId, IdsKnown
    <3> QED BY <3>1, <3>2
  <2> QED BY <1>1, <1>7, <2>1 DEF IdsKnown
<1>12. StringsTold(s, f, p, d)
  <2>1. SUFFICES ASSUME d.map = s.map, MayAcknowledge(s, p, d)
                 PROVE  Agrees(s, d.configstrings, d.lastExecuted, d.overtaken)
    BY <1>1 DEF StringsTold
  <2>2. Agrees(s, c.configstrings, c.lastExecuted, c.overtaken)
    BY <1>1, <1>7, <2>1 DEF StringsTold, MayAcknowledge
  <2>3. ASSUME NEW i \in Indices, Reaches(s, c.configstrings, c.lastExecuted, i)
        PROVE  Reaches(s, strings, n, i)
    <3>1. \A k \in n .. L : k \in c.lastExecuted + 1 .. L BY <1>3
    <3>2. \A k \in n + 1 .. L : k \in n .. L BY <1>2, <1>3
    <3>3. n \in n .. L /\ \A k \in n .. L : k = n \/ k \in n + 1 .. L BY <1>2, <1>3
    <3>4. ASSUME \A k \in n + 1 .. L : s.commands[k].index # i
          PROVE  strings[i] = s.configstrings[i]
      <4>1. CASE cs.index = i
        <5>1. s.commands[n].value = s.configstrings[i]
          BY <2>3, <3>1, <3>3, <3>4, <4>1 DEF Reaches, cs, L
        <5> QED BY <1>5, <4>1, <5>1 DEF cs
      <4>2. CASE cs.index # i
        <5>1. \A k \in c.lastExecuted + 1 .. L : s.commands[k].index # i
          <6>1. \A k \in n .. L : s.commands[k].index # i BY <3>3, <3>4, <4>2 DEF cs
          <6> QED BY <6>1
        <5>2. c.configstrings[i] = s.configstrings[i] BY <2>3, <5>1 DEF Reaches, L
        <5> QED BY <1>5, <4>2, <5>2
      <4> QED BY <4>1, <4>2
    <3>5. ASSUME NEW k \in n + 1 .. L, s.commands[k].index = i,
                 \A j \in k + 1 .. L : s.commands[j].index # i
          PROVE  s.commands[k].value = s.configstrings[i]
      BY <2>3, <3>1, <3>2, <3>5 DEF Reaches, L
    <3> QED BY <3>4, <3>5 DEF Reaches, L
  <2> QED BY <1>7, <2>2, <2>3 DEF Agrees
<1> QED BY <1>8, <1>9, <1>10, <1>11, <1>12 DEF Inv

\* A packet tells what the client has got.
LEMMA PacketWritten ==
  ASSUME NEW s, NEW f, NEW p, NEW c, Inv(s, f, p, c), NEW move \in BOOLEAN
  PROVE  LET m == [ serverId |-> ServerId(c),
                    messageAcknowledge |-> c.serverMessageSequence,
                    reliableAcknowledge |-> c.serverCommandSequence,
                    commands |-> c.commands, move |-> move ]
         IN  {m} \in SUBSET PacketType /\ Inv(s, f, {m}, c)
<1> DEFINE m == [ serverId |-> ServerId(c),
                  messageAcknowledge |-> c.serverMessageSequence,
                  reliableAcknowledge |-> c.serverCommandSequence,
                  commands |-> c.commands, move |-> move ]
<1>1. /\ Types(s, f, p, c) /\ Numbered(s, f, c) /\ OnTheWay(s, f, c)
      /\ IdsKnown(s, f, p, c) /\ StringsTold(s, f, p, c)
  BY DEF Inv
<1>2. /\ c.serverMessageSequence \in Nat /\ c.serverCommandSequence \in Nat
      /\ c.configstrings \in StringsType /\ Len(c.commands) \in Nat
      /\ c.commands \in Seq(ClientCommand)
  BY <1>1, Basics DEF Types, ClientType
<1>3. ServerId(c) \in Nat BY <1>2, GamestateAssumption DEF StringsType, ServerId
<1>4. /\ m \in PacketType
      /\ m.serverId = ServerId(c) /\ m.messageAcknowledge = c.serverMessageSequence
      /\ m.reliableAcknowledge = c.serverCommandSequence /\ m.commands = c.commands
  BY <1>2, <1>3 DEF PacketType
<1> HIDE DEF m
<1>5. Types(s, f, {m}, c)
  <2>1. m.messageAcknowledge <= c.serverMessageSequence /\ Len(m.commands) <= Len(c.commands)
    BY <1>2, <1>4
  <2>2. m.reliableAcknowledge <= Len(s.commands) BY <1>1, <1>4 DEF Numbered
  <2> QED BY <1>1, <1>4, <2>1, <2>2 DEF Types
<1>6. IdsKnown(s, f, {m}, c) BY <1>1, <1>4 DEF IdsKnown
<1>7. StringsTold(s, f, {m}, c)
  <2>1. MayAcknowledge(s, {m}, c) => MayAcknowledge(s, p, c) BY <1>4 DEF MayAcknowledge
  <2> QED BY <1>1, <2>1 DEF StringsTold
<1> QED BY <1>1, <1>4, <1>5, <1>6, <1>7 DEF Inv, m

LEMMA ReadStep ==
  ASSUME IInv, CL_ParseServerMessage
  PROVE  IInv'
<1> DEFINE m == Head(toClient)
           c == [cl EXCEPT !.serverMessageSequence = m.sequence,
                           !.serverCommandSequence = m.reliableSequence]
           overtaken == {sv.commands[k].index : k \in cl.lastExecuted + 1 .. m.reliableSequence}
           commands(download) == IF download THEN Append(cl.commands, "download")
                                 ELSE cl.commands
<1>1. /\ toClient # <<>> /\ toClient' = Tail(toClient) /\ sv' = sv /\ toServer' = toServer
      /\ \/ ~m.gamestate /\ cl' = c
         \/ m.gamestate /\ \E download \in BOOLEAN : cl' = ParseGamestate(c, m, download)
  BY DEF CL_ParseServerMessage
<1>2. /\ sv \in ServerType /\ cl \in ClientType
      /\ toClient \in Seq(MessageType) /\ sv.unsent \in Seq(MessageType)
      /\ Inv(sv, Flight, toServer, cl) /\ Types(sv, Flight, toServer, cl)
  BY Parts
<1>3. /\ Flight # <<>> /\ Flight[1] = m /\ Tail(toClient) \o sv.unsent = Tail(Flight)
      /\ Tail(toClient) \in Seq(MessageType)
  BY <1>1, <1>2, RowTailed, Tailed DEF Flight
<1>4. /\ m.sequence \in Nat /\ m.gamestate \in BOOLEAN /\ m.map \in Nat
      /\ m.configstrings \in StringsType /\ m.reliableSequence \in Nat
      /\ m.reliableSequence <= Len(sv.commands)
  BY <1>2, <1>3, FirstMessage
<1>5. /\ cl.lastExecuted \in Nat /\ cl.commands \in Seq(ClientCommand)
      /\ Len(cl.commands) \in Nat /\ Len(sv.commands) \in Nat
      /\ sv.commands \in Seq([index : Indices, value : Nat])
  BY <1>2, Basics DEF ClientType
<1> HIDE DEF m
<1>6. /\ cl' \in ClientType
      /\ cl'.serverMessageSequence = m.sequence
      /\ cl'.serverCommandSequence = m.reliableSequence
      /\ cl'.lastExecuted = cl.lastExecuted /\ Len(cl.commands) <= Len(cl'.commands)
      /\ \/ /\ ~m.gamestate
            /\ cl'.map = cl.map /\ cl'.configstrings = cl.configstrings
            /\ cl'.overtaken = cl.overtaken
         \/ /\ m.gamestate
            /\ cl'.map = m.map /\ cl'.configstrings = m.configstrings
            /\ cl'.overtaken = overtaken
  <2>1. CASE ~m.gamestate /\ cl' = c
    <3>1. /\ cl' \in ClientType
          /\ cl'.serverMessageSequence = m.sequence
          /\ cl'.serverCommandSequence = m.reliableSequence
          /\ cl'.lastExecuted = cl.lastExecuted /\ cl'.commands = cl.commands
          /\ cl'.map = cl.map /\ cl'.configstrings = cl.configstrings
          /\ cl'.overtaken = cl.overtaken
      BY <1>2, <1>4, <2>1 DEF ClientType
    <3> QED BY <1>5, <2>1, <3>1
  <2>2. CASE m.gamestate /\ \E download \in BOOLEAN : cl' = ParseGamestate(c, m, download)
    <3>1. PICK download \in BOOLEAN : cl' = ParseGamestate(c, m, download) BY <2>2
    <3>2. commands(download) \in Seq(ClientCommand)
          /\ Len(cl.commands) <= Len(commands(download))
      <4>1. "download" \in ClientCommand BY DEF ClientCommand
      <4>2. CASE download BY <1>5, <4>1, <4>2, Appended
      <4>3. CASE ~download BY <1>5, <4>3
      <4> QED BY <4>2, <4>3
    <3>3. overtaken \subseteq Indices
      <4>1. ASSUME NEW k \in cl.lastExecuted + 1 .. m.reliableSequence
            PROVE  sv.commands[k].index \in Indices
        <5>1. k \in 1 .. Len(sv.commands) BY <1>4, <1>5
        <5>2. sv.commands[k] \in [index : Indices, value : Nat] BY <1>5, <5>1, ElementOfSeq
        <5> QED BY <5>2
      <4> QED BY <4>1
    <3>4. cl' = [cl EXCEPT !.serverMessageSequence = m.sequence,
                           !.serverCommandSequence = m.reliableSequence,
                           !.map = m.map, !.configstrings = m.configstrings,
                           !.loaded = ~download, !.downloading = download,
                           !.commands = commands(download), !.overtaken = overtaken]
      BY <1>2, <3>1 DEF ParseGamestate, ClientType
    <3> HIDE DEF overtaken, commands
    <3>5. /\ cl' \in ClientType
          /\ cl'.serverMessageSequence = m.sequence
          /\ cl'.serverCommandSequence = m.reliableSequence
          /\ cl'.lastExecuted = cl.lastExecuted /\ cl'.commands = commands(download)
          /\ cl'.map = m.map /\ cl'.configstrings = m.configstrings
          /\ cl'.overtaken = overtaken
      BY <1>2, <1>4, <3>2, <3>3, <3>4 DEF ClientType
    <3> QED BY <2>2, <3>2, <3>5
  <2> QED BY <1>1, <2>1, <2>2
<1>7. \A k \in cl.lastExecuted + 1 .. m.reliableSequence : sv.commands[k].index \in overtaken
  OBVIOUS
<1> HIDE DEF overtaken
<1>8. Inv(sv, Tail(Flight), toServer, cl')
  BY <1>2, <1>3, <1>6, <1>7, MessageRead
<1>9. Flight' = Tail(Flight) BY <1>1, <1>3 DEF Flight
<1>10. toServer \in SUBSET PacketType BY DEF IInv
<1>11. Inv(sv', Flight', toServer', cl') BY <1>1, <1>8, <1>9
<1> QED BY <1>1, <1>3, <1>10, <1>11 DEF IInv

LEMMA LoseStep ==
  ASSUME IInv, LoseMessage
  PROVE  IInv'
<1>1. /\ toClient # <<>> /\ toClient' = Tail(toClient)
      /\ sv' = sv /\ toServer' = toServer /\ cl' = cl
  BY DEF LoseMessage
<1>2. /\ toClient \in Seq(MessageType) /\ sv.unsent \in Seq(MessageType)
      /\ Inv(sv, Flight, toServer, cl)
  BY Parts
<1>3. /\ Flight # <<>> /\ Tail(toClient) \o sv.unsent = Tail(Flight)
      /\ Tail(toClient) \in Seq(MessageType)
  BY <1>1, <1>2, RowTailed, Tailed DEF Flight
<1>4. Inv(sv, Tail(Flight), toServer, cl) BY <1>2, <1>3, FirstGone
<1>5. Flight' = Tail(Flight) BY <1>1, <1>3 DEF Flight
<1>6. toServer \in SUBSET PacketType BY DEF IInv
<1>7. Inv(sv', Flight', toServer', cl') BY <1>1, <1>4, <1>5
<1> QED BY <1>1, <1>3, <1>6, <1>7 DEF IInv

\* The other steps of the client do not touch the server or its messages.
LEMMA AskStep ==
  ASSUME IInv, CL_DownloadsComplete
  PROVE  IInv'
<1>1. /\ sv' = sv /\ toClient' = toClient /\ toServer' = toServer
      /\ cl' = [cl EXCEPT !.downloading = FALSE, !.commands = Append(@, "donedl")]
  BY DEF CL_DownloadsComplete
<1>2. cl \in ClientType /\ Inv(sv, Flight, toServer, cl) BY Parts
<1>3. cl.commands \in Seq(ClientCommand) /\ "donedl" \in ClientCommand
  BY <1>2 DEF ClientType, ClientCommand
<1>4. /\ Append(cl.commands, "donedl") \in Seq(ClientCommand)
      /\ Len(cl.commands) <= Len(Append(cl.commands, "donedl"))
  BY <1>3, Appended
<1>5. /\ cl' \in ClientType /\ cl'.map = cl.map /\ cl'.configstrings = cl.configstrings
      /\ cl'.serverMessageSequence = cl.serverMessageSequence
      /\ cl'.serverCommandSequence = cl.serverCommandSequence
      /\ cl'.lastExecuted = cl.lastExecuted /\ cl'.overtaken = cl.overtaken
      /\ cl'.commands = Append(cl.commands, "donedl")
  BY <1>1, <1>2, <1>4 DEF ClientType
<1>6. Inv(sv, Flight, toServer, cl') BY <1>2, <1>4, <1>5, ClientMoves
<1>7. Flight' = Flight BY <1>1 DEF Flight
<1>8. Inv(sv', Flight', toServer', cl') BY <1>1, <1>6, <1>7
<1> QED BY <1>1, <1>8 DEF IInv

LEMMA WriteStep ==
  ASSUME IInv, CL_WritePacket
  PROVE  IInv'
<1> DEFINE m == [ serverId |-> ServerId(cl),
                  messageAcknowledge |-> cl.serverMessageSequence,
                  reliableAcknowledge |-> cl.serverCommandSequence,
                  commands |-> cl.commands, move |-> cl.loaded ]
<1>1. sv' = sv /\ toClient' = toClient /\ cl' = cl /\ toServer' = {m}
  BY DEF CL_WritePacket
<1>2. cl \in ClientType /\ Inv(sv, Flight, toServer, cl) BY Parts
<1>3. cl.loaded \in BOOLEAN BY <1>2 DEF ClientType
<1>4. {m} \in SUBSET PacketType /\ Inv(sv, Flight, {m}, cl)
  BY <1>2, <1>3, PacketWritten
<1> HIDE DEF m
<1>5. Flight' = Flight BY <1>1 DEF Flight
<1>6. Inv(sv', Flight', toServer', cl') BY <1>1, <1>4, <1>5
<1> QED BY <1>1, <1>4, <1>6 DEF IInv

LEMMA CommandStep ==
  ASSUME IInv, CL_GetServerCommand
  PROVE  IInv'
<1> DEFINE n == cl.lastExecuted + 1
<1>1. /\ n <= cl.serverCommandSequence
      /\ cl' = [cl EXCEPT !.lastExecuted = n,
                          !.configstrings[sv.commands[n].index] = sv.commands[n].value]
      /\ sv' = sv /\ toClient' = toClient /\ toServer' = toServer
  BY DEF CL_GetServerCommand
<1>2. Inv(sv, Flight, toServer, cl) BY Parts
<1>3. n = cl.lastExecuted + 1 OBVIOUS
<1> HIDE DEF n
<1>4. Inv(sv, Flight, toServer, cl') BY <1>1, <1>2, <1>3, CommandRead
<1>5. Flight' = Flight BY <1>1 DEF Flight
<1>6. Inv(sv', Flight', toServer', cl') BY <1>1, <1>4, <1>5
<1> QED BY <1>1, <1>6 DEF IInv

-----------------------------------------------------------------------------
(* The theorems *)

LEMMA Initial == Init => IInv
<1> SUFFICES ASSUME Init PROVE IInv
  OBVIOUS
<1>1. /\ NoStrings \in StringsType
      /\ [NoStrings EXCEPT ![CS_SYSTEMINFO] = 1] \in StringsType
      /\ [NoStrings EXCEPT ![CS_SYSTEMINFO] = 1][CS_SYSTEMINFO] = 1
      /\ NoStrings[CS_SYSTEMINFO] = 0
  BY GamestateAssumption DEF NoStrings, StringsType
<1>2. CS_CONNECTED \in States /\ GSA_INIT \in Acks BY DEF States, Acks
<1>3. sv \in ServerType BY <1>1, <1>2 DEF Init, ServerType
<1>4. cl \in ClientType BY <1>1 DEF Init, ClientType
<1>5. /\ toClient = <<>> /\ toServer = {} /\ sv.unsent = <<>> /\ sv.commands = <<>>
      /\ sv.serverId = 1 /\ sv.map = 1 /\ sv.configstrings[CS_SYSTEMINFO] = 1
      /\ sv.gamestateMessageNum = -1 /\ sv.outgoingSequence = 1
      /\ sv.reliableAcknowledge = 0 /\ sv.lastClientCommand = 0
      /\ sv.gamestateAck = GSA_INIT /\ sv.state = CS_CONNECTED
      /\ cl.map = 0 /\ ServerId(cl) = 0 /\ cl.serverMessageSequence = 0
      /\ cl.serverCommandSequence = 0 /\ cl.lastExecuted = 0 /\ cl.commands = <<>>
  BY <1>1 DEF Init, ServerId
<1>6. toClient \in Seq(MessageType) /\ Flight = <<>> /\ Len(<<>>) = 0
  BY <1>5, ConcatEmptySeq DEF Flight
<1>7. GSA_INIT # GSA_ACKED /\ CS_CONNECTED # CS_ACTIVE
  BY DEF GSA_INIT, GSA_ACKED, CS_CONNECTED, CS_ACTIVE
<1>8. 1 .. Len(<<>>) = {} BY <1>6
<1>9. Types(sv, Flight, toServer, cl) BY <1>3, <1>4, <1>5, <1>6 DEF Types
<1>10. Numbered(sv, Flight, cl) BY <1>5, <1>6, <1>8 DEF Numbered, NextSequence
<1>11. OnTheWay(sv, Flight, cl) BY <1>5, <1>6, <1>7, <1>8 DEF OnTheWay
<1>12. IdsKnown(sv, Flight, toServer, cl)
  BY <1>5, <1>6, <1>8 DEF IdsKnown, Knows
<1>13. StringsTold(sv, Flight, toServer, cl) BY <1>5, <1>6, <1>8 DEF StringsTold
<1> QED BY <1>5, <1>6, <1>9, <1>10, <1>11, <1>12, <1>13 DEF IInv, Inv

LEMMA Step == IInv /\ [Next]_vars => IInv'
<1> SUFFICES ASSUME IInv, [Next]_vars PROVE IInv'
  OBVIOUS
<1>1. ASSUME NEW i \in Indices, SV_SetConfigstring(i) PROVE IInv'
  BY <1>1, ConfigstringStep
<1>2. ASSUME NEW m \in toServer, SV_ExecuteClientMessage(m) PROVE IInv'
  BY <1>2, MessageStep
<1>3. CASE SV_SendClientSnapshot BY <1>3, SnapshotStep
<1>4. CASE SV_Netchan_TransmitNextFragment BY <1>4, FragmentStep
<1>5. CASE SV_SpawnServer BY <1>5, SpawnStep
<1>6. CASE SV_MapRestart_f BY <1>6, RestartStep
<1>7. CASE CL_ParseServerMessage BY <1>7, ReadStep
<1>8. CASE CL_DownloadsComplete BY <1>8, AskStep
<1>9. CASE CL_WritePacket BY <1>9, WriteStep
<1>10. CASE CL_GetServerCommand BY <1>10, CommandStep
<1>11. CASE LoseMessage BY <1>11, LoseStep
<1>12. CASE UNCHANGED vars BY <1>12 DEF vars, IInv, Flight
<1> QED
  BY <1>1, <1>2, <1>3, <1>4, <1>5, <1>6, <1>7, <1>8, <1>9, <1>10, <1>11, <1>12 DEF Next

\* The messages on their way, what the client has loaded and what it is told
\* after that always fit together.
THEOREM GamestateInvariant == Spec => []IInv
<1>1. Init => IInv BY Initial
<1>2. IInv /\ [Next]_vars => IInv' BY Step
<1> QED BY <1>1, <1>2, PTL DEF Spec

LEMMA WorldMeant == IInv => WorldInv
<1> SUFFICES ASSUME IInv PROVE WorldInv
  OBVIOUS
<1>1. /\ Types(sv, Flight, toServer, cl) /\ Numbered(sv, Flight, cl)
      /\ OnTheWay(sv, Flight, cl)
  BY DEF IInv, Inv
<1>2. /\ sv \in ServerType /\ cl \in ClientType /\ toClient \in Seq(MessageType)
  BY <1>1 DEF Types, IInv
<1>3. sv.map \in Nat /\ cl.map \in Nat /\ sv.serverId \in Nat /\ Len(sv.commands) \in Nat
      /\ Len(cl.commands) \in Nat
  BY <1>1, Basics
<1>4. sv.map <= sv.serverId /\ cl.map <= sv.map BY <1>1 DEF Types, OnTheWay
<1>5. {sv.map, cl.map} \subseteq 0 .. sv.serverId BY <1>3, <1>4
<1>6. /\ sv.serverId \in Nat /\ sv.configstrings \in StringsType /\ sv.state \in States
      /\ sv.gamestateAck \in Acks /\ sv.csUpdated \subseteq Indices
      /\ sv.unconfirmed \subseteq Indices
      /\ sv.commands \in Seq([index : Indices, value : Nat])
      /\ sv.unsent \in Seq(MessageType)
      /\ sv.reliableAcknowledge \in Nat /\ sv.lastClientCommand \in Nat
  BY <1>2 DEF ServerType
<1>7. sv.reliableAcknowledge <= Len(sv.commands) /\ sv.lastClientCommand <= Len(cl.commands)
      /\ sv.gamestateMessageNum \in -1 .. sv.outgoingSequence
  BY <1>1 DEF Types
<1>8. sv.reliableAcknowledge \in 0 .. Len(sv.commands)
      /\ sv.lastClientCommand \in 0 .. Len(cl.commands)
  BY <1>3, <1>6, <1>7
<1>9. cl.configstrings \in StringsType /\ cl.overtaken \subseteq Indices
      /\ cl.commands \in Seq({"download", "donedl"})
  BY <1>2 DEF ClientType, ClientCommand
<1>10. TypeOK BY <1>2, <1>5, <1>6, <1>7, <1>8, <1>9 DEF TypeOK, States, Acks
<1>11. PlaysTheMapItLoaded BY <1>1 DEF OnTheWay, PlaysTheMapItLoaded
<1> QED BY <1>10, <1>11 DEF WorldInv

LEMMA StringsMeant == IInv => ConfigstringsAgree
<1> SUFFICES ASSUME IInv, CaughtUp,
                    NEW i \in Indices \ (sv.unconfirmed \cup cl.overtaken)
             PROVE  cl.configstrings[i] = sv.configstrings[i]
  BY DEF ConfigstringsAgree
<1>1. /\ Types(sv, Flight, toServer, cl) /\ OnTheWay(sv, Flight, cl)
      /\ StringsTold(sv, Flight, toServer, cl)
  BY DEF IInv, Inv
<1>2. sv.state = CS_ACTIVE /\ cl.lastExecuted = Len(sv.commands) BY DEF CaughtUp, InWorld
<1>3. sv.gamestateAck = GSA_ACKED /\ sv.csUpdated = {} /\ cl.map = sv.map
  BY <1>1, <1>2 DEF OnTheWay
<1>4. MayAcknowledge(sv, toServer, cl)
  BY <1>3 DEF MayAcknowledge, GSA_ACKED, GSA_SENT_MANY
<1>5. Agrees(sv, cl.configstrings, cl.lastExecuted, cl.overtaken)
  BY <1>1, <1>3, <1>4 DEF StringsTold
<1>6. Reaches(sv, cl.configstrings, cl.lastExecuted, i) BY <1>3, <1>5 DEF Agrees
<1>7. cl.lastExecuted + 1 .. Len(sv.commands) = {}
  <2>1. Len(sv.commands) \in Nat BY <1>1, Basics
  <2> QED BY <1>2, <2>1
<1> QED BY <1>6, <1>7 DEF Reaches

\* No client plays in a map it has not loaded, whatever is acknowledged,
\* resent, downloaded or lost (SV_ExecuteClientMessage).
THEOREM WorldCorrect == Spec => []WorldInv
BY GamestateInvariant, WorldMeant, PTL

\* Whatever changes while a client is on its way into the world reaches it, but
\* for what ConfigstringsAgree excepts (SV_SetConfigstring, SV_SendGamestate,
\* SV_ClientEnterWorld).
THEOREM ConfigstringsReach == Spec => []ConfigstringsAgree
BY GamestateInvariant, StringsMeant, PTL

=============================================================================

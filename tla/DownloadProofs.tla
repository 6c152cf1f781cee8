--------------------------- MODULE DownloadProofs ----------------------------
(***************************************************************************)
(* What is not acknowledged keeps its buffer; and as long as nothing takes *)
(* longer than a second the client writes the files it asked for, and      *)
(* neither side gives up: for files of any length, any window and a ring   *)
(* of commands that is no smaller than the window.                         *)
(***************************************************************************)
EXTENDS Download, WellFoundedInduction, TLAPS

-----------------------------------------------------------------------------
(* Natural numbers, and remainders for the slots of a ring *)

\* Every set of natural numbers has a least one; this stands for induction.
LEMMA LeastNatural ==
  ASSUME NEW S, S \subseteq Nat, S # {}
  PROVE  \E n \in S : \A m \in S : n <= m
<1>1. PICK n \in S : \A m \in S : ~(<<m, n>> \in OpToRel(<, Nat))
  BY NatLessThanWellFounded, WFMin
<1>2. \A m \in S : ~(m < n) BY <1>1 DEF OpToRel
<1> QED BY <1>2

\* Quotient and remainder.
LEMMA Division ==
  ASSUME NEW n \in Nat \ {0}, NEW i \in Nat
  PROVE  /\ (i % n) \in 0 .. n - 1
         /\ (i \div n) \in Nat
         /\ i = (n * (i \div n)) + (i % n)
OBVIOUS

\* Numbers less than n apart differ modulo n.
LEMMA DistinctRemainders ==
  ASSUME NEW n \in Nat \ {0}, NEW i \in Nat, NEW j \in Nat, i < j, j - i < n
  PROVE  i % n # j % n
<1>1. ASSUME NEW p \in Int, NEW q \in Int, NEW r \in Int, i = (n * p) + r, j = (n * q) + r
      PROVE  FALSE
  <2>1. q <= p => n * q <= n * p OBVIOUS
  <2>2. q >= p + 1 => n * q >= (n * p) + n OBVIOUS
  <2> QED BY <1>1, <2>1, <2>2
<1>2. /\ i = (n * (i \div n)) + (i % n) /\ i \div n \in Int /\ i % n \in Int
      /\ j = (n * (j \div n)) + (j % n) /\ j \div n \in Int /\ j % n \in Int
  OBVIOUS
<1> QED BY <1>1, <1>2

-----------------------------------------------------------------------------
(* The inductive invariant *)

ServerType ==
  [ state : {"CS_CONNECTED", "CS_ZOMBIE"},
    downloadName : Files \cup {NoFile}, download : BOOLEAN,
    downloadCurrentBlock : Nat, downloadClientBlock : Nat, downloadXmitBlock : Nat,
    downloadBlocks : [0 .. MAX_DOWNLOAD_WINDOW - 1 -> Data],
    lastClientCommand : Nat, gamestateSent : BOOLEAN ]

Renamed == [name : Files, data : Seq(Data \ {EndOfFile})]

ClientType ==
  [ state : {"downloading", "complete", "ERR_DROP"},
    reason : {"", "overflow", "checksum", "not a pak", "misread", "refused"},
    downloadList : Seq(Files), downloadName : Files \cup {NoFile},
    downloadBlock : Nat, written : Seq(Data \ {EndOfFile}), renamed : Seq(Renamed),
    reliableAcknowledge : Nat ]

Types ==
  /\ sv \in ServerType /\ cl \in ClientType
  /\ toClient \in Seq(MessageType) /\ commands \in Seq(CommandType) /\ late \in BOOLEAN

\* What is left for the server to execute.
Executed(s, cmds) == s.lastClientCommand = Len(cmds)
OneLeft(s, cmds, command) ==
  s.lastClientCommand + 1 = Len(cmds) /\ cmds[Len(cmds)] = command

\* The command before the first acknowledgement of the file the server sends.
Start(s) == s.lastClientCommand - s.downloadClientBlock

\* The client has not answered a block of its file yet.
Fresh(c) == c.state = "downloading" /\ c.downloadName \in Files /\ c.downloadBlock = 0

\* The command is on its way that asks for the file the client wants next.
Asked(s, c, m, cmds) ==
  /\ Fresh(c) /\ m = <<>>
  /\ s.downloadName = NoFile /\ OneLeft(s, cmds, Command("download", c.downloadName))

\* The server has executed it and has not opened the file.
Granted(s, c, m, cmds) ==
  /\ Fresh(c) /\ m = <<>>
  /\ s.downloadName = c.downloadName /\ ~s.download /\ Executed(s, cmds)

\* The i-th block of a file, sent when all commands but those of a window of
\* blocks before it had been executed.
IsBlock(b, f, i, start) ==
  /\ b.number = i % BLOCK_RANGE /\ (b.first <=> i = 0) /\ ~b.refused
  /\ b.data = DataOf(f, i) /\ b.ack > start + i - MAX_DOWNLOAD_WINDOW

\* The acknowledgements that are on their way, up to a last one.
Acknowledges(s, cmds, last) ==
  \A i \in s.lastClientCommand + 1 .. last : cmds[i] = Command("nextdl", i - Start(s) - 1)

\* The blocks on their way are the last ones the server sent, none of them
\* before the one the client waits for.
Receiving(s, c, m, cmds) ==
  /\ c.state = "downloading" /\ c.downloadName \in Files \ NotDownloadable
  /\ s.downloadName = c.downloadName /\ s.download
  /\ s.downloadClientBlock <= c.downloadBlock
  /\ c.downloadBlock + Len(m) <= s.downloadXmitBlock
  /\ s.downloadXmitBlock <= s.downloadCurrentBlock
  /\ s.downloadCurrentBlock <= s.downloadClientBlock + MAX_DOWNLOAD_WINDOW
  /\ s.downloadCurrentBlock <= Blocks[c.downloadName] + 1
  /\ c.downloadBlock <= Blocks[c.downloadName]
  /\ Len(cmds) = Start(s) + c.downloadBlock
  /\ Acknowledges(s, cmds, Len(cmds))
  /\ \A k \in 1 .. Len(m) :
       IsBlock(m[k], c.downloadName, s.downloadXmitBlock - Len(m) + k - 1, Start(s))

\* The client has the whole file; the server does not know yet.
Got(s, c, m, cmds) ==
  /\ m = <<>>
  /\ s.downloadName \in Files \ NotDownloadable /\ s.download
  /\ s.downloadClientBlock <= Blocks[s.downloadName]
  /\ s.downloadXmitBlock = Blocks[s.downloadName] + 1
  /\ s.downloadCurrentBlock = Blocks[s.downloadName] + 1
  /\ Len(cmds) = Start(s) + Blocks[s.downloadName] + 2
  /\ Acknowledges(s, cmds, Len(cmds) - 1)
  /\ \/ Fresh(c) /\ cmds[Len(cmds)] = Command("download", c.downloadName)
     \/ /\ c.state = "complete" /\ c.downloadName = NoFile
        /\ cmds[Len(cmds)] = Command("donedl", 0)

\* Nothing is left to download.
Complete(s, c, m, cmds) ==
  /\ c.state = "complete" /\ c.downloadName = NoFile /\ m = <<>>
  /\ s.downloadName = NoFile
  /\ Executed(s, cmds) \/ OneLeft(s, cmds, Command("donedl", 0))

\* The server does not open the file: the one message that says so is on its
\* way, lost, or has arrived.
Refused(s, c, m, cmds) ==
  /\ c.downloadName \in Files /\ c.downloadBlock = 0
  /\ s.downloadName = NoFile /\ Executed(s, cmds)
  /\ \/ c.state = "ERR_DROP" /\ c.reason = "refused"
     \/ /\ c.state = "downloading"
        /\ Len(m) <= 1
        /\ \A k \in 1 .. Len(m) : m[k].number = 0 /\ m[k].first /\ m[k].refused

\* The client stopped a file that is no pak.
NotAPak(s, c, cmds) ==
  /\ c.state = "ERR_DROP" /\ c.reason = "not a pak"
  /\ c.downloadName \in Files /\ c.downloadBlock = 0
  /\ \/ OneLeft(s, cmds, Command("stopdl", 0))
     \/ Executed(s, cmds) /\ s.downloadName = NoFile

Phase(s, c, m, cmds) ==
  \/ Asked(s, c, m, cmds) \/ Granted(s, c, m, cmds) \/ Receiving(s, c, m, cmds)
  \/ Got(s, c, m, cmds) \/ Complete(s, c, m, cmds) \/ Refused(s, c, m, cmds)
  \/ NotAPak(s, c, cmds)

\* The client has written what it acknowledged.
Written(c) ==
  /\ c.downloadName # NoFile =>
       /\ Len(c.written) = c.downloadBlock
       /\ \A i \in 1 .. Len(c.written) : c.written[i] = DataOf(c.downloadName, i - 1)
  /\ \A i \in 1 .. Len(c.renamed) : c.renamed[i].data = Contents(c.renamed[i].name)

\* The buffers of the blocks from the client's block on.
Kept(s) ==
  s.download =>
    /\ s.downloadName \in Files
    /\ \A i \in s.downloadClientBlock .. s.downloadCurrentBlock - 1 :
         s.downloadBlocks[Slot(i)] = DataOf(s.downloadName, i)

InSync(s, c, m, cmds) ==
  s.state = "CS_CONNECTED" /\ Phase(s, c, m, cmds) /\ Written(c)

IInv == Types /\ Kept(sv) /\ (~late => InSync(sv, cl, toClient, commands))

-----------------------------------------------------------------------------
(* Commands and blocks *)

LEMMA CommandTypes ==
  /\ \A f \in Files : Command("download", f) \in CommandType
  /\ \A n \in Nat : Command("nextdl", n) \in CommandType
  /\ Command("stopdl", 0) \in CommandType /\ Command("donedl", 0) \in CommandType
BY DEF Command, CommandType

LEMMA DataOfType ==
  ASSUME NEW f \in Files, NEW i \in Nat
  PROVE  /\ DataOf(f, i) \in Data
         /\ DataOf(f, i) = EndOfFile <=> i >= Blocks[f]
         /\ i < Blocks[f] => DataOf(f, i) = <<f, i>>
<1>1. Blocks[f] \in Nat
  BY DownloadAssumption
<1>2. CASE i < Blocks[f]
  <2>1. i \in 0 .. Blocks[f] - 1
    BY <1>1, <1>2
  <2>2. <<f, i>> # EndOfFile
    BY <2>1, DownloadAssumption
  <2>3. <<f, i>> \in DataBlocks(f)
    BY <2>1 DEF DataBlocks
  <2>4. <<f, i>> \in Data
    BY <2>3 DEF Data
  <2> QED BY <1>1, <1>2, <2>2, <2>4 DEF DataOf
<1>3. CASE ~(i < Blocks[f])
  <2>1. DataOf(f, i) = EndOfFile /\ i >= Blocks[f]
    BY <1>1, <1>3 DEF DataOf
  <2>2. EndOfFile \in Data
    BY DEF Data
  <2> QED BY <1>3, <2>1, <2>2
<1> QED BY <1>2, <1>3

LEMMA SlotType ==
  ASSUME NEW i \in Nat
  PROVE  Slot(i) \in 0 .. MAX_DOWNLOAD_WINDOW - 1
BY Division, DownloadAssumption DEF Slot

\* Within a window no two blocks share a buffer.
LEMMA DistinctSlots ==
  ASSUME NEW i \in Nat, NEW j \in Nat, i < j, j - i < MAX_DOWNLOAD_WINDOW
  PROVE  Slot(i) # Slot(j)
BY DistinctRemainders, DownloadAssumption DEF Slot

LEMMA AddReliableCommandType ==
  ASSUME NEW c \in ClientType, NEW cmds \in Seq(CommandType), NEW command \in CommandType
  PROVE  LET next == AddReliableCommand(c, cmds, command)
         IN  /\ next.cl \in ClientType /\ next.commands \in Seq(CommandType)
             /\ Len(cmds) - c.reliableAcknowledge < MAX_RELIABLE_COMMANDS =>
                  next.cl = c /\ next.commands = Append(cmds, command)
             /\ \/ next.cl = c
                \/ /\ next.cl.state = "ERR_DROP"
                   /\ Len(cmds) - c.reliableAcknowledge >= MAX_RELIABLE_COMMANDS
<1> DEFINE next == AddReliableCommand(c, cmds, command)
<1>1. CASE Len(cmds) - c.reliableAcknowledge >= MAX_RELIABLE_COMMANDS
  <2>1. next.cl = [c EXCEPT !.state = "ERR_DROP", !.reason = "overflow"] /\ next.commands = cmds
    BY <1>1 DEF AddReliableCommand
  <2>2. next.cl \in ClientType /\ next.cl.state = "ERR_DROP"
    BY <2>1 DEF ClientType
  <2>3. ~(Len(cmds) - c.reliableAcknowledge < MAX_RELIABLE_COMMANDS)
    <3>1. c.reliableAcknowledge \in Nat
      BY DEF ClientType
    <3>2. Len(cmds) \in Int
      OBVIOUS
    <3>3. MAX_RELIABLE_COMMANDS \in Int
      BY DownloadAssumption
    <3> QED BY <1>1, <3>1, <3>2, <3>3
  <2> QED BY <1>1, <2>1, <2>2, <2>3
<1>2. CASE ~(Len(cmds) - c.reliableAcknowledge >= MAX_RELIABLE_COMMANDS)
  <2>1. next.cl = c /\ next.commands = Append(cmds, command)
    BY <1>2 DEF AddReliableCommand
  <2> QED BY <2>1
<1> QED BY <1>1, <1>2

LEMMA NextDownloadType ==
  ASSUME NEW c \in ClientType, NEW cmds \in Seq(CommandType)
  PROVE  LET next == NextDownload(c, cmds)
         IN  /\ next.cl \in ClientType /\ next.commands \in Seq(CommandType)
             /\ Len(cmds) - c.reliableAcknowledge < MAX_RELIABLE_COMMANDS =>
                  /\ next.cl.renamed = c.renamed
                  /\ \/ /\ c.state = "downloading" => Fresh(next.cl)
                        /\ next.cl.downloadName \in Files /\ next.cl.written = <<>>
                        /\ next.cl.downloadBlock = 0
                        /\ next.commands = Append(cmds, Command("download", next.cl.downloadName))
                     \/ /\ next.cl.state = "complete" /\ next.cl.downloadName = NoFile
                        /\ next.commands = Append(cmds, Command("donedl", 0))
<1> DEFINE next == NextDownload(c, cmds)
<1>1. CASE c.downloadList # <<>>
  <2> DEFINE f == Head(c.downloadList)
             d == [c EXCEPT !.downloadName = f, !.downloadList = Tail(@),
                            !.downloadBlock = 0, !.written = <<>>]
  <2>1. f \in Files /\ Tail(c.downloadList) \in Seq(Files)
    <3>1. c.downloadList \in Seq(Files)
      BY DEF ClientType
    <3> QED BY <1>1, <3>1
  <2>2. next = AddReliableCommand(d, cmds, Command("download", f))
    BY <1>1 DEF NextDownload
  <2> HIDE DEF f
  <2>3. <<>> \in Seq(Data \ {EndOfFile})
    OBVIOUS
  <2>4. /\ d \in ClientType /\ d.downloadName = f /\ d.downloadBlock = 0 /\ d.written = <<>>
        /\ d.renamed = c.renamed /\ d.state = c.state
        /\ d.reliableAcknowledge = c.reliableAcknowledge
    BY <2>1, <2>3 DEF ClientType
  <2> HIDE DEF d, next
  <2>5. Command("download", f) \in CommandType
    BY <2>1, CommandTypes
  <2>6. next.cl \in ClientType /\ next.commands \in Seq(CommandType)
    BY <2>2, <2>4, <2>5, AddReliableCommandType
  <2>7. Len(cmds) - c.reliableAcknowledge < MAX_RELIABLE_COMMANDS =>
          next.cl = d /\ next.commands = Append(cmds, Command("download", f))
    BY <2>2, <2>4, <2>5, AddReliableCommandType
  <2> QED BY <2>1, <2>4, <2>6, <2>7 DEF Fresh, next
<1>2. CASE c.downloadList = <<>>
  <2> DEFINE d == [c EXCEPT !.downloadName = NoFile, !.state = "complete"]
  <2>1. next = AddReliableCommand(d, cmds, Command("donedl", 0))
    BY <1>2 DEF NextDownload
  <2>2. /\ d \in ClientType /\ d.downloadName = NoFile /\ d.state = "complete"
        /\ d.renamed = c.renamed /\ d.reliableAcknowledge = c.reliableAcknowledge
    BY DEF ClientType
  <2> HIDE DEF d, next
  <2>3. next.cl \in ClientType /\ next.commands \in Seq(CommandType)
    BY <2>1, <2>2, CommandTypes, AddReliableCommandType
  <2>4. Len(cmds) - c.reliableAcknowledge < MAX_RELIABLE_COMMANDS =>
          next.cl = d /\ next.commands = Append(cmds, Command("donedl", 0))
    BY <2>1, <2>2, CommandTypes, AddReliableCommandType
  <2> QED BY <2>2, <2>3, <2>4 DEF next
<1> QED BY <1>1, <1>2

LEMMA ErrDropType ==
  ASSUME NEW c \in ClientType, NEW why \in {"checksum", "not a pak", "misread", "refused"}
  PROVE  /\ ErrDrop(c, why) \in ClientType
         /\ ErrDrop(c, why).state = "ERR_DROP" /\ ErrDrop(c, why).reason = why
         /\ ErrDrop(c, why).downloadName = c.downloadName
         /\ ErrDrop(c, why).downloadBlock = c.downloadBlock
         /\ ErrDrop(c, why).written = c.written /\ ErrDrop(c, why).renamed = c.renamed
BY DEF ErrDrop, ClientType

\* The file is renamed before the next one is asked for.
Closed(c) == [c EXCEPT !.renamed = Append(@, [name |-> c.downloadName, data |-> c.written])]

LEMMA ClosedType ==
  ASSUME NEW c \in ClientType, c.downloadName \in Files
  PROVE  /\ Closed(c) \in ClientType
         /\ Closed(c).renamed = Append(c.renamed, [name |-> c.downloadName, data |-> c.written])
         /\ Closed(c).state = c.state /\ Closed(c).reliableAcknowledge = c.reliableAcknowledge
<1>1. [name |-> c.downloadName, data |-> c.written] \in Renamed /\ c.renamed \in Seq(Renamed)
  BY DEF Renamed, ClientType
<1> DEFINE renamed == Append(c.renamed, [name |-> c.downloadName, data |-> c.written])
<1>2. renamed \in Seq(Renamed)
  BY <1>1
<1>3. Closed(c) = [c EXCEPT !.renamed = renamed]
  BY DEF Closed, ClientType
<1> HIDE DEF renamed
<1>4. Closed(c) \in ClientType /\ Closed(c).renamed = renamed
      /\ Closed(c).state = c.state /\ Closed(c).reliableAcknowledge = c.reliableAcknowledge
  BY <1>2, <1>3 DEF ClientType
<1> QED BY <1>4 DEF renamed

LEMMA FileClosedType ==
  ASSUME NEW c \in ClientType, c.downloadName \in Files, NEW cmds \in Seq(CommandType)
  PROVE  /\ FileClosed(c, cmds).cl \in ClientType
         /\ FileClosed(c, cmds).commands \in Seq(CommandType)
<1>1. CASE \E f \in Files : c.written = Contents(f)
  <2>1. FileClosed(c, cmds) = NextDownload(Closed(c), cmds)
    BY <1>1 DEF FileClosed, Closed
  <2> QED BY <2>1, ClosedType, NextDownloadType
<1>2. CASE ~\E f \in Files : c.written = Contents(f)
  <2>1. FileClosed(c, cmds) = [cl |-> ErrDrop(c, "checksum"), commands |-> cmds]
    BY <1>2 DEF FileClosed
  <2>2. ErrDrop(c, "checksum") \in ClientType
    BY ErrDropType
  <2> QED BY <2>1, <2>2
<1> QED BY <1>1, <1>2

-----------------------------------------------------------------------------
(* The window of the server *)

LEMMA MaxIs ==
  ASSUME NEW S, S \subseteq Int, NEW i \in S, \A j \in S : j <= i
  PROVE  Max(S) = i
<1>1. \E m \in S : \A n \in S : m >= n
  BY DEF Max
<1>2. Max(S) \in S /\ \A n \in S : Max(S) >= n
  BY <1>1 DEF Max
<1>3. Max(S) \in Int /\ i \in Int /\ Max(S) >= i /\ Max(S) <= i
  BY <1>2
<1> QED BY <1>3

LEMMA MaxOfTwo ==
  ASSUME NEW a \in Int, NEW b \in Int
  PROVE  Max({a, b}) = IF a >= b THEN a ELSE b
<1>1. CASE a >= b
  <2>1. {a, b} \subseteq Int /\ a \in {a, b} /\ \A j \in {a, b} : j <= a
    BY <1>1
  <2> QED BY <1>1, <2>1, MaxIs
<1>2. CASE ~(a >= b)
  <2>1. {a, b} \subseteq Int /\ b \in {a, b} /\ \A j \in {a, b} : j <= b
    BY <1>2
  <2> QED BY <1>2, <2>1, MaxIs
<1> QED BY <1>1, <1>2

LEMMA MinOfTwo ==
  ASSUME NEW a \in Int, NEW b \in Int
  PROVE  Min({a, b}) = IF a <= b THEN a ELSE b
<1>1. \E m \in {a, b} : \A n \in {a, b} : m <= n
  <2>1. CASE a <= b
    BY <2>1
  <2>2. CASE ~(a <= b)
    BY <2>2
  <2> QED BY <2>1, <2>2
<1>2. Min({a, b}) \in {a, b} /\ \A n \in {a, b} : Min({a, b}) <= n
  BY <1>1 DEF Min
<1> QED BY <1>2

\* What FillWindow reads ahead to.
WindowEnd(s) ==
  IF s.downloadClientBlock + MAX_DOWNLOAD_WINDOW <= Blocks[s.downloadName] + 1
  THEN s.downloadClientBlock + MAX_DOWNLOAD_WINDOW ELSE Blocks[s.downloadName] + 1

\* A buffer is filled again only when its block was acknowledged.
LEMMA FillWindowKeeps ==
  ASSUME NEW s \in ServerType, s.downloadName \in Files, s.download, Kept(s)
  PROVE  LET t == FillWindow(s)
         IN  /\ t \in ServerType /\ Kept(t) /\ t.download
             /\ t.state = s.state /\ t.downloadName = s.downloadName
             /\ t.downloadClientBlock = s.downloadClientBlock
             /\ t.downloadXmitBlock = s.downloadXmitBlock
             /\ t.lastClientCommand = s.lastClientCommand
             /\ t.downloadCurrentBlock =
                  IF s.downloadCurrentBlock >= WindowEnd(s) THEN s.downloadCurrentBlock
                  ELSE WindowEnd(s)
<1> DEFINE f == s.downloadName
           c == s.downloadClientBlock
           current == s.downloadCurrentBlock
           last == WindowEnd(s)
           new(i) == {b \in current .. last - 1 : Slot(b) = i}
           blocks == [i \in DOMAIN s.downloadBlocks |->
                        IF new(i) = {} THEN s.downloadBlocks[i] ELSE DataOf(f, Max(new(i)))]
           top == IF current >= last THEN current ELSE last
           W == MAX_DOWNLOAD_WINDOW
<1>1. W \in Nat \ {0} /\ Blocks[f] \in Nat
  BY DownloadAssumption
<1>2. c \in Nat /\ current \in Nat /\ s.downloadBlocks \in [0 .. W - 1 -> Data]
  BY DEF ServerType
<1>3. last \in Nat /\ last <= c + W
  BY <1>1, <1>2 DEF WindowEnd
<1>4. Min({c + W, Blocks[f] + 1}) = last
  <2>1. c + W \in Int /\ Blocks[f] + 1 \in Int
    BY <1>1, <1>2
  <2> QED BY <2>1, MinOfTwo DEF WindowEnd
<1>5. Max({current, last}) = top
  BY <1>2, <1>3, MaxOfTwo
<1>6. FillWindow(s) = [s EXCEPT !.downloadCurrentBlock = top, !.downloadBlocks = blocks]
  <2>1. FillWindow(s) = [s EXCEPT !.downloadCurrentBlock = Max({current, last}), !.downloadBlocks = blocks]
    BY <1>4 DEF FillWindow, ServerType
  <2> QED BY <1>5, <2>1
<1>7. top \in Nat
  BY <1>2, <1>3
\* One buffer.
<1>8. ASSUME NEW i \in c .. top - 1
      PROVE  i \in Nat /\ Slot(i) \in 0 .. W - 1 /\ blocks[Slot(i)] = DataOf(f, i)
  <2>1. i \in Nat /\ c <= i /\ i < top
    BY <1>2, <1>7, <1>8
  <2>2. Slot(i) \in 0 .. W - 1
    BY <2>1, SlotType
  <2>3. blocks[Slot(i)] = IF new(Slot(i)) = {} THEN s.downloadBlocks[Slot(i)]
                          ELSE DataOf(f, Max(new(Slot(i))))
    BY <1>2, <2>2
  <2>4. ASSUME NEW b \in new(Slot(i))
        PROVE  b \in Nat /\ b >= current /\ b <= i
    <3>1. b \in Nat /\ current <= b /\ b < last /\ Slot(b) = Slot(i)
      BY <1>2, <1>3, <2>4
    <3>2. ASSUME i < b PROVE FALSE
      <4>1. b - i < W
        BY <1>1, <1>2, <1>3, <2>1, <3>1, <3>2
      <4> QED BY <2>1, <3>1, <3>2, <4>1, DistinctSlots
    <3> QED BY <2>1, <3>1, <3>2
  <2>5. CASE i >= current
    <3>1. i < last
      BY <1>2, <1>3, <2>1, <2>5
    <3>2. i \in new(Slot(i))
      BY <1>2, <1>3, <2>1, <2>5, <3>1
    <3>3. new(Slot(i)) \subseteq Int /\ \A b \in new(Slot(i)) : b <= i
      BY <2>4
    <3> HIDE DEF new
    <3>4. Max(new(Slot(i))) = i
      BY <3>2, <3>3, MaxIs
    <3> QED BY <2>1, <2>2, <2>3, <3>2, <3>4
  <2>6. CASE ~(i >= current)
    <3>1. new(Slot(i)) = {}
      BY <1>2, <2>1, <2>4, <2>6
    <3>2. i \in c .. current - 1
      BY <1>2, <2>1, <2>6
    <3>3. s.downloadBlocks[Slot(i)] = DataOf(f, i)
      BY <3>2 DEF Kept
    <3> QED BY <2>1, <2>2, <2>3, <3>1, <3>3
  <2> QED BY <2>5, <2>6
<1>9. blocks \in [0 .. W - 1 -> Data]
  <2>1. ASSUME NEW i \in 0 .. W - 1, new(i) # {}
        PROVE  Max(new(i)) \in Nat
    <3>1. new(i) \subseteq Nat /\ \A b \in new(i) : b <= last
      BY <1>2, <1>3
    <3> HIDE DEF new
    <3>2. {last - b : b \in new(i)} \subseteq Nat /\ {last - b : b \in new(i)} # {}
      BY <1>3, <2>1, <3>1
    <3>3. PICK d \in {last - b : b \in new(i)} : \A e \in {last - b : b \in new(i)} : d <= e
      BY <3>2, LeastNatural
    <3>4. PICK m \in new(i) : d = last - m
      BY <3>3
    <3>5. \A b \in new(i) : b <= m
      <4>1. ASSUME NEW b \in new(i) PROVE b <= m
        <5>1. last - m <= last - b
          BY <3>3, <3>4
        <5> QED BY <1>3, <3>1, <5>1
      <4> QED BY <4>1
    <3>6. new(i) \subseteq Int
      BY <3>1
    <3>7. Max(new(i)) = m
      BY <3>5, <3>6, MaxIs
    <3> QED BY <3>1, <3>7
  <2> HIDE DEF new
  <2>2. \A i \in 0 .. W - 1 : blocks[i] \in Data
    BY <1>2, <2>1, DataOfType
  <2> QED BY <1>2, <2>2
<1> DEFINE t == FillWindow(s)
<1> HIDE DEF new, blocks, top, last
<1>10. /\ t \in ServerType /\ t.download = s.download
       /\ t.state = s.state /\ t.downloadName = f /\ t.downloadClientBlock = c
       /\ t.downloadXmitBlock = s.downloadXmitBlock
       /\ t.lastClientCommand = s.lastClientCommand
       /\ t.downloadCurrentBlock = top /\ t.downloadBlocks = blocks
  BY <1>6, <1>7, <1>9 DEF ServerType
<1> HIDE DEF t
<1>11. Kept(t)
  BY <1>8, <1>10 DEF Kept
<1>12. top = IF current >= WindowEnd(s) THEN current ELSE WindowEnd(s)
  BY DEF top, last
<1> QED BY <1>10, <1>11, <1>12 DEF t

LEMMA OpenDownloadKeeps ==
  ASSUME NEW s \in ServerType, s.downloadName \in Files, Kept(s)
  PROVE  LET t == OpenDownload(s)
         IN  /\ t \in ServerType /\ Kept(t) /\ t.download
             /\ t.state = s.state /\ t.downloadName = s.downloadName
             /\ t.lastClientCommand = s.lastClientCommand
             /\ s.download => t = s
             /\ ~s.download => /\ t.downloadClientBlock = 0 /\ t.downloadXmitBlock = 0
                               /\ t.downloadCurrentBlock = 0
<1> DEFINE t == OpenDownload(s)
<1>1. CASE s.download
  BY <1>1 DEF OpenDownload
<1>2. CASE ~s.download
  <2>1. t = [s EXCEPT !.download = TRUE, !.downloadCurrentBlock = 0,
                      !.downloadClientBlock = 0, !.downloadXmitBlock = 0]
    BY <1>2 DEF OpenDownload
  <2> HIDE DEF t
  <2>2. /\ t \in ServerType /\ t.download = TRUE
        /\ t.state = s.state /\ t.downloadName = s.downloadName
        /\ t.lastClientCommand = s.lastClientCommand
        /\ t.downloadClientBlock = 0 /\ t.downloadXmitBlock = 0 /\ t.downloadCurrentBlock = 0
    BY <2>1 DEF ServerType
  <2>3. Kept(t)
    BY <2>2 DEF Kept
  <2> QED BY <1>2, <2>2, <2>3 DEF t
<1> QED BY <1>1, <1>2

LEMMA CloseDownloadType ==
  ASSUME NEW s \in ServerType
  PROVE  LET t == CloseDownload(s)
         IN  /\ t \in ServerType /\ ~t.download /\ t.downloadName = NoFile /\ Kept(t)
             /\ t.state = s.state /\ t.lastClientCommand = s.lastClientCommand
BY DEF CloseDownload, ServerType, Kept

-----------------------------------------------------------------------------
(* The steps of the server *)

\* Opening the file and filling the window, before the block is sent.
LEMMA WindowReady ==
  ASSUME NEW s \in ServerType, s.downloadName \in Files, Kept(s)
  PROVE  LET o == OpenDownload(s)
             t == FillWindow(o)
         IN  /\ t \in ServerType /\ Kept(t) /\ t.download
             /\ t.state = s.state /\ t.downloadName = s.downloadName
             /\ t.lastClientCommand = s.lastClientCommand
             /\ t.downloadClientBlock = o.downloadClientBlock
             /\ t.downloadXmitBlock = o.downloadXmitBlock
             /\ t.downloadCurrentBlock =
                  IF o.downloadCurrentBlock >= WindowEnd(o) THEN o.downloadCurrentBlock
                  ELSE WindowEnd(o)
             /\ o.downloadName = s.downloadName
             /\ s.download => o = s
             /\ ~s.download => /\ o.downloadClientBlock = 0 /\ o.downloadXmitBlock = 0
                               /\ o.downloadCurrentBlock = 0
<1> DEFINE o == OpenDownload(s)
<1>1. /\ o \in ServerType /\ Kept(o) /\ o.download
      /\ o.state = s.state /\ o.downloadName = s.downloadName
      /\ o.lastClientCommand = s.lastClientCommand
      /\ s.download => o = s
      /\ ~s.download => /\ o.downloadClientBlock = 0 /\ o.downloadXmitBlock = 0
                        /\ o.downloadCurrentBlock = 0
  BY OpenDownloadKeeps
<1> HIDE DEF o
<1> DEFINE t == FillWindow(o)
<1>2. /\ t \in ServerType /\ Kept(t) /\ t.download
      /\ t.state = o.state /\ t.downloadName = o.downloadName
      /\ t.lastClientCommand = o.lastClientCommand
      /\ t.downloadClientBlock = o.downloadClientBlock
      /\ t.downloadXmitBlock = o.downloadXmitBlock
      /\ t.downloadCurrentBlock =
           IF o.downloadCurrentBlock >= WindowEnd(o) THEN o.downloadCurrentBlock
           ELSE WindowEnd(o)
  BY <1>1, FillWindowKeeps
<1> HIDE DEF t
<1> QED BY <1>1, <1>2 DEF o, t

LEMMA BlockMessageType ==
  ASSUME NEW s \in ServerType, NEW i \in Nat
  PROVE  /\ BlockMessage(s, i) \in MessageType
         /\ BlockMessage(s, i).number = i % BLOCK_RANGE
         /\ BlockMessage(s, i).first <=> i = 0
         /\ ~BlockMessage(s, i).refused
         /\ BlockMessage(s, i).data = s.downloadBlocks[Slot(i)]
         /\ BlockMessage(s, i).ack = s.lastClientCommand
<1>1. BLOCK_RANGE \in Nat \ {0}
  BY DownloadAssumption
<1>2. i % BLOCK_RANGE \in 0 .. BLOCK_RANGE - 1
  BY <1>1, Division
<1>3. s.downloadBlocks[Slot(i)] \in Data /\ s.lastClientCommand \in Nat
  BY SlotType DEF ServerType
<1>4. (i = 0) \in BOOLEAN
  OBVIOUS
<1> QED BY <1>2, <1>3, <1>4 DEF BlockMessage, MessageType

\* One more block follows those on their way.
LEMMA OneMoreBlock ==
  ASSUME NEW m \in Seq(MessageType), NEW b \in MessageType, NEW f, NEW x \in Int, NEW start \in Int,
         \A k \in 1 .. Len(m) : IsBlock(m[k], f, x - Len(m) + k - 1, start),
         IsBlock(b, f, x, start)
  PROVE  /\ Len(Append(m, b)) = Len(m) + 1
         /\ \A k \in 1 .. Len(Append(m, b)) :
              IsBlock(Append(m, b)[k], f, (x + 1) - Len(Append(m, b)) + k - 1, start)
<1>1. Len(Append(m, b)) = Len(m) + 1 /\ Len(m) \in Nat
  OBVIOUS
<1>2. ASSUME NEW k \in 1 .. Len(m) + 1
      PROVE  IsBlock(Append(m, b)[k], f, (x + 1) - (Len(m) + 1) + k - 1, start)
  <2>1. (x + 1) - (Len(m) + 1) + k - 1 = x - Len(m) + k - 1
    BY <1>1
  <2>2. CASE k \in 1 .. Len(m)
    <3>1. Append(m, b)[k] = m[k]
      BY <2>2
    <3> QED BY <2>1, <2>2, <3>1
  <2>3. CASE k = Len(m) + 1
    <3>1. Append(m, b)[k] = b /\ x - Len(m) + k - 1 = x
      BY <1>1, <2>3
    <3> QED BY <2>1, <3>1
  <2> QED BY <1>1, <2>2, <2>3
<1> QED BY <1>1, <1>2

LEMMA SV_WriteDownloadToClientStep ==
  ASSUME IInv, SV_WriteDownloadToClient
  PROVE  IInv'
<1> DEFINE o == OpenDownload(sv)
           s == FillWindow(o)
           resend == s.downloadXmitBlock = s.downloadCurrentBlock
           x == IF resend THEN s.downloadClientBlock ELSE s.downloadXmitBlock
           b == BlockMessage(s, x)
           W == MAX_DOWNLOAD_WINDOW
           f == sv.downloadName
<1>1. /\ sv \in ServerType /\ cl \in ClientType /\ toClient \in Seq(MessageType)
      /\ commands \in Seq(CommandType) /\ late \in BOOLEAN /\ Kept(sv)
      /\ ~late => InSync(sv, cl, toClient, commands)
  BY DEF IInv, Types
<1>2. /\ f \in Files \ NotDownloadable /\ f # NoFile
      /\ s.downloadClientBlock # s.downloadCurrentBlock
      /\ sv' = [s EXCEPT !.downloadXmitBlock = x + 1]
      /\ toClient' = Append(toClient, b) /\ late' = (late \/ (resend /\ InFlight))
      /\ UNCHANGED <<cl, commands>>
  BY <1>1 DEF SV_WriteDownloadToClient, ServerType
<1>3. /\ s \in ServerType /\ Kept(s) /\ s.download
      /\ s.state = sv.state /\ s.downloadName = f
      /\ s.lastClientCommand = sv.lastClientCommand
      /\ s.downloadClientBlock = o.downloadClientBlock
      /\ s.downloadXmitBlock = o.downloadXmitBlock
      /\ s.downloadCurrentBlock =
           IF o.downloadCurrentBlock >= WindowEnd(o) THEN o.downloadCurrentBlock
           ELSE WindowEnd(o)
      /\ o.downloadName = f
      /\ sv.download => o = sv
      /\ ~sv.download => /\ o.downloadClientBlock = 0 /\ o.downloadXmitBlock = 0
                         /\ o.downloadCurrentBlock = 0
  BY <1>1, <1>2, WindowReady
<1>4. s.downloadClientBlock \in Nat /\ s.downloadXmitBlock \in Nat /\ s.downloadCurrentBlock \in Nat
      /\ s.lastClientCommand \in Nat /\ W \in Nat \ {0} /\ Blocks[f] \in Nat
  BY <1>2, <1>3, DownloadAssumption DEF ServerType
<1> HIDE DEF s, o
<1>5. x \in Nat /\ x + 1 \in Nat
  BY <1>4
<1>6. b \in MessageType
  BY <1>3, <1>5, BlockMessageType
<1>7. resend \in BOOLEAN /\ InFlight \in BOOLEAN
  BY DEF InFlight
<1> HIDE DEF x, b
<1>8. /\ sv' \in ServerType /\ sv'.download = s.download /\ sv'.downloadName = f
      /\ sv'.state = sv.state /\ sv'.lastClientCommand = sv.lastClientCommand
      /\ sv'.downloadClientBlock = s.downloadClientBlock
      /\ sv'.downloadCurrentBlock = s.downloadCurrentBlock
      /\ sv'.downloadXmitBlock = x + 1 /\ sv'.downloadBlocks = s.downloadBlocks
  BY <1>2, <1>3, <1>5 DEF ServerType
<1>9. Kept(sv')
  BY <1>3, <1>8 DEF Kept
<1>10. Types'
  BY <1>1, <1>2, <1>6, <1>7, <1>8 DEF Types
<1>11. ASSUME ~late'
       PROVE  InSync(sv', cl', toClient', commands')
  <2>1. InSync(sv, cl, toClient, commands) /\ ~(resend /\ InFlight)
    BY <1>1, <1>2, <1>11
  <2>2. NoFile \notin Files
    BY DownloadAssumption
  \* What there is to show when the block is within the window.
  <2>3. ASSUME s.downloadClientBlock <= x, x < s.downloadCurrentBlock,
               s.downloadCurrentBlock <= s.downloadClientBlock + W
        PROVE  IsBlock(b, f, x, Start(sv'))
    <3>1. x \in s.downloadClientBlock .. s.downloadCurrentBlock - 1
      BY <1>4, <1>5, <2>3
    <3>2. s.downloadBlocks[Slot(x)] = DataOf(f, x)
      BY <1>3, <3>1 DEF Kept
    <3>3. s.lastClientCommand > Start(sv') + x - W
      BY <1>3, <1>4, <1>5, <1>8, <2>3 DEF Start
    <3> QED BY <1>3, <1>5, <3>2, <3>3, BlockMessageType DEF IsBlock, b
  <2>4. CASE Granted(sv, cl, toClient, commands)
    <3>1. /\ Fresh(cl) /\ toClient = <<>> /\ f = cl.downloadName /\ ~sv.download
          /\ sv.lastClientCommand = Len(commands)
      BY <2>4 DEF Granted, Executed
    <3>2. /\ s.downloadClientBlock = 0 /\ s.downloadXmitBlock = 0
          /\ s.downloadCurrentBlock <= W /\ s.downloadCurrentBlock <= Blocks[f] + 1
          /\ s.downloadCurrentBlock > 0
      BY <1>3, <1>4, <3>1 DEF WindowEnd
    <3>3. x = 0
      BY <3>2 DEF x
    <3>4. IsBlock(b, f, 0, Start(sv'))
      BY <1>4, <2>3, <3>2, <3>3
    <3>5. Start(sv') = Len(commands)
      BY <1>8, <3>1, <3>2 DEF Start
    <3>6. toClient' = <<b>> /\ Len(toClient') = 1 /\ toClient'[1] = b
      BY <1>2, <3>1
    <3>7. \A k \in 1 .. Len(toClient') :
            IsBlock(toClient'[k], f, sv'.downloadXmitBlock - Len(toClient') + k - 1, Start(sv'))
      BY <1>8, <3>3, <3>4, <3>6
    <3>8. Receiving(sv', cl', toClient', commands')
      <4>1. Acknowledges(sv', commands', Len(commands'))
        BY <1>2, <1>4, <1>8, <3>1 DEF Acknowledges
      <4>2. /\ cl.state = "downloading" /\ cl.downloadName = f /\ cl.downloadBlock = 0
        BY <3>1 DEF Fresh
      <4>3. /\ sv'.downloadClientBlock = 0 /\ sv'.downloadXmitBlock = 1
        BY <1>8, <3>2, <3>3
      <4>4. /\ cl.downloadBlock + Len(toClient') <= sv'.downloadXmitBlock
            /\ sv'.downloadXmitBlock <= sv'.downloadCurrentBlock
            /\ sv'.downloadCurrentBlock <= sv'.downloadClientBlock + W
            /\ sv'.downloadCurrentBlock <= Blocks[f] + 1
            /\ sv'.downloadClientBlock <= cl.downloadBlock /\ cl.downloadBlock <= Blocks[f]
        <5>1. sv'.downloadCurrentBlock = s.downloadCurrentBlock
          BY <1>8
        <5> QED BY <1>4, <3>2, <3>6, <4>2, <4>3, <5>1
      <4>5. Len(commands') = Start(sv') + cl.downloadBlock
        BY <1>2, <3>5, <4>2
      <4>6. cl' = cl /\ sv'.download /\ sv'.downloadName = f /\ f \in Files \ NotDownloadable
        BY <1>2, <1>3, <1>8
      <4> QED BY <3>7, <4>1, <4>2, <4>4, <4>5, <4>6 DEF Receiving
    <3> QED BY <1>2, <1>8, <2>1, <3>8 DEF InSync, Phase
  <2>5. CASE Receiving(sv, cl, toClient, commands)
    <3> DEFINE w == cl.downloadBlock
               c == sv.downloadClientBlock
               n == Len(toClient)
    <3>1. /\ cl.state = "downloading" /\ cl.downloadName = f /\ sv.download
          /\ c <= w /\ w + n <= sv.downloadXmitBlock
          /\ sv.downloadXmitBlock <= sv.downloadCurrentBlock
          /\ sv.downloadCurrentBlock <= c + W
          /\ sv.downloadCurrentBlock <= Blocks[f] + 1
          /\ w <= Blocks[f] /\ Len(commands) = Start(sv) + w
          /\ Acknowledges(sv, commands, Len(commands))
      BY <2>5 DEF Receiving
    <3>2. /\ s.downloadClientBlock = c /\ s.downloadXmitBlock = sv.downloadXmitBlock
          /\ s.downloadCurrentBlock >= sv.downloadCurrentBlock
          /\ s.downloadCurrentBlock <= c + W /\ s.downloadCurrentBlock <= Blocks[f] + 1
      BY <1>3, <1>4, <3>1 DEF WindowEnd
    <3>3. Start(sv') = Start(sv) /\ Start(sv) \in Int
      BY <1>1, <1>8, <3>2 DEF Start, ServerType
    <3>4. w \in Nat /\ c \in Nat /\ n \in Nat /\ sv.downloadXmitBlock \in Nat
      <4>1. w \in Nat
        BY <1>1 DEF ClientType
      <4>2. c \in Nat /\ sv.downloadXmitBlock \in Nat
        BY <1>4, <3>2
      <4>3. n \in Nat
        BY <1>1
      <4> QED BY <4>1, <4>2, <4>3
    <3>5. /\ resend => n = 0 /\ w = c /\ x = c
          /\ ~resend => x = sv.downloadXmitBlock
      <4>1. resend => n = 0 /\ ~(sv.lastClientCommand < Len(commands))
        BY <2>1 DEF InFlight
      <4>2. resend => w = c
        BY <1>3, <1>4, <3>1, <3>4, <4>1 DEF Start
      <4> QED BY <3>2, <4>1, <4>2 DEF x
    <3>6. c <= x /\ x < s.downloadCurrentBlock /\ w + n <= x
      <4>1. /\ s.downloadClientBlock = c /\ c # s.downloadCurrentBlock
            /\ sv.downloadCurrentBlock \in Nat
        BY <1>1, <1>2, <3>2 DEF ServerType
      <4>2. CASE resend
        <5>1. x = c /\ w = c /\ n = 0
          BY <3>5, <4>2
        <5>2. c <= s.downloadCurrentBlock
          <6> HIDE DEF w, c, n
          <6> QED BY <1>4, <3>1, <3>2, <3>4, <4>1
        <5> HIDE DEF w, c, n
        <5> QED BY <1>4, <3>4, <4>1, <5>1, <5>2
      <4>3. CASE ~resend
        <5>1. x = sv.downloadXmitBlock /\ x # s.downloadCurrentBlock
          BY <3>2, <3>5, <4>3
        <5> HIDE DEF w, c, n
        <5> QED BY <1>4, <1>5, <3>1, <3>2, <3>4, <4>1, <5>1
      <4> QED BY <4>2, <4>3
    <3>7. IsBlock(b, f, x, Start(sv))
      BY <2>3, <3>2, <3>3, <3>6
    <3>8. \A k \in 1 .. n : IsBlock(toClient[k], f, x - n + k - 1, Start(sv))
      <4>1. CASE resend
        BY <3>5, <4>1
      <4>2. CASE ~resend
        BY <2>5, <3>1, <3>5, <4>2 DEF Receiving
      <4> QED BY <4>1, <4>2
    <3>9. /\ Len(toClient') = n + 1
          /\ \A k \in 1 .. Len(toClient') :
               IsBlock(toClient'[k], f, (x + 1) - Len(toClient') + k - 1, Start(sv))
      BY <1>1, <1>2, <1>5, <1>6, <3>3, <3>7, <3>8, OneMoreBlock
    <3>10. Acknowledges(sv', commands', Len(commands'))
      BY <1>2, <1>8, <3>1, <3>3 DEF Acknowledges
    <3>11. Receiving(sv', cl', toClient', commands')
      <4>1. /\ cl'.downloadBlock + Len(toClient') <= sv'.downloadXmitBlock
            /\ sv'.downloadXmitBlock <= sv'.downloadCurrentBlock
        BY <1>2, <1>4, <1>5, <1>8, <3>4, <3>6, <3>9
      <4> QED BY <1>2, <1>3, <1>8, <3>1, <3>2, <3>3, <3>9, <3>10, <4>1 DEF Receiving
    <3> QED BY <1>2, <1>8, <2>1, <3>11 DEF InSync, Phase
  <2>6. CASE Got(sv, cl, toClient, commands)
    <3>1. /\ sv.download /\ sv.downloadXmitBlock = Blocks[f] + 1
          /\ sv.downloadCurrentBlock = Blocks[f] + 1 /\ sv.downloadClientBlock <= Blocks[f]
          /\ Len(commands) = Start(sv) + Blocks[f] + 2
      BY <2>6 DEF Got
    <3>2. resend
      BY <1>3, <1>4, <3>1 DEF WindowEnd
    <3>3. sv.lastClientCommand < Len(commands)
      BY <1>3, <1>4, <3>1 DEF Start
    <3> QED BY <2>1, <3>2, <3>3 DEF InFlight
  <2>7. CASE NotAPak(sv, cl, commands)
    <3>1. NotAPak(sv', cl', commands')
      BY <1>2, <1>8, <2>7 DEF NotAPak, OneLeft
    <3> QED BY <1>2, <1>8, <2>1, <3>1 DEF InSync, Phase
  <2> QED BY <1>2, <2>1, <2>4, <2>5, <2>6, <2>7 DEF InSync, Phase, Asked, Complete, Refused
<1> QED BY <1>9, <1>10, <1>11 DEF IInv

LEMMA SV_RefuseDownloadStep ==
  ASSUME IInv, SV_RefuseDownload
  PROVE  IInv'
<1> DEFINE b == Refusal(sv)
<1>1. /\ sv \in ServerType /\ cl \in ClientType /\ toClient \in Seq(MessageType)
      /\ commands \in Seq(CommandType) /\ late \in BOOLEAN /\ Kept(sv)
      /\ ~late => InSync(sv, cl, toClient, commands)
  BY DEF IInv, Types
<1>2. /\ sv.downloadName \in NotDownloadable /\ sv.downloadName # NoFile
      /\ toClient' = Append(toClient, b) /\ sv' = CloseDownload(sv)
      /\ UNCHANGED <<cl, commands, late>>
  BY DownloadAssumption DEF SV_RefuseDownload
<1>3. /\ b \in MessageType /\ b.number = 0 /\ b.first /\ b.refused
  <2> DEFINE a == BlockMessage(sv, 0)
  <2>1. a \in MessageType /\ a.number = 0 % BLOCK_RANGE /\ (a.first <=> 0 = 0)
    BY <1>1, BlockMessageType
  <2>2. 0 % BLOCK_RANGE = 0
    BY DownloadAssumption
  <2>3. EndOfFile \in Data
    BY DEF Data
  <2>4. b = [a EXCEPT !.refused = TRUE, !.data = EndOfFile]
    BY DEF Refusal
  <2> HIDE DEF a, b
  <2>5. b \in MessageType /\ b.number = 0 /\ b.first = a.first /\ b.refused = TRUE
    BY <2>1, <2>2, <2>3, <2>4 DEF MessageType
  <2> QED BY <2>1, <2>5
<1> HIDE DEF b
<1>4. /\ sv' \in ServerType /\ sv'.downloadName = NoFile /\ Kept(sv')
      /\ sv'.state = sv.state /\ sv'.lastClientCommand = sv.lastClientCommand
  BY <1>1, <1>2, CloseDownloadType
<1>5. Types'
  BY <1>1, <1>2, <1>3, <1>4 DEF Types
<1>6. ASSUME ~late'
      PROVE  InSync(sv', cl', toClient', commands')
  <2>1. InSync(sv, cl, toClient, commands)
    BY <1>1, <1>2, <1>6
  <2>2. CASE Granted(sv, cl, toClient, commands)
    <3>1. /\ cl.state = "downloading" /\ cl.downloadName \in Files /\ cl.downloadBlock = 0
          /\ toClient = <<>> /\ Executed(sv, commands)
      BY <2>2 DEF Granted, Fresh
    <3>2. Len(toClient') = 1 /\ toClient'[1] = b
      BY <1>2, <3>1
    <3>3. Executed(sv', commands')
      BY <1>2, <1>4, <3>1 DEF Executed
    <3>4. Len(toClient') <= 1
          /\ \A k \in 1 .. Len(toClient') :
               toClient'[k].number = 0 /\ toClient'[k].first /\ toClient'[k].refused
      BY <1>3, <3>2
    <3>5. Refused(sv', cl', toClient', commands')
      BY <1>2, <1>4, <3>1, <3>3, <3>4 DEF Refused
    <3> QED BY <1>2, <1>4, <2>1, <3>5 DEF InSync, Phase
  <2>3. CASE NotAPak(sv, cl, commands)
    <3>1. NotAPak(sv', cl', commands')
      BY <1>2, <1>4, <2>3 DEF NotAPak, OneLeft, Executed
    <3> QED BY <1>2, <1>4, <2>1, <3>1 DEF InSync, Phase
  <2> QED BY <1>2, <2>1, <2>2, <2>3 DEF InSync, Phase, Asked, Receiving, Got, Complete, Refused
<1> QED BY <1>4, <1>5, <1>6 DEF IInv

-----------------------------------------------------------------------------
(* A block arrives or is lost *)

\* Without the oldest block the others keep their places.
LEMMA OneBlockLess ==
  ASSUME NEW m \in Seq(MessageType), m # <<>>, NEW f, NEW x \in Int, NEW start \in Int,
         \A k \in 1 .. Len(m) : IsBlock(m[k], f, x - Len(m) + k - 1, start)
  PROVE  \A k \in 1 .. Len(Tail(m)) :
           IsBlock(Tail(m)[k], f, x - Len(Tail(m)) + k - 1, start)
<1>1. /\ Len(m) \in Nat /\ Len(Tail(m)) = Len(m) - 1
      /\ \A k \in 1 .. Len(m) - 1 : Tail(m)[k] = m[k + 1]
  OBVIOUS
<1>2. ASSUME NEW k \in 1 .. Len(m) - 1
      PROVE  IsBlock(Tail(m)[k], f, x - (Len(m) - 1) + k - 1, start)
  <2>1. k + 1 \in 1 .. Len(m) /\ x - (Len(m) - 1) + k - 1 = x - Len(m) + (k + 1) - 1
    BY <1>1
  <2> QED BY <1>1, <2>1
<1> QED BY <1>1, <1>2

LEMMA LoseBlockStep ==
  ASSUME IInv, LoseBlock
  PROVE  IInv'
<1>1. /\ toClient \in Seq(MessageType) /\ toClient # <<>> /\ toClient' = Tail(toClient)
      /\ UNCHANGED <<sv, cl, commands, late>> /\ Types /\ Kept(sv)
      /\ ~late => InSync(sv, cl, toClient, commands)
  BY DEF IInv, Types, LoseBlock
<1>2. toClient' \in Seq(MessageType) /\ Len(toClient') = Len(toClient) - 1 /\ Len(toClient) \in Nat
  BY <1>1
<1>3. Types' /\ Kept(sv')
  BY <1>1, <1>2 DEF Types
<1>4. ASSUME ~late'
      PROVE  InSync(sv', cl', toClient', commands')
  <2>1. InSync(sv, cl, toClient, commands)
    BY <1>1, <1>4
  <2>2. CASE Receiving(sv, cl, toClient, commands)
    <3>1. sv.downloadXmitBlock \in Int /\ Start(sv) \in Int /\ cl.downloadBlock \in Nat
      <4>1. cl.downloadBlock \in Nat
        BY <1>1 DEF Types, ClientType
      <4>2. sv.downloadXmitBlock \in Nat /\ sv.lastClientCommand \in Nat
            /\ sv.downloadClientBlock \in Nat
        BY <1>1 DEF Types, ServerType
      <4> QED BY <4>1, <4>2 DEF Start
    <3>2. \A k \in 1 .. Len(toClient') :
            IsBlock(toClient'[k], cl.downloadName, sv.downloadXmitBlock - Len(toClient') + k - 1,
                    Start(sv))
      BY <1>1, <2>2, <3>1, OneBlockLess DEF Receiving
    <3>3. cl.downloadBlock + Len(toClient') <= sv.downloadXmitBlock
      <4>1. cl.downloadBlock + Len(toClient) <= sv.downloadXmitBlock
        BY <2>2 DEF Receiving
      <4> QED BY <1>2, <3>1, <4>1
    <3>4. Receiving(sv', cl', toClient', commands')
      BY <1>1, <2>2, <3>2, <3>3 DEF Receiving
    <3> QED BY <1>1, <2>1, <3>4 DEF InSync, Phase
  <2>3. CASE Refused(sv, cl, toClient, commands)
    <3>1. CASE cl.state = "ERR_DROP" /\ cl.reason = "refused"
      <4>1. Refused(sv', cl', toClient', commands')
        BY <1>1, <2>3, <3>1 DEF Refused
      <4> QED BY <1>1, <2>1, <4>1 DEF InSync, Phase
    <3>2. CASE cl.state = "downloading" /\ Len(toClient) <= 1
      <4>1. Len(toClient') <= 1 /\ 1 .. Len(toClient') = {}
        BY <1>2, <3>2
      <4>2. Refused(sv', cl', toClient', commands')
        BY <1>1, <2>3, <3>2, <4>1 DEF Refused
      <4> QED BY <1>1, <2>1, <4>2 DEF InSync, Phase
    <3> QED BY <2>3, <3>1, <3>2 DEF Refused
  <2>4. CASE NotAPak(sv, cl, commands)
    BY <1>1, <2>1, <2>4 DEF InSync, Phase
  <2> QED BY <1>1, <2>1, <2>2, <2>3, <2>4 DEF InSync, Phase, Asked, Granted, Got, Complete
<1> QED BY <1>3, <1>4 DEF IInv

-----------------------------------------------------------------------------
(* The server executes a command *)

LEMMA DropClientType ==
  ASSUME NEW s \in ServerType
  PROVE  LET t == DropClient(s)
         IN  t \in ServerType /\ ~t.download /\ Kept(t)
<1> DEFINE o == CloseDownload(s)
           t == DropClient(s)
<1>1. o \in ServerType /\ ~o.download
  BY CloseDownloadType
<1>2. t = [o EXCEPT !.state = "CS_ZOMBIE"]
  BY DEF DropClient
<1> HIDE DEF o, t
<1>3. t \in ServerType /\ t.download = o.download
  BY <1>1, <1>2 DEF ServerType
<1> QED BY <1>1, <1>3 DEF Kept, t

LEMMA SV_BeginDownload_fType ==
  ASSUME NEW s \in ServerType, NEW f \in Files
  PROVE  LET t == SV_BeginDownload_f(s, f)
         IN  /\ t \in ServerType /\ ~t.download /\ Kept(t) /\ t.downloadName = f
             /\ t.state = s.state /\ t.lastClientCommand = s.lastClientCommand
<1> DEFINE o == CloseDownload(s)
           t == SV_BeginDownload_f(s, f)
<1>1. /\ o \in ServerType /\ ~o.download
      /\ o.state = s.state /\ o.lastClientCommand = s.lastClientCommand
  BY CloseDownloadType
<1>2. t = [o EXCEPT !.downloadName = f]
  BY DEF SV_BeginDownload_f
<1> HIDE DEF o, t
<1>3. /\ t \in ServerType /\ t.download = o.download /\ t.downloadName = f
      /\ t.state = o.state /\ t.lastClientCommand = o.lastClientCommand
  BY <1>1, <1>2 DEF ServerType
<1> QED BY <1>1, <1>3 DEF Kept, t

\* Of a window with all its data, the server takes an acknowledgement of the
\* block it waits for.
LEMMA SV_NextDownload_fType ==
  ASSUME NEW s \in ServerType, Kept(s), NEW n \in Nat
  PROVE  LET t == SV_NextDownload_f(s, n)
         IN  /\ t \in ServerType /\ Kept(t)
             /\ /\ n = s.downloadClientBlock
                /\ s.downloadBlocks[Slot(n)] = EndOfFile
                => t = CloseDownload(s)
             /\ /\ n = s.downloadClientBlock
                /\ s.downloadBlocks[Slot(n)] # EndOfFile
                => /\ t.downloadClientBlock = n + 1
                   /\ t.state = s.state /\ t.downloadName = s.downloadName
                   /\ t.download = s.download /\ t.lastClientCommand = s.lastClientCommand
                   /\ t.downloadXmitBlock = s.downloadXmitBlock
                   /\ t.downloadCurrentBlock = s.downloadCurrentBlock
                   /\ t.downloadBlocks = s.downloadBlocks
<1> DEFINE t == SV_NextDownload_f(s, n)
<1>1. CASE n # s.downloadClientBlock
  <2>1. t = DropClient(s)
    BY <1>1 DEF SV_NextDownload_f
  <2> QED BY <1>1, <2>1, DropClientType
<1>2. CASE n = s.downloadClientBlock /\ s.downloadBlocks[Slot(n)] = EndOfFile
  <2>1. t = CloseDownload(s)
    BY <1>2 DEF SV_NextDownload_f
  <2> QED BY <1>2, <2>1, CloseDownloadType
<1>3. CASE n = s.downloadClientBlock /\ s.downloadBlocks[Slot(n)] # EndOfFile
  <2>1. t = [s EXCEPT !.downloadClientBlock = n + 1]
    BY <1>3 DEF SV_NextDownload_f, ServerType
  <2>2. n + 1 \in Nat
    OBVIOUS
  <2> HIDE DEF t
  <2>3. /\ t \in ServerType /\ t.downloadClientBlock = n + 1
        /\ t.state = s.state /\ t.downloadName = s.downloadName
        /\ t.download = s.download /\ t.lastClientCommand = s.lastClientCommand
        /\ t.downloadXmitBlock = s.downloadXmitBlock
        /\ t.downloadCurrentBlock = s.downloadCurrentBlock
        /\ t.downloadBlocks = s.downloadBlocks
    BY <2>1, <2>2 DEF ServerType
  <2>4. Kept(t)
    <3>1. s.downloadCurrentBlock \in Nat
      BY DEF ServerType
    <3>2. \A i \in n + 1 .. s.downloadCurrentBlock - 1 : i \in n .. s.downloadCurrentBlock - 1
      BY <3>1
    <3> QED BY <1>3, <2>3, <3>2 DEF Kept
  <2> QED BY <1>3, <2>3, <2>4 DEF t
<1> QED BY <1>1, <1>2, <1>3

LEMMA SV_DoneDownload_fType ==
  ASSUME NEW s \in ServerType, Kept(s)
  PROVE  LET t == SV_DoneDownload_f(s)
         IN  /\ t \in ServerType /\ Kept(t) /\ t.downloadName = s.downloadName
             /\ t.state = s.state /\ t.lastClientCommand = s.lastClientCommand
<1> DEFINE t == SV_DoneDownload_f(s)
<1>1. t = [s EXCEPT !.gamestateSent = TRUE]
  BY DEF SV_DoneDownload_f
<1> HIDE DEF t
<1>2. /\ t \in ServerType /\ t.downloadName = s.downloadName
      /\ t.state = s.state /\ t.lastClientCommand = s.lastClientCommand
      /\ t.download = s.download /\ t.downloadBlocks = s.downloadBlocks
      /\ t.downloadClientBlock = s.downloadClientBlock
      /\ t.downloadCurrentBlock = s.downloadCurrentBlock
  BY <1>1 DEF ServerType
<1> QED BY <1>2 DEF Kept, t

\* The server with the number of the command it executes.
Executing(s) == [s EXCEPT !.lastClientCommand = s.lastClientCommand + 1]

LEMMA ExecutingType ==
  ASSUME NEW s \in ServerType, Kept(s)
  PROVE  LET t == Executing(s)
         IN  /\ t \in ServerType /\ Kept(t)
             /\ t.lastClientCommand = s.lastClientCommand + 1
             /\ t.state = s.state /\ t.downloadName = s.downloadName /\ t.download = s.download
             /\ t.downloadClientBlock = s.downloadClientBlock
             /\ t.downloadXmitBlock = s.downloadXmitBlock
             /\ t.downloadCurrentBlock = s.downloadCurrentBlock
             /\ t.downloadBlocks = s.downloadBlocks
<1> DEFINE t == Executing(s)
<1>1. s.lastClientCommand + 1 \in Nat
  BY DEF ServerType
<1>2. t = [s EXCEPT !.lastClientCommand = s.lastClientCommand + 1]
  BY DEF Executing
<1> HIDE DEF t
<1>3. /\ t \in ServerType /\ t.lastClientCommand = s.lastClientCommand + 1
      /\ t.state = s.state /\ t.downloadName = s.downloadName /\ t.download = s.download
      /\ t.downloadClientBlock = s.downloadClientBlock
      /\ t.downloadXmitBlock = s.downloadXmitBlock
      /\ t.downloadCurrentBlock = s.downloadCurrentBlock
      /\ t.downloadBlocks = s.downloadBlocks
  BY <1>1, <1>2 DEF ServerType
<1> QED BY <1>3 DEF Kept, t

\* What each command does to the server.
LEMMA CommandEffects ==
  ASSUME Types, Kept(sv), SV_ClientCommand
  PROVE  LET n == sv.lastClientCommand + 1
             s == Executing(sv)
         IN  /\ n \in 1 .. Len(commands) /\ commands[n] \in CommandType
             /\ \A f \in Files : commands[n] = Command("download", f) => sv' = SV_BeginDownload_f(s, f)
             /\ \A i \in Nat : commands[n] = Command("nextdl", i) => sv' = SV_NextDownload_f(s, i)
             /\ commands[n] = Command("stopdl", 0) => sv' = SV_StopDownload_f(s)
             /\ commands[n] = Command("donedl", 0) => sv' = SV_DoneDownload_f(s)
             /\ \/ \E f \in Files : commands[n] = Command("download", f)
                \/ \E i \in Nat : commands[n] = Command("nextdl", i)
                \/ commands[n] = Command("stopdl", 0) \/ commands[n] = Command("donedl", 0)
             /\ UNCHANGED <<cl, toClient, commands, late>>
<1> DEFINE n == sv.lastClientCommand + 1
           s == Executing(sv)
           command == commands[n]
<1>1. sv.lastClientCommand \in Nat
  BY DEF Types, ServerType
<1>2. /\ n <= Len(commands)
      /\ sv' = CASE command.name = "download" -> SV_BeginDownload_f(s, command.arg)
                 [] command.name = "nextdl"   -> SV_NextDownload_f(s, command.arg)
                 [] command.name = "stopdl"   -> SV_StopDownload_f(s)
                 [] command.name = "donedl"   -> SV_DoneDownload_f(s)
      /\ UNCHANGED <<cl, toClient, commands, late>>
  BY DEF SV_ClientCommand, Executing
<1>3. n \in 1 .. Len(commands)
  BY <1>1, <1>2
<1>4. command \in CommandType
  BY <1>3 DEF Types
<1> HIDE DEF command, s
<1>5. \A f \in Files : command = Command("download", f) => sv' = SV_BeginDownload_f(s, f)
  BY <1>2 DEF Command
<1>6. \A i \in Nat : command = Command("nextdl", i) => sv' = SV_NextDownload_f(s, i)
  BY <1>2 DEF Command
<1>7. /\ command = Command("stopdl", 0) => sv' = SV_StopDownload_f(s)
      /\ command = Command("donedl", 0) => sv' = SV_DoneDownload_f(s)
  BY <1>2 DEF Command
<1>8. \/ \E f \in Files : command = Command("download", f)
      \/ \E i \in Nat : command = Command("nextdl", i)
      \/ command = Command("stopdl", 0) \/ command = Command("donedl", 0)
  BY <1>4 DEF Command, CommandType
<1> QED BY <1>2, <1>3, <1>4, <1>5, <1>6, <1>7, <1>8 DEF command, s

LEMMA SV_ClientCommandStep ==
  ASSUME IInv, SV_ClientCommand
  PROVE  IInv'
<1> DEFINE n == sv.lastClientCommand + 1
           s == Executing(sv)
           start == Start(sv)
<1>1. Types /\ Kept(sv) /\ sv \in ServerType /\ commands \in Seq(CommandType)
  BY DEF IInv, Types
<1>2. /\ n \in 1 .. Len(commands) /\ commands[n] \in CommandType
      /\ \A f \in Files : commands[n] = Command("download", f) => sv' = SV_BeginDownload_f(s, f)
      /\ \A i \in Nat : commands[n] = Command("nextdl", i) => sv' = SV_NextDownload_f(s, i)
      /\ commands[n] = Command("stopdl", 0) => sv' = SV_StopDownload_f(s)
      /\ commands[n] = Command("donedl", 0) => sv' = SV_DoneDownload_f(s)
      /\ \/ \E f \in Files : commands[n] = Command("download", f)
         \/ \E i \in Nat : commands[n] = Command("nextdl", i)
         \/ commands[n] = Command("stopdl", 0) \/ commands[n] = Command("donedl", 0)
      /\ UNCHANGED <<cl, toClient, commands, late>>
  BY <1>1, CommandEffects
<1>3. /\ s \in ServerType /\ Kept(s)
      /\ s.lastClientCommand = n
      /\ s.state = sv.state /\ s.downloadName = sv.downloadName /\ s.download = sv.download
      /\ s.downloadClientBlock = sv.downloadClientBlock
      /\ s.downloadXmitBlock = sv.downloadXmitBlock
      /\ s.downloadCurrentBlock = sv.downloadCurrentBlock
      /\ s.downloadBlocks = sv.downloadBlocks
  BY <1>1, ExecutingType
<1>4. /\ sv.lastClientCommand \in Nat /\ sv.downloadClientBlock \in Nat
      /\ sv.downloadCurrentBlock \in Nat /\ sv.downloadXmitBlock \in Nat
      /\ Len(commands) \in Nat /\ start = sv.lastClientCommand - sv.downloadClientBlock
  BY <1>1 DEF ServerType, Start
<1> HIDE DEF s, start
<1>5. sv' \in ServerType /\ Kept(sv')
  BY <1>2, <1>3, SV_BeginDownload_fType, SV_NextDownload_fType, CloseDownloadType,
     SV_DoneDownload_fType DEF SV_StopDownload_f
<1>6. Types'
  BY <1>1, <1>2, <1>5 DEF Types
<1>7. ASSUME ~late'
      PROVE  InSync(sv', cl', toClient', commands')
  <2>1. InSync(sv, cl, toClient, commands)
    BY <1>2, <1>7 DEF IInv
  <2>3. ~Executed(sv, commands)
    BY <1>2, <1>4 DEF Executed
  <2>4. CASE Asked(sv, cl, toClient, commands)
    <3>1. Fresh(cl) /\ toClient = <<>> /\ OneLeft(sv, commands, Command("download", cl.downloadName))
      BY <2>4 DEF Asked
    <3>2. cl.downloadName \in Files /\ n = Len(commands)
          /\ commands[n] = Command("download", cl.downloadName)
      BY <3>1 DEF Fresh, OneLeft
    <3>3. sv' = SV_BeginDownload_f(s, cl.downloadName)
      BY <1>2, <3>2
    <3>4. /\ ~sv'.download /\ sv'.downloadName = cl.downloadName
          /\ sv'.state = s.state /\ sv'.lastClientCommand = n
      BY <1>3, <3>2, <3>3, SV_BeginDownload_fType
    <3>5. Granted(sv', cl', toClient', commands')
      BY <1>2, <3>1, <3>2, <3>4 DEF Granted, Executed
    <3> QED BY <1>2, <1>3, <2>1, <3>4, <3>5 DEF InSync, Phase
  <2>5. CASE Receiving(sv, cl, toClient, commands)
    <3> DEFINE f == cl.downloadName
               w == cl.downloadBlock
               c == sv.downloadClientBlock
    <3>1. /\ cl.state = "downloading" /\ f \in Files \ NotDownloadable
          /\ sv.downloadName = f /\ sv.download /\ c <= w
          /\ w + Len(toClient) <= sv.downloadXmitBlock
          /\ sv.downloadXmitBlock <= sv.downloadCurrentBlock
          /\ sv.downloadCurrentBlock <= c + MAX_DOWNLOAD_WINDOW
          /\ sv.downloadCurrentBlock <= Blocks[f] + 1
          /\ w <= Blocks[f] /\ Len(commands) = start + w
          /\ \A i \in n .. Len(commands) : commands[i] = Command("nextdl", i - start - 1)
          /\ \A k \in 1 .. Len(toClient) :
               IsBlock(toClient[k], f, sv.downloadXmitBlock - Len(toClient) + k - 1, start)
      BY <2>5 DEF Receiving, Acknowledges, start
    <3>2. w \in Nat /\ Len(toClient) \in Nat /\ Blocks[f] \in Nat /\ MAX_DOWNLOAD_WINDOW \in Nat
      <4>1. w \in Nat
        BY <1>1 DEF Types, ClientType
      <4>2. Len(toClient) \in Nat
        BY <1>1 DEF Types
      <4>3. Blocks[f] \in Nat /\ MAX_DOWNLOAD_WINDOW \in Nat
        BY <3>1, DownloadAssumption
      <4> QED BY <4>1, <4>2, <4>3
    <3> DEFINE m == Len(toClient)
    <3> HIDE DEF w, m, f
    <3>3. /\ c < w /\ w <= sv.downloadCurrentBlock /\ n - start - 1 = c
      <4>1. n <= start + w
        BY <1>2, <3>1
      <4>2. w + m <= sv.downloadXmitBlock /\ sv.downloadXmitBlock <= sv.downloadCurrentBlock
        BY <3>1 DEF m
      <4>3. m \in Nat
        BY <3>2 DEF m
      <4>4. w <= sv.downloadCurrentBlock
        BY <1>4, <3>2, <4>2, <4>3
      <4>5. n - start - 1 = c
        BY <1>4
      <4>6. w \in Nat
        BY <3>2
      <4>8. n - start = c + 1
        BY <1>4
      <4>9. start \in Int /\ n \in Int /\ c \in Int
        BY <1>4
      <4>10. n - start <= w
        BY <4>1, <4>6, <4>9
      <4>7. c < w
        BY <4>6, <4>8, <4>10, <4>9
      <4> QED BY <4>4, <4>5, <4>7
    <3>4. commands[n] = Command("nextdl", c)
      <4>1. n \in n .. Len(commands)
        BY <1>2, <1>4
      <4> QED BY <3>1, <3>3, <4>1
    <3>5. s.downloadBlocks[Slot(c)] # EndOfFile
      <4>1. c \in c .. sv.downloadCurrentBlock - 1 /\ c < Blocks[f]
        <5>1. w <= Blocks[f]
          BY <3>1
        <5>2. /\ c \in Nat /\ w \in Nat /\ sv.downloadCurrentBlock \in Nat
              /\ c < w /\ w <= sv.downloadCurrentBlock
          BY <1>4, <3>2, <3>3
        <5>3. c < Blocks[f]
          BY <3>2, <5>1, <5>2
        <5>4. c \in c .. sv.downloadCurrentBlock - 1
          BY <5>2
        <5> QED BY <5>3, <5>4
      <4>2. sv.downloadBlocks[Slot(c)] = DataOf(f, c)
        BY <1>1, <3>1, <4>1 DEF Kept
      <4>3. DataOf(f, c) # EndOfFile
        BY <1>4, <3>1, <3>2, <4>1, DataOfType
      <4> QED BY <1>3, <4>2, <4>3
    <3>6. sv' = SV_NextDownload_f(s, c)
      BY <1>2, <1>4, <3>4
    <3>7. /\ sv'.downloadClientBlock = c + 1 /\ sv'.lastClientCommand = n
          /\ sv'.state = sv.state /\ sv'.downloadName = f /\ sv'.download
          /\ sv'.downloadXmitBlock = sv.downloadXmitBlock
          /\ sv'.downloadCurrentBlock = sv.downloadCurrentBlock
      BY <1>3, <1>4, <3>1, <3>5, <3>6, SV_NextDownload_fType
    <3>8. Start(sv') = start
      BY <1>4, <3>7 DEF Start
    <3>9. Acknowledges(sv', commands', Len(commands'))
      <4>1. \A i \in n + 1 .. Len(commands) : i \in n .. Len(commands)
        BY <1>4
      <4> QED BY <1>2, <3>1, <3>7, <3>8, <4>1 DEF Acknowledges
    <3>10. c + 1 <= w /\ sv.downloadCurrentBlock <= c + 1 + MAX_DOWNLOAD_WINDOW
      <4>1. sv.downloadCurrentBlock <= c + MAX_DOWNLOAD_WINDOW
        BY <3>1
      <4>2. c \in Nat /\ w \in Nat /\ c < w
        BY <1>4, <3>2, <3>3
      <4>3. c + 1 <= w
        BY <4>2
      <4>4. sv.downloadCurrentBlock <= c + 1 + MAX_DOWNLOAD_WINDOW
        BY <1>4, <3>2, <4>1, <4>2
      <4> QED BY <4>3, <4>4
    <3>11. Receiving(sv', cl', toClient', commands')
      BY <1>2, <3>1, <3>7, <3>8, <3>9, <3>10 DEF Receiving, f, w
    <3> QED BY <1>2, <2>1, <3>7, <3>11 DEF InSync, Phase
  <2>6. CASE Got(sv, cl, toClient, commands)
    <3> DEFINE f == sv.downloadName
               c == sv.downloadClientBlock
               B == Blocks[f]
               last == commands[Len(commands)]
    <3>1. /\ toClient = <<>> /\ f \in Files \ NotDownloadable /\ sv.download
          /\ c <= B /\ sv.downloadXmitBlock = B + 1 /\ sv.downloadCurrentBlock = B + 1
          /\ Len(commands) = start + B + 2
          /\ \A i \in n .. Len(commands) - 1 : commands[i] = Command("nextdl", i - start - 1)
          /\ \/ Fresh(cl) /\ last = Command("download", cl.downloadName)
             \/ /\ cl.state = "complete" /\ cl.downloadName = NoFile
                /\ last = Command("donedl", 0)
      BY <2>6 DEF Got, Acknowledges, start
    <3>2. B \in Nat
      BY <3>1, DownloadAssumption
    <3> HIDE DEF B, f
    <3>3. n - start - 1 = c /\ n \in n .. Len(commands) - 1 /\ Len(commands) - n = B - c + 1
      <4>1. Len(commands) = start + B + 2 /\ c <= B
        BY <3>1
      <4>2. n - start - 1 = c
        BY <1>4
      <4>3. start \in Int /\ n \in Int /\ c \in Int /\ start = n - 1 - c
        BY <1>4
      <4> DEFINE L == Len(commands)
      <4>6. L \in Int /\ L = start + B + 2
        BY <1>4, <4>1
      <4> HIDE DEF L, n, c
      <4>4. L - n = B - c + 1
        BY <3>2, <4>3, <4>6
      <4>5. n \in n .. L - 1
        BY <3>2, <4>1, <4>3, <4>4, <4>6
      <4> QED BY <4>2, <4>4, <4>5 DEF L
    <3>4. commands[n] = Command("nextdl", c)
      BY <3>1, <3>3
    <3>5. sv' = SV_NextDownload_f(s, c)
      BY <1>2, <1>4, <3>4
    <3>6. s.downloadBlocks[Slot(c)] = DataOf(f, c)
      <4>1. c \in c .. sv.downloadCurrentBlock - 1
        BY <1>4, <3>1, <3>2
      <4> QED BY <1>1, <1>3, <3>1, <4>1 DEF Kept, f
    <3>7. CASE c < B
      <4>1. DataOf(f, c) # EndOfFile
        BY <1>4, <3>1, <3>2, <3>7, DataOfType DEF B
      <4>2. /\ sv'.downloadClientBlock = c + 1 /\ sv'.lastClientCommand = n
            /\ sv'.state = sv.state /\ sv'.downloadName = f /\ sv'.download
            /\ sv'.downloadXmitBlock = sv.downloadXmitBlock
            /\ sv'.downloadCurrentBlock = sv.downloadCurrentBlock
        BY <1>3, <1>4, <3>1, <3>5, <3>6, <4>1, SV_NextDownload_fType DEF f
      <4>3. Start(sv') = start
        BY <1>4, <4>2 DEF Start
      <4>4. Acknowledges(sv', commands', Len(commands') - 1)
        <5>1. \A i \in n + 1 .. Len(commands) - 1 : i \in n .. Len(commands) - 1
          BY <1>4
        <5> QED BY <1>2, <3>1, <4>2, <4>3, <5>1 DEF Acknowledges
      <4>5. c + 1 <= B
        BY <1>4, <3>2, <3>7
      <4>6. Got(sv', cl', toClient', commands')
        BY <1>2, <3>1, <4>2, <4>3, <4>4, <4>5 DEF Got, B
      <4> QED BY <1>2, <2>1, <4>2, <4>6 DEF InSync, Phase
    <3>8. CASE c = B
      <4>1. DataOf(f, c) = EndOfFile
        BY <1>4, <3>1, <3>2, <3>8, DataOfType DEF B
      <4>2. sv' = CloseDownload(s)
        BY <1>3, <1>4, <3>5, <3>6, <4>1, SV_NextDownload_fType
      <4>3. /\ sv'.downloadName = NoFile /\ sv'.lastClientCommand = n /\ sv'.state = sv.state
        BY <1>3, <4>2, CloseDownloadType
      <4>4. n + 1 = Len(commands)
        <5>1. Len(commands) - n = B - c + 1
          BY <3>3
        <5> QED BY <1>4, <3>2, <3>8, <5>1
      <4>5. Asked(sv', cl', toClient', commands') \/ Complete(sv', cl', toClient', commands')
        BY <1>2, <3>1, <4>3, <4>4 DEF Asked, Complete, OneLeft
      <4> QED BY <1>2, <2>1, <4>3, <4>5 DEF InSync, Phase
    <3>9. c < B \/ c = B
      BY <1>4, <3>1, <3>2
    <3> QED BY <3>7, <3>8, <3>9
  <2>7. CASE Complete(sv, cl, toClient, commands)
    <3>1. n = Len(commands) /\ commands[n] = Command("donedl", 0)
      BY <2>3, <2>7 DEF Complete, OneLeft
    <3>2. sv' = SV_DoneDownload_f(s)
      BY <1>2, <3>1
    <3>3. sv'.downloadName = sv.downloadName /\ sv'.state = sv.state /\ sv'.lastClientCommand = n
      BY <1>3, <3>2, SV_DoneDownload_fType
    <3>4. Complete(sv', cl', toClient', commands')
      BY <1>2, <2>7, <3>1, <3>3 DEF Complete, Executed
    <3> QED BY <1>2, <2>1, <3>3, <3>4 DEF InSync, Phase
  <2>8. CASE NotAPak(sv, cl, commands)
    <3>1. n = Len(commands) /\ commands[n] = Command("stopdl", 0)
      BY <2>3, <2>8 DEF NotAPak, OneLeft
    <3>2. sv' = CloseDownload(s)
      BY <1>2, <3>1 DEF SV_StopDownload_f
    <3>3. sv'.downloadName = NoFile /\ sv'.state = sv.state /\ sv'.lastClientCommand = n
      BY <1>3, <3>2, CloseDownloadType
    <3>4. NotAPak(sv', cl', commands')
      BY <1>2, <2>8, <3>1, <3>3 DEF NotAPak, Executed
    <3> QED BY <1>2, <2>1, <3>3, <3>4 DEF InSync, Phase
  <2> QED BY <2>1, <2>3, <2>4, <2>5, <2>6, <2>7, <2>8 DEF InSync, Phase, Granted, Refused
<1> QED BY <1>5, <1>6, <1>7 DEF IInv

-----------------------------------------------------------------------------
(* The client takes a block *)

\* What the client finds in the block is no pak; and the client that waits for
\* the block after this one.
NoPak(c, m) == c.downloadBlock = 0 /\ (m.data = EndOfFile \/ m.data[1] \in NotPaks)
Taken(c) == [c EXCEPT !.downloadBlock = c.downloadBlock + 1]

LEMMA TakenType ==
  ASSUME NEW c \in ClientType
  PROVE  /\ Taken(c) \in ClientType /\ Taken(c).downloadBlock = c.downloadBlock + 1
         /\ Taken(c).state = c.state /\ Taken(c).downloadName = c.downloadName
         /\ Taken(c).written = c.written /\ Taken(c).renamed = c.renamed
         /\ Taken(c).reliableAcknowledge = c.reliableAcknowledge
<1>1. c.downloadBlock + 1 \in Nat
  <2>1. c.downloadBlock \in Nat
    BY DEF ClientType
  <2> QED BY <2>1
<1> QED BY <1>1 DEF Taken, ClientType

\* The four outcomes of a block.
LEMMA AcceptBlockIs ==
  ASSUME NEW c \in ClientType, NEW cmds \in Seq(CommandType), NEW m \in MessageType,
         c.state # "ERR_DROP"
  PROVE  LET r == AcceptBlock(c, cmds, m)
             full == Len(cmds) - c.reliableAcknowledge >= MAX_RELIABLE_COMMANDS
             cmds2 == Append(cmds, Command("nextdl", c.downloadBlock))
         IN  /\ NoPak(c, m) =>
                  r = [cl |-> ErrDrop(c, "not a pak"),
                       commands |-> Append(cmds, Command("stopdl", 0))]
             /\ ~NoPak(c, m) /\ full =>
                  r = AddReliableCommand(c, cmds, Command("nextdl", c.downloadBlock))
             /\ ~NoPak(c, m) /\ ~full /\ m.data = EndOfFile =>
                  r = FileClosed(Taken(c), cmds2)
             /\ ~NoPak(c, m) /\ ~full /\ m.data # EndOfFile =>
                  r = [cl |-> [Taken(c) EXCEPT !.written = Append(c.written, m.data)],
                       commands |-> cmds2]
<1> DEFINE r == AcceptBlock(c, cmds, m)
           full == Len(cmds) - c.reliableAcknowledge >= MAX_RELIABLE_COMMANDS
           cmds2 == Append(cmds, Command("nextdl", c.downloadBlock))
           next == AddReliableCommand(c, cmds, Command("nextdl", c.downloadBlock))
           got == [next.cl EXCEPT !.downloadBlock = @ + 1]
<1>1. NoPak(c, m) => r = [cl |-> ErrDrop(c, "not a pak"),
                          commands |-> Append(cmds, Command("stopdl", 0))]
  BY DEF AcceptBlock, NoPak
<1>2. ~NoPak(c, m) => r = IF next.cl.state = "ERR_DROP" THEN next
                          ELSE IF m.data = EndOfFile THEN FileClosed(got, next.commands)
                          ELSE [next EXCEPT !.cl = [got EXCEPT !.written = Append(@, m.data)]]
  BY DEF AcceptBlock, NoPak
<1>3. CASE full
  <2>1. next.cl = [c EXCEPT !.state = "ERR_DROP", !.reason = "overflow"]
    BY <1>3 DEF AddReliableCommand
  <2>2. next.cl.state = "ERR_DROP"
    BY <2>1 DEF ClientType
  <2> QED BY <1>1, <1>2, <1>3, <2>2
<1>4. CASE ~full
  <2>1. next = [cl |-> c, commands |-> cmds2]
    BY <1>4 DEF AddReliableCommand
  <2> HIDE DEF r, next, cmds2
  <2>2. got = Taken(c) /\ next.cl = c /\ next.commands = cmds2
    BY <2>1 DEF Taken, ClientType
  <2>3. [got EXCEPT !.written = Append(@, m.data)]
          = [Taken(c) EXCEPT !.written = Append(c.written, m.data)]
    BY <2>2, TakenType DEF ClientType
  <2> HIDE DEF got
  <2>4. [next EXCEPT !.cl = [got EXCEPT !.written = Append(@, m.data)]]
          = [cl |-> [Taken(c) EXCEPT !.written = Append(c.written, m.data)], commands |-> cmds2]
    <3> DEFINE g == [got EXCEPT !.written = Append(@, m.data)]
    <3>1. g = [Taken(c) EXCEPT !.written = Append(c.written, m.data)]
      BY <2>3
    <3> HIDE DEF g
    <3>2. [next EXCEPT !.cl = g] = [cl |-> g, commands |-> cmds2]
      BY <2>1
    <3> QED BY <3>1, <3>2 DEF g
  <2>5. ~NoPak(c, m) /\ m.data = EndOfFile => r = FileClosed(Taken(c), cmds2)
    BY <1>2, <2>2
  <2>6. ~NoPak(c, m) /\ m.data # EndOfFile =>
          r = [cl |-> [Taken(c) EXCEPT !.written = Append(c.written, m.data)], commands |-> cmds2]
    BY <1>2, <2>2, <2>4
  <2> QED BY <1>1, <1>4, <2>5, <2>6 DEF r, cmds2
<1> QED BY <1>3, <1>4

\* A block of data is written behind the ones before it.
LEMMA WroteType ==
  ASSUME NEW c \in ClientType, NEW data \in Data \ {EndOfFile}
  PROVE  LET d == [Taken(c) EXCEPT !.written = Append(c.written, data)]
         IN  /\ d \in ClientType /\ d.downloadBlock = c.downloadBlock + 1
             /\ d.state = c.state /\ d.downloadName = c.downloadName
             /\ d.written = Append(c.written, data) /\ d.renamed = c.renamed
<1> DEFINE t == Taken(c)
           written == Append(c.written, data)
           d == [t EXCEPT !.written = written]
<1>1. written \in Seq(Data \ {EndOfFile})
  <2>1. c.written \in Seq(Data \ {EndOfFile})
    BY DEF ClientType
  <2> QED BY <2>1
<1>2. /\ t \in ClientType /\ t.downloadBlock = c.downloadBlock + 1
      /\ t.state = c.state /\ t.downloadName = c.downloadName /\ t.renamed = c.renamed
  BY TakenType
<1> HIDE DEF t, written
<1>3. /\ d \in ClientType /\ d.downloadBlock = t.downloadBlock
      /\ d.state = t.state /\ d.downloadName = t.downloadName
      /\ d.written = written /\ d.renamed = t.renamed
  BY <1>1, <1>2 DEF ClientType
<1> QED BY <1>2, <1>3 DEF t, written

LEMMA AcceptBlockType ==
  ASSUME NEW c \in ClientType, NEW cmds \in Seq(CommandType), NEW m \in MessageType,
         c.state # "ERR_DROP", c.downloadName \in Files
  PROVE  /\ AcceptBlock(c, cmds, m).cl \in ClientType
         /\ AcceptBlock(c, cmds, m).commands \in Seq(CommandType)
<1> DEFINE r == AcceptBlock(c, cmds, m)
           full == Len(cmds) - c.reliableAcknowledge >= MAX_RELIABLE_COMMANDS
           command == Command("nextdl", c.downloadBlock)
           cmds2 == Append(cmds, command)
<1>1. command \in CommandType
  BY CommandTypes DEF ClientType
<1>2. cmds2 \in Seq(CommandType) /\ Append(cmds, Command("stopdl", 0)) \in Seq(CommandType)
  BY <1>1, CommandTypes
<1>3. CASE NoPak(c, m)
  <2>1. r = [cl |-> ErrDrop(c, "not a pak"), commands |-> Append(cmds, Command("stopdl", 0))]
    BY <1>3, AcceptBlockIs
  <2>2. ErrDrop(c, "not a pak") \in ClientType
    BY ErrDropType
  <2> HIDE DEF r
  <2>3. r.cl = ErrDrop(c, "not a pak") /\ r.commands = Append(cmds, Command("stopdl", 0))
    <3> DEFINE e == ErrDrop(c, "not a pak")
               l == Append(cmds, Command("stopdl", 0))
    <3>1. r = [cl |-> e, commands |-> l]
      BY <2>1
    <3> HIDE DEF e, l
    <3>2. r.cl = e /\ r.commands = l
      BY <3>1
    <3> QED BY <3>2 DEF e, l
  <2>4. r.cl \in ClientType
    BY <2>2, <2>3
  <2>5. r.commands \in Seq(CommandType)
    BY <1>2, <2>3
  <2> QED BY <2>4, <2>5 DEF r
<1>4. CASE ~NoPak(c, m) /\ full
  <2>1. r = AddReliableCommand(c, cmds, command)
    BY <1>4, AcceptBlockIs
  <2> QED BY <1>1, <2>1, AddReliableCommandType
<1>5. CASE ~NoPak(c, m) /\ ~full /\ m.data = EndOfFile
  <2>1. r = FileClosed(Taken(c), cmds2)
    BY <1>5, AcceptBlockIs
  <2>2. Taken(c) \in ClientType /\ Taken(c).downloadName \in Files
    BY TakenType
  <2> QED BY <1>2, <2>1, <2>2, FileClosedType
<1>6. CASE ~NoPak(c, m) /\ ~full /\ m.data # EndOfFile
  <2>1. r = [cl |-> [Taken(c) EXCEPT !.written = Append(c.written, m.data)], commands |-> cmds2]
    BY <1>6, AcceptBlockIs
  <2>2. m.data \in Data \ {EndOfFile}
    BY <1>6 DEF MessageType
  <2> QED BY <1>2, <2>1, <2>2, WroteType
<1> QED BY <1>3, <1>4, <1>5, <1>6

LEMMA ParsedDownloadsType ==
  ASSUME NEW c \in ClientType, NEW cmds \in Seq(CommandType), NEW m \in MessageType,
         c.state # "ERR_DROP", NEW next \in ParsedDownloads(c, cmds, m)
  PROVE  next.cl \in ClientType /\ next.commands \in Seq(CommandType)
<1>1. CASE c.downloadName = NoFile
  <2>1. next = AddReliableCommand(c, cmds, Command("stopdl", 0))
    BY <1>1 DEF ParsedDownloads
  <2> QED BY <2>1, CommandTypes, AddReliableCommandType
<1>2. CASE c.downloadName # NoFile
  <2>1. c.downloadName \in Files
    BY <1>2 DEF ClientType
  <2>2. \/ next = [cl |-> ErrDrop(c, "misread"), commands |-> cmds]
        \/ next = [cl |-> c, commands |-> cmds]
        \/ next = [cl |-> ErrDrop(c, "refused"), commands |-> cmds]
        \/ next = AcceptBlock(c, cmds, m)
    BY <1>2 DEF ParsedDownloads
  <2>3. CASE next = AcceptBlock(c, cmds, m)
    BY <2>1, <2>3, AcceptBlockType
  <2>4. CASE next.commands = cmds /\ next.cl \in {c, ErrDrop(c, "misread"), ErrDrop(c, "refused")}
    <3>1. ErrDrop(c, "misread") \in ClientType /\ ErrDrop(c, "refused") \in ClientType
      BY ErrDropType
    <3> QED BY <2>4, <3>1
  <2> QED BY <2>2, <2>3, <2>4
<1> QED BY <1>1, <1>2

\* The message is read with its acknowledgement.
Reading(c, m) == [c EXCEPT !.reliableAcknowledge = m.ack]

LEMMA ReadingType ==
  ASSUME NEW c \in ClientType, NEW m \in MessageType
  PROVE  /\ Reading(c, m) \in ClientType /\ Reading(c, m).reliableAcknowledge = m.ack
         /\ Reading(c, m).state = c.state /\ Reading(c, m).downloadName = c.downloadName
         /\ Reading(c, m).downloadBlock = c.downloadBlock
         /\ Reading(c, m).written = c.written /\ Reading(c, m).renamed = c.renamed
<1>1. m.ack \in Nat
  BY DEF MessageType
<1> QED BY <1>1 DEF Reading, ClientType

\* Of the blocks within a window from the one the client waits for, the number
\* tells that one, and a size is read where there is one.
LEMMA BlockRecognised ==
  ASSUME NEW m \in MessageType, NEW f, NEW j \in Nat, NEW start \in Int, IsBlock(m, f, j, start),
         NEW w \in Nat, w <= j, j - w < MAX_DOWNLOAD_WINDOW
  PROVE  /\ ~(m.number = 0 /\ m.first # (w = 0))
         /\ m.number = w % BLOCK_RANGE => j = w
<1>1. BLOCK_RANGE \in Nat \ {0} /\ MAX_DOWNLOAD_WINDOW \in Nat /\ BLOCK_RANGE > MAX_DOWNLOAD_WINDOW
  BY DownloadAssumption
<1>2. m.number = j % BLOCK_RANGE /\ (m.first <=> j = 0) /\ m.first \in BOOLEAN
  BY DEF IsBlock, MessageType
<1>3. m.number = w % BLOCK_RANGE => j = w
  <2>1. SUFFICES ASSUME m.number = w % BLOCK_RANGE, j # w PROVE FALSE
    OBVIOUS
  <2>2. w < j /\ j - w < BLOCK_RANGE
    BY <1>1, <2>1
  <2>3. w % BLOCK_RANGE # j % BLOCK_RANGE
    BY <1>1, <2>2, DistinctRemainders
  <2> QED BY <1>2, <2>1, <2>3
<1>4. ASSUME m.number = 0, m.first # (w = 0) PROVE FALSE
  <2>1. CASE w = 0
    <3>1. 0 % BLOCK_RANGE = 0
      BY <1>1
    <3>2. j = w
      BY <1>3, <1>4, <2>1, <3>1
    <3>3. m.first
      BY <1>2, <2>1, <3>2
    <3> QED BY <1>2, <1>4, <2>1, <3>3
  <2>2. CASE w # 0
    <3>1. j # 0
      BY <2>2
    <3>2. ~m.first
      BY <1>2, <3>1
    <3> QED BY <1>2, <1>4, <2>2, <3>2
  <2> QED BY <2>1, <2>2
<1> QED BY <1>3, <1>4

\* The file is complete: it is closed under its name and the next one asked for.
LEMMA FileComplete ==
  ASSUME NEW c \in ClientType, NEW cmds \in Seq(CommandType),
         c.state = "downloading", c.downloadName \in Files,
         c.written = Contents(c.downloadName),
         Len(cmds) - c.reliableAcknowledge < MAX_RELIABLE_COMMANDS,
         \A i \in 1 .. Len(c.renamed) : c.renamed[i].data = Contents(c.renamed[i].name)
  PROVE  LET next == FileClosed(c, cmds)
         IN  /\ Written(next.cl)
             /\ \/ /\ Fresh(next.cl)
                   /\ next.commands = Append(cmds, Command("download", next.cl.downloadName))
                \/ /\ next.cl.state = "complete" /\ next.cl.downloadName = NoFile
                   /\ next.commands = Append(cmds, Command("donedl", 0))
<1> DEFINE d == Closed(c)
           next == FileClosed(c, cmds)
<1>1. next = NextDownload(d, cmds)
  BY DEF FileClosed, Closed
<1>2. /\ d \in ClientType /\ d.state = c.state /\ d.reliableAcknowledge = c.reliableAcknowledge
      /\ d.renamed = Append(c.renamed, [name |-> c.downloadName, data |-> c.written])
  BY ClosedType
<1>3. \A i \in 1 .. Len(d.renamed) : d.renamed[i].data = Contents(d.renamed[i].name)
  <2> DEFINE entry == [name |-> c.downloadName, data |-> c.written]
  <2>1. entry.data = Contents(entry.name)
    OBVIOUS
  <2>2. c.renamed \in Seq(Renamed) /\ entry \in Renamed
    BY DEF ClientType, Renamed
  <2> HIDE DEF entry
  <2>3. /\ Len(Append(c.renamed, entry)) = Len(c.renamed) + 1
        /\ Append(c.renamed, entry)[Len(c.renamed) + 1] = entry
        /\ \A i \in 1 .. Len(c.renamed) : Append(c.renamed, entry)[i] = c.renamed[i]
        /\ Len(c.renamed) \in Nat
    BY <2>2
  <2>4. d.renamed = Append(c.renamed, entry)
    BY <1>2 DEF entry
  <2>5. ASSUME NEW i \in 1 .. Len(d.renamed)
        PROVE  d.renamed[i].data = Contents(d.renamed[i].name)
    <3>1. i \in 1 .. Len(c.renamed) \/ i = Len(c.renamed) + 1
      BY <2>3, <2>4
    <3> QED BY <2>1, <2>3, <2>4, <3>1
  <2> QED BY <2>5
<1> HIDE DEF d, next
<1>4. /\ next.cl \in ClientType /\ next.cl.renamed = d.renamed
      /\ \/ /\ Fresh(next.cl) /\ next.cl.downloadName \in Files /\ next.cl.written = <<>>
            /\ next.cl.downloadBlock = 0
            /\ next.commands = Append(cmds, Command("download", next.cl.downloadName))
         \/ /\ next.cl.state = "complete" /\ next.cl.downloadName = NoFile
            /\ next.commands = Append(cmds, Command("donedl", 0))
  BY <1>1, <1>2, NextDownloadType
<1>5. Written(next.cl)
  <2>1. next.cl.written = <<>> => Len(next.cl.written) = 0 /\ 1 .. Len(next.cl.written) = {}
    OBVIOUS
  <2>2. CASE next.cl.written = <<>> /\ next.cl.downloadBlock = 0
    BY <1>3, <1>4, <2>1, <2>2 DEF Written
  <2>3. CASE next.cl.downloadName = NoFile
    BY <1>3, <1>4, <2>3 DEF Written
  <2> QED BY <1>4, <2>2, <2>3
<1> QED BY <1>4, <1>5 DEF next

\* An acknowledgement of the block the client takes follows the ones before it.
LEMMA AcknowledgesOneMore ==
  ASSUME NEW s \in ServerType, NEW cmds \in Seq(CommandType), NEW w \in Nat,
         Len(cmds) = Start(s) + w, Acknowledges(s, cmds, Len(cmds))
  PROVE  Acknowledges(s, Append(cmds, Command("nextdl", w)), Len(cmds) + 1)
<1> DEFINE cmds2 == Append(cmds, Command("nextdl", w))
           L == Len(cmds)
           start == Start(s)
           l == s.lastClientCommand
<1>1. /\ L \in Nat /\ cmds2[L + 1] = Command("nextdl", w)
      /\ \A i \in 1 .. L : cmds2[i] = cmds[i]
  OBVIOUS
<1>2. l \in Nat /\ s.downloadClientBlock \in Nat
  BY DEF ServerType
<1>3. start \in Int
  BY <1>2 DEF Start
<1>4. \A i \in l + 1 .. L : cmds[i] = Command("nextdl", i - start - 1)
  BY DEF Acknowledges
<1>5. L = start + w
  OBVIOUS
<1>6. ASSUME NEW i \in l + 1 .. L + 1
      PROVE  cmds2[i] = Command("nextdl", i - start - 1)
  <2> HIDE DEF cmds2, L, start, l
  <2>1. CASE i = L + 1
    <3>1. i - start - 1 = w
      BY <1>1, <1>3, <1>5, <2>1
    <3> QED BY <1>1, <2>1, <3>1
  <2>2. CASE i # L + 1
    <3>1. i \in l + 1 .. L /\ i \in 1 .. L
      BY <1>1, <1>2, <2>2
    <3> QED BY <1>1, <1>4, <3>1
  <2> QED BY <2>1, <2>2
<1> QED BY <1>6 DEF Acknowledges

\* What the client makes of the oldest block that is on its way.
LEMMA BlockArrives ==
  ASSUME Types, toClient # <<>>, Written(cl), Receiving(sv, cl, toClient, commands),
         NEW next \in ParsedDownloads(Reading(cl, Head(toClient)), commands, Head(toClient))
  PROVE  /\ Phase(sv, next.cl, Tail(toClient), next.commands)
         /\ Written(next.cl)
<1> DEFINE m == Head(toClient)
           c == Reading(cl, m)
           f == cl.downloadName
           w == cl.downloadBlock
           N == Len(toClient)
           top == sv.downloadXmitBlock
           j == top - N
           start == Start(sv)
           C == sv.downloadClientBlock
           W == MAX_DOWNLOAD_WINDOW
           B == Blocks[f]
           L == Len(commands)
<1>1. /\ sv \in ServerType /\ cl \in ClientType /\ toClient \in Seq(MessageType)
      /\ commands \in Seq(CommandType)
  BY DEF Types
<1>2. /\ cl.state = "downloading" /\ f \in Files \ NotDownloadable
      /\ sv.downloadName = f /\ sv.download
  BY DEF Receiving
<1>3. /\ C <= w /\ w + N <= top /\ top <= sv.downloadCurrentBlock
      /\ sv.downloadCurrentBlock <= C + W /\ sv.downloadCurrentBlock <= B + 1
      /\ w <= B /\ L = start + w
  BY DEF Receiving
<1>4. Acknowledges(sv, commands, L)
  BY DEF Receiving
<1>5. \A k \in 1 .. N : IsBlock(toClient[k], f, top - N + k - 1, start)
  BY DEF Receiving
<1>6. /\ m \in MessageType /\ m = toClient[1] /\ N \in Nat /\ N >= 1
      /\ Len(Tail(toClient)) = N - 1
  BY <1>1
<1>7. /\ C \in Nat /\ top \in Nat /\ sv.downloadCurrentBlock \in Nat
      /\ sv.lastClientCommand \in Nat
  BY <1>1 DEF ServerType
<1>8. w \in Nat
  BY <1>1 DEF ClientType
<1>9. W \in Nat /\ B \in Nat /\ L \in Nat /\ W < MAX_RELIABLE_COMMANDS
      /\ MAX_RELIABLE_COMMANDS \in Nat
  <2>1. L \in Nat
    BY <1>1
  <2> QED BY <1>2, <2>1, DownloadAssumption
<1>10. start \in Int /\ start = sv.lastClientCommand - C
  BY <1>7 DEF Start
<1>11. IsBlock(m, f, j, start)
  <2>1. top - N + 1 - 1 = j /\ 1 \in 1 .. N
    BY <1>6, <1>7
  <2> QED BY <1>5, <1>6, <2>1
<1>12. /\ c \in ClientType /\ c.reliableAcknowledge = m.ack
       /\ c.state = "downloading" /\ c.downloadName = f /\ c.downloadBlock = w
       /\ c.written = cl.written /\ c.renamed = cl.renamed
  BY <1>1, <1>2, <1>6, ReadingType
<1>13. f # NoFile
  BY <1>2, DownloadAssumption
<1>14. /\ Len(c.written) = w
       /\ \A i \in 1 .. w : c.written[i] = DataOf(f, i - 1)
       /\ \A i \in 1 .. Len(c.renamed) : c.renamed[i].data = Contents(c.renamed[i].name)
  BY <1>12, <1>13 DEF Written
<1>15. \A k \in 1 .. Len(Tail(toClient)) :
         IsBlock(Tail(toClient)[k], f, top - Len(Tail(toClient)) + k - 1, start)
  BY <1>1, <1>5, <1>7, <1>10, OneBlockLess
<1> DEFINE rest == Tail(toClient)
<1> HIDE DEF m, c, f, w, N, top, start, C, W, B, L, rest
<1>16. /\ j \in Nat /\ w <= j /\ j - w < W /\ j < top /\ Len(rest) = N - 1
  <2>1. top <= C + W
    BY <1>3, <1>7, <1>9
  <2> QED BY <1>3, <1>6, <1>7, <1>8, <1>9, <2>1 DEF rest
<1> HIDE DEF j
<1>17. /\ ~(m.number = 0 /\ m.first # (w = 0))
       /\ m.number = w % BLOCK_RANGE => j = w
  BY <1>6, <1>8, <1>10, <1>11, <1>16, BlockRecognised DEF W
<1>18. ~m.refused
  BY <1>11 DEF IsBlock
<1>19. next \in ParsedDownloads(c, commands, m)
  BY DEF c, m
<1>20. \/ m.number # w % BLOCK_RANGE /\ next = [cl |-> c, commands |-> commands]
       \/ m.number = w % BLOCK_RANGE /\ next = AcceptBlock(c, commands, m)
  BY <1>12, <1>13, <1>17, <1>18, <1>19 DEF ParsedDownloads
<1>21. CASE next = [cl |-> c, commands |-> commands]
  <2>1. next.cl = c /\ next.commands = commands
    BY <1>21
  <2>2. w + Len(rest) <= top
    BY <1>3, <1>6, <1>7, <1>8, <1>16
  <2>3. Receiving(sv, c, rest, commands)
    BY <1>2, <1>3, <1>4, <1>12, <1>15, <2>2
       DEF Receiving, f, w, top, start, C, W, B, L, rest
  <2>4. Written(c)
    BY <1>12, <1>14 DEF Written
  <2> QED BY <2>1, <2>3, <2>4 DEF Phase, rest
<1>22. CASE j = w /\ next = AcceptBlock(c, commands, m)
  <2>1. m.data = DataOf(f, w) /\ m.ack > start + w - W /\ m.ack \in Nat
    BY <1>6, <1>11, <1>22 DEF IsBlock, W, MessageType
  <2>2. L - m.ack < W
    BY <1>3, <1>8, <1>9, <1>10, <2>1
  <2>3. ~(Len(commands) - c.reliableAcknowledge >= MAX_RELIABLE_COMMANDS)
    BY <1>9, <1>12, <2>1, <2>2 DEF L
  <2> DEFINE cmds2 == Append(commands, Command("nextdl", w))
  <2>4. /\ cmds2 \in Seq(CommandType) /\ Len(cmds2) = L + 1
        /\ Acknowledges(sv, cmds2, L + 1)
    <3>1. Command("nextdl", w) \in CommandType
      BY <1>8, CommandTypes
    <3>2. cmds2 \in Seq(CommandType) /\ Len(cmds2) = L + 1
      BY <1>1, <3>1 DEF L
    <3>3. Acknowledges(sv, cmds2, L + 1)
      BY <1>1, <1>3, <1>4, <1>8, AcknowledgesOneMore DEF L, start
    <3> QED BY <3>2, <3>3
  <2>5. c.state # "ERR_DROP"
    BY <1>12
  <2>6. CASE NoPak(c, m)
    <3>1. next = [cl |-> ErrDrop(c, "not a pak"),
                  commands |-> Append(commands, Command("stopdl", 0))]
      BY <1>1, <1>6, <1>12, <1>22, <2>5, <2>6, AcceptBlockIs
    <3> DEFINE e == ErrDrop(c, "not a pak")
               cmds3 == Append(commands, Command("stopdl", 0))
    <3>2. /\ e.state = "ERR_DROP" /\ e.reason = "not a pak" /\ e.downloadName = f
          /\ e.downloadBlock = w /\ e.written = c.written /\ e.renamed = c.renamed
      BY <1>12, ErrDropType
    <3>3. Len(cmds3) = L + 1 /\ cmds3[Len(cmds3)] = Command("stopdl", 0)
      BY <1>1 DEF L
    <3> HIDE DEF e, cmds3
    <3>4. next.cl = e /\ next.commands = cmds3
      BY <3>1 DEF e, cmds3
    <3>5. w = 0
      BY <1>12, <2>6 DEF NoPak
    <3>6. C = 0 /\ sv.lastClientCommand + 1 = L + 1
      BY <1>3, <1>7, <1>9, <1>10, <3>5
    <3>7. OneLeft(sv, cmds3, Command("stopdl", 0))
      BY <3>3, <3>6 DEF OneLeft
    <3>8. NotAPak(sv, e, cmds3)
      BY <1>2, <3>2, <3>5, <3>7 DEF NotAPak
    <3>9. Written(e)
      BY <1>14, <3>2 DEF Written
    <3> QED BY <3>4, <3>8, <3>9 DEF Phase
  <2>7. CASE ~NoPak(c, m) /\ m.data = EndOfFile
    <3>1. next = FileClosed(Taken(c), cmds2)
      BY <1>1, <1>6, <1>12, <1>22, <2>3, <2>5, <2>7, AcceptBlockIs
    <3>2. w = B
      <4>1. w >= Blocks[f]
        BY <1>2, <1>8, <2>1, <2>7, DataOfType
      <4> QED BY <1>3, <1>8, <1>9, <4>1 DEF B
    <3>3. N = 1 /\ top = B + 1 /\ sv.downloadCurrentBlock = B + 1 /\ C <= B
      BY <1>3, <1>6, <1>7, <1>8, <1>9, <3>2
    <3>4. rest = <<>>
      <4>1. toClient \in Seq(MessageType) /\ Len(toClient) = 1
        BY <1>1, <3>3 DEF N
      <4> DEFINE t == Tail(toClient)
      <4>3. t \in Seq(MessageType) /\ Len(t) = 0
        BY <4>1
      <4> HIDE DEF t
      <4>4. t = <<>>
        BY <4>3
      <4>2. Tail(toClient) = <<>>
        BY <4>4 DEF t
      <4> QED BY <4>2 DEF rest
    <3> DEFINE t == Taken(c)
    <3>5. /\ t \in ClientType /\ t.state = "downloading" /\ t.downloadName = f
          /\ t.written = c.written /\ t.renamed = c.renamed /\ t.reliableAcknowledge = m.ack
      BY <1>12, TakenType
    <3> HIDE DEF t, cmds2
    <3>6. t.written = Contents(f)
      <4>1. c.written \in Seq(Data \ {EndOfFile})
        BY <1>12 DEF ClientType
      <4>2. c.written = [i \in 1 .. w |-> c.written[i]]
        BY <1>14, <4>1
      <4>3. \A i \in 1 .. B : c.written[i] = <<f, i - 1>>
        <5>1. ASSUME NEW i \in 1 .. B PROVE c.written[i] = <<f, i - 1>>
          <6>1. i - 1 \in Nat /\ i - 1 < Blocks[f]
            BY <1>9 DEF B
          <6>2. DataOf(f, i - 1) = <<f, i - 1>>
            BY <1>2, <6>1, DataOfType
          <6> QED BY <1>14, <3>2, <6>2
        <5> QED BY <5>1
      <4>4. Contents(f) = [i \in 1 .. B |-> <<f, i - 1>>]
        BY DEF Contents, B
      <4> QED BY <3>2, <3>5, <4>2, <4>3, <4>4
    <3>7. Len(cmds2) - t.reliableAcknowledge < MAX_RELIABLE_COMMANDS
      BY <1>9, <2>1, <2>2, <2>4, <3>5
    <3>8. /\ Written(next.cl)
          /\ \/ /\ Fresh(next.cl)
                /\ next.commands = Append(cmds2, Command("download", next.cl.downloadName))
             \/ /\ next.cl.state = "complete" /\ next.cl.downloadName = NoFile
                /\ next.commands = Append(cmds2, Command("donedl", 0))
      <4>1. next = FileClosed(t, cmds2)
        BY <3>1 DEF t
      <4> QED BY <1>2, <1>14, <2>4, <3>5, <3>6, <3>7, <4>1, FileComplete
    <3>9. PICK last : next.commands = Append(cmds2, last)
      BY <3>8
    <3>10. /\ Len(next.commands) = L + 2 /\ next.commands[L + 2] = last
           /\ \A i \in 1 .. L + 1 : next.commands[i] = cmds2[i]
      BY <1>9, <2>4, <3>9
    <3>11. Acknowledges(sv, next.commands, Len(next.commands) - 1)
      <4>1. Len(next.commands) - 1 = L + 1
        BY <1>9, <3>10
      <4>2. \A i \in sv.lastClientCommand + 1 .. L + 1 : i \in 1 .. L + 1
        BY <1>7, <1>9
      <4> QED BY <2>4, <3>10, <4>1, <4>2 DEF Acknowledges
    <3>12. Len(next.commands) = start + B + 2
      BY <1>3, <1>9, <1>10, <3>2, <3>10
    <3>13. \/ Fresh(next.cl) /\ next.commands[Len(next.commands)]
                                  = Command("download", next.cl.downloadName)
           \/ /\ next.cl.state = "complete" /\ next.cl.downloadName = NoFile
              /\ next.commands[Len(next.commands)] = Command("donedl", 0)
      <4>1. Len(cmds2) = L + 1 /\ cmds2 \in Seq(CommandType) /\ L \in Nat
        BY <1>9, <2>4
      <4>2. \A x : Append(cmds2, x)[L + 2] = x
        BY <4>1
      <4> QED BY <3>8, <3>10, <4>2
    <3>14. Got(sv, next.cl, rest, next.commands)
      BY <1>2, <3>3, <3>4, <3>11, <3>12, <3>13 DEF Got, f, B, C, top, start
    <3> QED BY <3>8, <3>14 DEF Phase, rest
  <2>8. CASE ~NoPak(c, m) /\ m.data # EndOfFile
    <3> DEFINE d == [Taken(c) EXCEPT !.written = Append(c.written, m.data)]
    <3>1. next = [cl |-> d, commands |-> cmds2]
      BY <1>1, <1>6, <1>12, <1>22, <2>3, <2>5, <2>8, AcceptBlockIs
    <3>2. m.data \in Data \ {EndOfFile}
      BY <1>6, <2>8 DEF MessageType
    <3>3. /\ d \in ClientType /\ d.downloadBlock = w + 1
          /\ d.state = "downloading" /\ d.downloadName = f
          /\ d.written = Append(c.written, m.data) /\ d.renamed = c.renamed
      BY <1>12, <3>2, WroteType
    <3> HIDE DEF d, cmds2
    <3>4. next.cl = d /\ next.commands = cmds2
      BY <3>1
    <3>5. w < B
      <4>1. ~(w >= Blocks[f])
        BY <1>2, <1>8, <2>1, <2>8, DataOfType
      <4> QED BY <1>8, <1>9, <4>1 DEF B
    <3>6. /\ C <= w + 1 /\ w + 1 + Len(rest) <= top /\ w + 1 <= B
          /\ Len(cmds2) = start + (w + 1)
      <4>1. C <= w + 1
        BY <1>3, <1>7, <1>8
      <4>2. w + 1 + Len(rest) <= top
        BY <1>3, <1>6, <1>7, <1>8, <1>16
      <4>3. w + 1 <= B
        BY <1>8, <1>9, <3>5
      <4>4. Len(cmds2) = start + (w + 1)
        BY <1>3, <1>8, <1>9, <1>10, <2>4
      <4> QED BY <4>1, <4>2, <4>3, <4>4
    <3>7. Receiving(sv, d, rest, cmds2)
      BY <1>2, <1>3, <1>15, <2>4, <3>3, <3>6
         DEF Receiving, f, top, start, C, W, B, rest
    <3>8. Written(d)
      <4>1. c.written \in Seq(Data \ {EndOfFile})
        BY <1>12 DEF ClientType
      <4>2. /\ Len(d.written) = w + 1 /\ d.written[w + 1] = m.data
            /\ \A i \in 1 .. w : d.written[i] = c.written[i]
        BY <1>14, <3>2, <3>3, <4>1
      <4>3. \A i \in 1 .. w + 1 : d.written[i] = DataOf(f, i - 1)
        <5>1. ASSUME NEW i \in 1 .. w + 1 PROVE d.written[i] = DataOf(f, i - 1)
          <6>1. CASE i = w + 1
            <7>1. i - 1 = w
              BY <1>8, <6>1
            <7> QED BY <2>1, <4>2, <6>1, <7>1
          <6>2. CASE i # w + 1
            <7>1. i \in 1 .. w
              BY <1>8, <6>2
            <7> QED BY <1>14, <4>2, <7>1
          <6> QED BY <6>1, <6>2
        <5> QED BY <5>1
      <4> QED BY <1>14, <3>3, <4>2, <4>3 DEF Written
    <3> QED BY <3>4, <3>7, <3>8 DEF Phase, rest
  <2> QED BY <2>6, <2>7, <2>8
<1> QED BY <1>17, <1>20, <1>21, <1>22

LEMMA CL_ParseDownloadStep ==
  ASSUME IInv, CL_ParseDownload
  PROVE  IInv'
<1> DEFINE m == Head(toClient)
           c == Reading(cl, m)
<1>1. /\ Types /\ Kept(sv) /\ sv \in ServerType /\ cl \in ClientType
      /\ toClient \in Seq(MessageType) /\ commands \in Seq(CommandType)
      /\ ~late => InSync(sv, cl, toClient, commands)
  BY DEF IInv, Types
<1>2. /\ cl.state # "ERR_DROP" /\ toClient # <<>> /\ toClient' = Tail(toClient)
      /\ UNCHANGED <<sv, late>>
  BY DEF CL_ParseDownload
<1>3. PICK next \in ParsedDownloads(c, commands, m) : cl' = next.cl /\ commands' = next.commands
  BY DEF CL_ParseDownload, Reading
<1>4. m \in MessageType
  BY <1>1, <1>2
<1>5. /\ c \in ClientType /\ c.state = cl.state /\ c.downloadName = cl.downloadName
      /\ c.downloadBlock = cl.downloadBlock /\ c.written = cl.written /\ c.renamed = cl.renamed
  BY <1>1, <1>4, ReadingType
<1> HIDE DEF c
<1>6. next.cl \in ClientType /\ next.commands \in Seq(CommandType)
  BY <1>1, <1>2, <1>4, <1>5, ParsedDownloadsType
<1>7. Tail(toClient) \in Seq(MessageType)
  BY <1>1, <1>2
<1>8. Types' /\ Kept(sv')
  BY <1>1, <1>2, <1>3, <1>6, <1>7 DEF Types
<1>9. ASSUME ~late'
      PROVE  InSync(sv', cl', toClient', commands')
  <2>1. InSync(sv, cl, toClient, commands)
    BY <1>1, <1>2, <1>9
  <2>2. Written(cl) /\ sv.state = "CS_CONNECTED"
    BY <2>1 DEF InSync
  <2>3. CASE Receiving(sv, cl, toClient, commands)
    <3>1. Phase(sv, next.cl, Tail(toClient), next.commands) /\ Written(next.cl)
      BY <1>1, <1>2, <1>3, <2>2, <2>3, BlockArrives DEF c
    <3> QED BY <1>2, <1>3, <2>2, <3>1 DEF InSync
  <2>4. CASE Refused(sv, cl, toClient, commands)
    <3>1. /\ cl.downloadName \in Files /\ cl.downloadBlock = 0
          /\ sv.downloadName = NoFile /\ Executed(sv, commands)
          /\ m.number = 0 /\ m.first /\ m.refused
      <4>1. m = toClient[1] /\ 1 \in 1 .. Len(toClient)
        BY <1>1, <1>2
      <4> QED BY <1>2, <2>4, <4>1 DEF Refused
    <3>2. c.downloadName # NoFile /\ m.first = (c.downloadBlock = 0)
      <4>1. m.first \in BOOLEAN
        BY <1>4 DEF MessageType
      <4>2. cl.downloadName # NoFile
        BY <3>1, DownloadAssumption
      <4> QED BY <1>5, <3>1, <4>1, <4>2
    <3>3. next = [cl |-> ErrDrop(c, "refused"), commands |-> commands]
      BY <3>1, <3>2 DEF ParsedDownloads
    <3> DEFINE e == ErrDrop(c, "refused")
    <3>4. /\ e.state = "ERR_DROP" /\ e.reason = "refused" /\ e.downloadName = cl.downloadName
          /\ e.downloadBlock = cl.downloadBlock
          /\ e.written = cl.written /\ e.renamed = cl.renamed
      BY <1>5, ErrDropType
    <3> HIDE DEF e
    <3>5. next.cl = e /\ next.commands = commands
      BY <3>3 DEF e
    <3>6. Refused(sv, e, Tail(toClient), commands)
      BY <3>1, <3>4 DEF Refused
    <3>7. Written(e)
      BY <2>2, <3>4 DEF Written
    <3> QED BY <1>2, <1>3, <2>2, <3>5, <3>6, <3>7 DEF InSync, Phase
  <2> QED BY <1>2, <2>1, <2>3, <2>4 DEF InSync, Phase, Asked, Granted, Got, Complete, NotAPak
<1> QED BY <1>8, <1>9 DEF IInv

-----------------------------------------------------------------------------
(* The theorems *)

LEMMA InitInv ==
  ASSUME Init
  PROVE  IInv
<1>1. /\ sv.state = "CS_CONNECTED" /\ sv.downloadName = NoFile /\ sv.download = FALSE
      /\ sv.lastClientCommand = 0 /\ toClient = <<>> /\ late = FALSE
  BY DEF Init
<1>2. EndOfFile \in Data
  BY DEF Data
<1>3. [i \in 0 .. MAX_DOWNLOAD_WINDOW - 1 |-> EndOfFile]
         \in [0 .. MAX_DOWNLOAD_WINDOW - 1 -> Data]
  BY <1>2
<1>4. sv \in ServerType
  BY <1>3 DEF Init, ServerType
<1>5. Kept(sv)
  BY <1>1 DEF Kept
<1>6. PICK list \in DownloadLists :
        LET first == NextDownload(
                       [ state               |-> "downloading",
                         reason              |-> "",
                         downloadList        |-> list,
                         downloadName        |-> NoFile,
                         downloadBlock       |-> 0,
                         written             |-> <<>>,
                         renamed             |-> <<>>,
                         reliableAcknowledge |-> 0 ], <<>>)
        IN  cl = first.cl /\ commands = first.commands
  BY DEF Init
<1> DEFINE c == [ state               |-> "downloading",
                  reason              |-> "",
                  downloadList        |-> list,
                  downloadName        |-> NoFile,
                  downloadBlock       |-> 0,
                  written             |-> <<>>,
                  renamed             |-> <<>>,
                  reliableAcknowledge |-> 0 ]
           f == Head(list)
           d == [c EXCEPT !.downloadName = f, !.downloadList = Tail(@),
                          !.downloadBlock = 0, !.written = <<>>]
           none == <<>>
           command == Command("download", f)
<1>7. list \in Seq(Files) /\ list # <<>> /\ f \in Files
  BY DownloadAssumption
<1>8. none \in Seq(CommandType) /\ none \in Seq(Renamed) /\ none \in Seq(Data \ {EndOfFile})
  OBVIOUS
<1>9. c \in ClientType
  BY <1>7, <1>8 DEF ClientType
<1>10. NextDownload(c, none) = AddReliableCommand(d, none, command)
  BY <1>7 DEF NextDownload
<1>11. Len(none) - d.reliableAcknowledge < MAX_RELIABLE_COMMANDS
  BY DownloadAssumption
<1>12. command \in CommandType
  BY <1>7, CommandTypes
<1>13. Tail(list) \in Seq(Files)
  BY <1>7
<1>14. /\ d \in ClientType /\ d.state = "downloading" /\ d.downloadName = f
       /\ d.downloadBlock = 0 /\ d.written = <<>> /\ d.renamed = <<>>
  <2>1. d = [c EXCEPT !.downloadName = f, !.downloadList = Tail(list),
                      !.downloadBlock = 0, !.written = none]
    OBVIOUS
  <2> HIDE DEF f, d
  <2> QED BY <1>7, <1>8, <1>13, <2>1 DEF ClientType
<1> DEFINE next == NextDownload(c, none)
<1>15. cl = d /\ commands = Append(none, command)
  <2>1. cl = next.cl /\ commands = next.commands
    BY <1>6
  <2> HIDE DEF d, f, command, none, c
  <2>2. next = AddReliableCommand(d, none, command)
    BY <1>10
  <2>3. next.cl = d /\ next.commands = Append(none, command)
    BY <1>8, <1>11, <1>12, <1>14, <2>2, AddReliableCommandType
  <2> QED BY <2>1, <2>3
<1> HIDE DEF d, f, command, next
<1>16. commands \in Seq(CommandType) /\ Len(commands) = 1 /\ commands[1] = command
  BY <1>12, <1>15
<1>17. Types
  <2>1. <<>> \in Seq(MessageType)
    OBVIOUS
  <2>2. toClient \in Seq(MessageType)
    BY <1>1, <2>1
  <2>3. late \in BOOLEAN
    BY <1>1
  <2>4. cl \in ClientType
    BY <1>14, <1>15
  <2> QED BY <1>4, <1>16, <2>2, <2>3, <2>4 DEF Types
<1>18. Asked(sv, cl, toClient, commands)
  BY <1>1, <1>7, <1>14, <1>15, <1>16 DEF Asked, Fresh, OneLeft, command
<1>19. Written(cl)
  BY <1>14, <1>15 DEF Written
<1> QED BY <1>1, <1>5, <1>17, <1>18, <1>19 DEF IInv, InSync, Phase

LEMMA NextStep ==
  ASSUME IInv, [Next]_vars
  PROVE  IInv'
<1>1. CASE UNCHANGED vars
  BY <1>1 DEF vars, IInv, Types
<1> QED BY <1>1, SV_WriteDownloadToClientStep, SV_RefuseDownloadStep, SV_ClientCommandStep,
           CL_ParseDownloadStep, LoseBlockStep DEF Next

\* The invariant the other theorems rest on: the values of the state, the
\* buffers of the window, and, until blocks are sent again too early, the phase
\* that the transfer is in, with what is on its way in each direction.
THEOREM DownloadInvariant == Spec => []IInv
<1>1. IInv /\ [Next]_vars => IInv'
  BY NextStep
<1> QED BY <1>1, InitInv, PTL DEF Spec

\* SV_WriteDownloadToClient never reads a block over one the client has not
\* acknowledged, however blocks and acknowledgements are lost, late or repeated.
THEOREM WindowCorrect == Spec => []WindowInv
<1>1. IInv => WindowInv
  <2> SUFFICES ASSUME IInv PROVE WindowInv
    OBVIOUS
  <2>1. TypeOK
    BY DEF IInv, Types, TypeOK, ServerType, ClientType
  <2>2. UnacknowledgedKept
    BY DEF IInv, Kept, UnacknowledgedKept
  <2> QED BY <2>1, <2>2 DEF WindowInv
<1> QED BY <1>1, DownloadInvariant, PTL

\* As long as nothing takes more than a second, CL_ParseDownload writes each
\* file block by block and renames it when it is whole, for lists and files of
\* any length, of more blocks than there are block numbers.
THEOREM ClientWritesTheFile == Spec => []WritesTheFile
<1>1. IInv => WritesTheFile
  <2> SUFFICES ASSUME IInv, ~late PROVE WritesTheFile
    BY DEF WritesTheFile
  <2>1. Written(cl) /\ cl \in ClientType
    BY DEF IInv, InSync, Types
  <2>2. DOMAIN cl.written = 1 .. Len(cl.written) /\ DOMAIN cl.renamed = 1 .. Len(cl.renamed)
    <3>1. cl.written \in Seq(Data \ {EndOfFile}) /\ cl.renamed \in Seq(Renamed)
      BY <2>1 DEF ClientType
    <3> QED BY <3>1
  <2> QED BY <2>1, <2>2 DEF WritesTheFile, Written
<1> QED BY <1>1, DownloadInvariant, PTL

\* And the acknowledgements the server executes are those it expects, the
\* client's ring of reliable commands has room for the ones of a window, and
\* no file fails its check: only a file that cannot be had ends the download.
THEOREM NobodyGivesUpTheConnection == Spec => []NobodyGivesUp
<1>1. IInv => NobodyGivesUp
  BY DEF IInv, InSync, Phase, NobodyGivesUp, Asked, Granted, Receiving, Got, Complete,
         Refused, NotAPak, Fresh
<1> QED BY <1>1, DownloadInvariant, PTL
=============================================================================

------------------------------ MODULE Download ------------------------------
(***************************************************************************)
(* Files the server sends to a client that lacks them: a sliding window    *)
(* of MAX_DOWNLOAD_WINDOW blocks, acknowledged block by block with the     *)
(* client's reliable commands, and sent again from the first block not     *)
(* acknowledged when nothing was sent or acknowledged for a second.        *)
(*                                                                         *)
(* The two directions are those of MessageChannel and ReliableCommands:    *)
(* blocks arrive in order or not at all; the client's commands are         *)
(* executed once and in order, after a delay.  Every command may be the    *)
(* last one of the packet it arrives in, so commands are executed one at   *)
(* a time.  A block holds <<file, index>>; the empty block ends a file.    *)
(***************************************************************************)
EXTENDS Integers, Sequences, FiniteSetsExt

CONSTANTS
  Files,                  \* the paks the server refers to
  DownloadLists,          \* the files a client may lack, in its order
  Blocks,                 \* Blocks[f]: how many blocks of data f has
  NotDownloadable,        \* files SV_WriteDownloadToClient refuses to open
  NotPaks,                \* files that do not start as a pak does
  EndOfFile,              \* the data of the empty block
  NoFile,
  MAX_DOWNLOAD_WINDOW,
  MAX_RELIABLE_COMMANDS,
  BLOCK_RANGE,            \* block numbers on the wire are remainders of this
  MaxInFlight             \* bound: blocks on their way

ASSUME DownloadAssumption ==
  /\ DownloadLists \subseteq Seq(Files) /\ <<>> \notin DownloadLists
  /\ Blocks \in [Files -> Nat]
  /\ NotDownloadable \subseteq Files /\ NotPaks \subseteq Files
  /\ NoFile \notin Files
  /\ \A f \in Files : \A i \in 0 .. Blocks[f] - 1 : <<f, i>> # EndOfFile
  /\ MAX_DOWNLOAD_WINDOW \in Nat \ {0}
  /\ MAX_RELIABLE_COMMANDS \in Nat /\ MAX_RELIABLE_COMMANDS > MAX_DOWNLOAD_WINDOW
  /\ BLOCK_RANGE \in Nat /\ BLOCK_RANGE > MAX_DOWNLOAD_WINDOW
  /\ MaxInFlight \in Nat \ {0}

VARIABLES
  sv,        \* the download of client_t
  cl,        \* the download of clc
  toClient,  \* blocks on their way, oldest first
  commands,  \* the reliable commands the client has issued
  late       \* history: blocks were sent again while a block or a command
             \* was still on its way, that is for more than a second

vars == <<sv, cl, toClient, commands, late>>

DataBlocks(f) == {<<f, i>> : i \in 0 .. Blocks[f] - 1}
Data == (UNION {DataBlocks(f) : f \in Files}) \cup {EndOfFile}
DataOf(f, i) == IF i < Blocks[f] THEN <<f, i>> ELSE EndOfFile

\* What a file holds once it is closed.
Contents(f) == [i \in 1 .. Blocks[f] |-> <<f, i - 1>>]

Slot(i) == i % MAX_DOWNLOAD_WINDOW

Command(name, arg) == [name |-> name, arg |-> arg]

-----------------------------------------------------------------------------
(* The client asks for the next file *)

\* CL_AddReliableCommand: pending commands must fit their ring.  (The slot kept
\* for the command of a client that disconnects is not for these.)
AddReliableCommand(c, cmds, command) ==
  IF Len(cmds) - c.reliableAcknowledge >= MAX_RELIABLE_COMMANDS
  THEN [cl |-> [c EXCEPT !.state = "ERR_DROP", !.reason = "overflow"],
        commands |-> cmds]
  ELSE [cl |-> c, commands |-> Append(cmds, command)]

\* CL_NextDownload once the file before, if any, passed its check, with
\* CL_BeginDownload or, after the last file, CL_DownloadsComplete.
NextDownload(c, cmds) ==
  IF c.downloadList # <<>>
  THEN LET f == Head(c.downloadList)
       IN  AddReliableCommand(
             [c EXCEPT !.downloadName = f, !.downloadList = Tail(@),
                       !.downloadBlock = 0, !.written = <<>>],
             cmds, Command("download", f))
  ELSE AddReliableCommand(
         [c EXCEPT !.downloadName = NoFile, !.state = "complete"],
         cmds, Command("donedl", 0))

\* CL_InitDownloads has compared the paks.
Init ==
  /\ sv = [ state               |-> "CS_CONNECTED",
            downloadName        |-> NoFile,
            download            |-> FALSE,   \* the file is open
            downloadCurrentBlock|-> 0,
            downloadClientBlock |-> 0,
            downloadXmitBlock   |-> 0,
            downloadBlocks      |-> [i \in 0 .. MAX_DOWNLOAD_WINDOW - 1 |-> EndOfFile],
            lastClientCommand   |-> 0,
            gamestateSent       |-> FALSE ]
  /\ \E list \in DownloadLists :
     LET first == NextDownload(
                    [ state               |-> "downloading",
                      reason              |-> "",
                      downloadList        |-> list,
                      downloadName        |-> NoFile,
                      downloadBlock       |-> 0,
                      written             |-> <<>>,
                      renamed             |-> <<>>,
                      reliableAcknowledge |-> 0 ], <<>>)
     IN  cl = first.cl /\ commands = first.commands
  /\ toClient = <<>>
  /\ late = FALSE

-----------------------------------------------------------------------------
(* The server sends blocks *)

CloseDownload(s) == [s EXCEPT !.download = FALSE, !.downloadName = NoFile]

DropClient(s) == [CloseDownload(s) EXCEPT !.state = "CS_ZOMBIE"]

\* Opening a file starts its block counters again.
OpenDownload(s) ==
  IF s.download THEN s
  ELSE [s EXCEPT !.download = TRUE, !.downloadCurrentBlock = 0,
                 !.downloadClientBlock = 0, !.downloadXmitBlock = 0]

\* Mutant: the window is one block too long.
FillWindowLong(s) ==
  LET last == Min({s.downloadClientBlock + MAX_DOWNLOAD_WINDOW + 1,
                   Blocks[s.downloadName] + 1})
  IN  [s EXCEPT
         !.downloadCurrentBlock = Max({@, last}),
         !.downloadBlocks = [i \in DOMAIN @ |->
            LET new == {b \in s.downloadCurrentBlock .. last - 1 : Slot(b) = i}
            IN  IF new = {} THEN @[i] ELSE DataOf(s.downloadName, Max(new))]]

\* Mutant: the empty block is not added.
FillWindowNoEnd(s) ==
  LET last == Min({s.downloadClientBlock + MAX_DOWNLOAD_WINDOW,
                   Blocks[s.downloadName]})
  IN  [s EXCEPT
         !.downloadCurrentBlock = Max({@, last}),
         !.downloadBlocks = [i \in DOMAIN @ |->
            LET new == {b \in s.downloadCurrentBlock .. last - 1 : Slot(b) = i}
            IN  IF new = {} THEN @[i] ELSE DataOf(s.downloadName, Max(new))]]

\* The blocks read ahead fill the window; the empty block follows the last.
FillWindow(s) ==
  LET last == Min({s.downloadClientBlock + MAX_DOWNLOAD_WINDOW,
                   Blocks[s.downloadName] + 1})
  IN  [s EXCEPT
         !.downloadCurrentBlock = Max({@, last}),
         !.downloadBlocks = [i \in DOMAIN @ |->
            LET new == {b \in s.downloadCurrentBlock .. last - 1 : Slot(b) = i}
            IN  IF new = {} THEN @[i] ELSE DataOf(s.downloadName, Max(new))]]

\* A message with a block.  The first block of a file carries the file's size
\* in front of its own, -1 when the file cannot be had.
BlockMessage(s, i) ==
  [ number |-> i % BLOCK_RANGE,
    first  |-> i = 0,
    refused|-> FALSE,
    data   |-> s.downloadBlocks[Slot(i)],
    ack    |-> s.lastClientCommand ]

Refusal(s) ==
  [BlockMessage(s, 0) EXCEPT !.refused = TRUE, !.data = EndOfFile]

InFlight == toClient # <<>> \/ sv.lastClientCommand < Len(commands)

\* Mutant: blocks are sent again from the start of the file.
SV_WriteDownloadFromStart ==
  /\ sv.state = "CS_CONNECTED" /\ sv.downloadName # NoFile
  /\ Len(toClient) < MaxInFlight
  /\ sv.downloadName \notin NotDownloadable
  /\ LET s == FillWindow(OpenDownload(sv))
         resend == s.downloadXmitBlock = s.downloadCurrentBlock
         xmit == IF resend THEN 0 ELSE s.downloadXmitBlock
     IN  /\ s.downloadClientBlock # s.downloadCurrentBlock
         /\ sv' = [s EXCEPT !.downloadXmitBlock = xmit + 1]
         /\ toClient' = Append(toClient, BlockMessage(s, xmit))
         /\ late' = (late \/ (resend /\ InFlight))
  /\ UNCHANGED <<cl, commands>>

\* SV_WriteDownloadToClient of a file that is open or can be.  If the whole
\* window was sent, a second must pass before it is sent again: time is
\* not modelled but for `late`.
SV_WriteDownloadToClient ==
  /\ sv.state = "CS_CONNECTED" /\ sv.downloadName # NoFile
  /\ Len(toClient) < MaxInFlight
  /\ sv.downloadName \notin NotDownloadable
  /\ LET s == FillWindow(OpenDownload(sv))
         resend == s.downloadXmitBlock = s.downloadCurrentBlock
         xmit == IF resend THEN s.downloadClientBlock ELSE s.downloadXmitBlock
     IN  /\ s.downloadClientBlock # s.downloadCurrentBlock
         /\ sv' = [s EXCEPT !.downloadXmitBlock = xmit + 1]
         /\ toClient' = Append(toClient, BlockMessage(s, xmit))
         /\ late' = (late \/ (resend /\ InFlight))
  /\ UNCHANGED <<cl, commands>>

\* SV_WriteDownloadToClient of a file it does not open.
SV_RefuseDownload ==
  /\ sv.state = "CS_CONNECTED" /\ sv.downloadName \in NotDownloadable
  /\ Len(toClient) < MaxInFlight
  /\ toClient' = Append(toClient, Refusal(sv))
  /\ sv' = CloseDownload(sv)
  /\ UNCHANGED <<cl, commands, late>>

-----------------------------------------------------------------------------
(* The server executes the client's commands *)

SV_BeginDownload_f(s, f) == [CloseDownload(s) EXCEPT !.downloadName = f]

SV_NextDownload_f(s, block) ==
  IF block # s.downloadClientBlock THEN DropClient(s)   \* broken download
  ELSE IF s.downloadBlocks[Slot(block)] = EndOfFile THEN CloseDownload(s)
  ELSE [s EXCEPT !.downloadClientBlock = @ + 1]

SV_StopDownload_f(s) == CloseDownload(s)

SV_DoneDownload_f(s) == [s EXCEPT !.gamestateSent = TRUE]

SV_ClientCommand ==
  LET n == sv.lastClientCommand + 1
      s == [sv EXCEPT !.lastClientCommand = n]
  IN  /\ sv.state = "CS_CONNECTED" /\ n <= Len(commands)
      /\ sv' = CASE commands[n].name = "download" -> SV_BeginDownload_f(s, commands[n].arg)
                 [] commands[n].name = "nextdl"   -> SV_NextDownload_f(s, commands[n].arg)
                 [] commands[n].name = "stopdl"   -> SV_StopDownload_f(s)
                 [] commands[n].name = "donedl"   -> SV_DoneDownload_f(s)
      /\ UNCHANGED <<cl, toClient, commands, late>>

-----------------------------------------------------------------------------
(* The client receives blocks *)

ErrDrop(c, why) == [c EXCEPT !.state = "ERR_DROP", !.reason = why]

\* CL_NextDownload after the file was renamed: its checksum must be one of
\* the paks the server refers to.
FileClosed(c, cmds) ==
  IF \E f \in Files : c.written = Contents(f)
  THEN NextDownload([c EXCEPT !.renamed = Append(@, [name |-> c.downloadName,
                                                    data |-> c.written])], cmds)
  ELSE [cl |-> ErrDrop(c, "checksum"), commands |-> cmds]

\* The block the client waits for.  Only a pak may be written; what CL_NextDownload
\* then finds under the name of another file is no pak either.
AcceptBlock(c, cmds, m) ==
  IF c.downloadBlock = 0 /\ (m.data = EndOfFile \/ m.data[1] \in NotPaks)
  THEN [cl |-> ErrDrop(c, "not a pak"), commands |-> Append(cmds, Command("stopdl", 0))]
  ELSE LET next == AddReliableCommand(c, cmds, Command("nextdl", c.downloadBlock))
           got == [next.cl EXCEPT !.downloadBlock = @ + 1]
       IN  IF next.cl.state = "ERR_DROP" THEN next
           ELSE IF m.data = EndOfFile THEN FileClosed(got, next.commands)
           ELSE [next EXCEPT !.cl = [got EXCEPT !.written = Append(@, m.data)]]

\* Mutant: blocks are taken as they come.
ParsedDownloadsAny(c, cmds, m) ==
  IF c.downloadName = NoFile
  THEN {AddReliableCommand(c, cmds, Command("stopdl", 0))}
  ELSE IF m.first /\ m.refused
  THEN {[cl |-> ErrDrop(c, "refused"), commands |-> cmds]}
  ELSE {AcceptBlock(c, cmds, m)}

\* What CL_ParseDownload makes of a message.  The size of the file is read only
\* when block 0 is awaited: in a block 0 that comes again it is taken for the
\* size of the block, and the rest of the message for whatever it looks like.
ParsedDownloads(c, cmds, m) ==
  IF c.downloadName = NoFile
  THEN {AddReliableCommand(c, cmds, Command("stopdl", 0))}
  ELSE IF m.number = 0 /\ m.first # (c.downloadBlock = 0)
  THEN {[cl |-> ErrDrop(c, "misread"), commands |-> cmds], [cl |-> c, commands |-> cmds]}
  ELSE IF m.first /\ m.refused
  THEN {[cl |-> ErrDrop(c, "refused"), commands |-> cmds]}
  ELSE IF m.number # c.downloadBlock % BLOCK_RANGE
  THEN {[cl |-> c, commands |-> cmds]}
  ELSE {AcceptBlock(c, cmds, m)}

\* CL_ParseServerMessage of a message that holds a block.
CL_ParseDownload ==
  /\ cl.state # "ERR_DROP" /\ toClient # <<>>
  /\ toClient' = Tail(toClient)
  /\ \E next \in ParsedDownloads(
                   [cl EXCEPT !.reliableAcknowledge = Head(toClient).ack],
                   commands, Head(toClient)) :
       cl' = next.cl /\ commands' = next.commands
  /\ UNCHANGED <<sv, late>>

LoseBlock ==
  /\ toClient # <<>>
  /\ toClient' = Tail(toClient)
  /\ UNCHANGED <<sv, cl, commands, late>>

Next ==
  \/ SV_WriteDownloadToClient
  \/ SV_RefuseDownload
  \/ SV_ClientCommand
  \/ CL_ParseDownload
  \/ LoseBlock

Spec == Init /\ [][Next]_vars

\* The step in which the client takes the block it waits for, or is refused.
Progress == CL_ParseDownload /\ (cl.downloadBlock' # cl.downloadBlock
                                 \/ cl.state' # cl.state
                                 \/ cl.downloadName' # cl.downloadName)

\* Every server frame runs SV_SendDownloadMessages; the client repeats its
\* commands until they are executed; of a block sent again and again one copy
\* arrives.
FairSpec ==
  /\ Spec
  /\ WF_vars(SV_WriteDownloadToClient \/ SV_RefuseDownload)
  /\ WF_vars(SV_ClientCommand)
  /\ SF_vars(Progress)

-----------------------------------------------------------------------------
CommandType == [name : {"download"}, arg : Files]
          \cup [name : {"nextdl"}, arg : Nat]
          \cup [name : {"stopdl", "donedl"}, arg : {0}]
MessageType == [number : 0 .. BLOCK_RANGE - 1, first : BOOLEAN,
                refused : BOOLEAN, data : Data, ack : Nat]

\* The values the state takes.
TypeOK ==
  /\ sv \in [ state : {"CS_CONNECTED", "CS_ZOMBIE"},
              downloadName : Files \cup {NoFile}, download : BOOLEAN,
              downloadCurrentBlock : Nat, downloadClientBlock : Nat,
              downloadXmitBlock : Nat,
              downloadBlocks : [0 .. MAX_DOWNLOAD_WINDOW - 1 -> Data],
              lastClientCommand : Nat, gamestateSent : BOOLEAN ]
  /\ cl.state \in {"downloading", "complete", "ERR_DROP"}
  /\ cl.downloadName \in Files \cup {NoFile}
  /\ cl.downloadBlock \in Nat /\ cl.reliableAcknowledge \in Nat
  /\ cl.written \in Seq(Data \ {EndOfFile})
  /\ toClient \in Seq(MessageType)
  /\ commands \in Seq(CommandType)
  /\ late \in BOOLEAN

\* A block the client has not acknowledged keeps its buffer: whatever is read
\* ahead, the server can send again what is missing.  (A block acknowledged
\* already may be sent with the data of a later one.)
UnacknowledgedKept ==
  sv.download =>
    \A i \in sv.downloadClientBlock .. sv.downloadCurrentBlock - 1 :
      sv.downloadBlocks[Slot(i)] = DataOf(sv.downloadName, i)

\* Types, and what the ring of buffers of SV_WriteDownloadToClient holds.
WindowInv == TypeOK /\ UnacknowledgedKept

\* As long as nothing takes longer than the second after which blocks are sent
\* again, what the client writes is the file it asked for, block by block,
\* whatever is lost and sent again, across the end of one file and the start of
\* the next.
WritesTheFile ==
  ~late =>
    /\ cl.downloadName # NoFile =>
         \A i \in DOMAIN cl.written : cl.written[i] = DataOf(cl.downloadName, i - 1)
    /\ \A i \in DOMAIN cl.renamed : cl.renamed[i].data = Contents(cl.renamed[i].name)

\* And neither side gives the connection up, but for a file that cannot be had:
\* no acknowledgement is out of step with downloadClientBlock, and the commands
\* that acknowledge a window fit the client's ring.
NobodyGivesUp ==
  ~late =>
    /\ sv.state = "CS_CONNECTED"
    /\ cl.state = "ERR_DROP" => cl.reason \in {"refused", "not a pak"}

\* Every file of the list arrives, and the client asks for the gamestate it
\* waits for, unless a file is no pak or cannot be had.  In the last case the
\* client learns of it only if the one message that says so is not lost.
DownloadsComplete ==
  <>(late \/ sv.gamestateSent \/ cl.reason = "not a pak"
          \/ cl.downloadName \in NotDownloadable)
=============================================================================

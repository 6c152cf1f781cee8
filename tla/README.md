# A TLA+ model of WolfPro

WolfPro is a Return to Castle Wolfenstein multiplayer engine in C: a dedicated
or listen server, a client, the game rules, renderers and an updater. This
directory models the parts that are hard to get right and hard to test: the
protocol between server and client, in which every message may be lost and
every counter wraps into a ring; the slots, limits and files a server manages
for its clients; the match, in which timers, players and restarts race; and the
updater, which may be cut short between any two operations on files.

## Inventory of the system

Paths are relative to `src/src/`.

| Component | State it keeps | Operations | Hard behaviour |
|---|---|---|---|
| Netchan (`qcommon/net_chan.c`) | `netchan_t`: sequences, `unsentBuffer`, `fragmentBuffer`; loopback rings; delayed packet queue | `Netchan_Setup/Transmit/TransmitNextFragment/Enqueue/Process`, `NET_SendPacket`, `NET_FlushPacketQueue` | lost, repeated, reordered fragments; messages that are an exact multiple of `FRAGMENT_SIZE`; a ring that overruns |
| Server net channel (`server/sv_net_chan.c`) | `netchan_start_queue .. netchan_end_queue` of `client_t` | `SV_Netchan_Transmit`, `..TransmitNextFragment`, `..FreeQueue`, encode/decode | messages handed over while another is still being fragmented; freeing at a drop |
| Client net channel (`client/cl_net_chan.c`) | `clc.netchan` | transmit, enqueue copies, process, encode/decode | scrambling keys looked up in reused ring slots |
| Reliable commands (`server/sv_main.c`, `server/sv_client.c`, `client/cl_main.c`, `client/cl_parse.c`, `client/cl_cgame.c`) | two rings of `MAX_RELIABLE_COMMANDS`, sequence and acknowledge counters on both sides | `SV_AddServerCommand`, `SV_ClientCommand`, `CL_AddReliableCommand`, `CL_ParseCommandString`, `CL_GetServerCommand` | overflow, wrap, repeats, gaps, drop inside a drop, disconnect on a full ring |
| Gamestate and configstrings (`server/sv_client.c`, `server/sv_init.c`) | `gamestateAck`, `gamestateMessageNum`, `csUpdated`, `sv.configstrings` | send, resend, acknowledge gamestate; `SV_SetConfigstring`; `SV_ClientEnterWorld`; `SV_SpawnServer` | changes during loading; resends in flight; map changes |
| Client life cycle (`server/sv_client.c`, `server/sv_main.c`) | `client_t.state` and its times, `timeoutCount`, `justConnected` | `SV_DirectConnect`, `SV_DropClient`, `SV_CheckTimeouts`, `SV_FinalMessage` | reconnects over live or zombie slots, timeouts racing packets, shutdown |
| Snapshots (`server/sv_snapshot.c`, `client/cl_parse.c`) | `frames[PACKET_BACKUP]`, shared `snapshotFrames` and entity storage rings, the client's `snapshots` ring and `parseEntities` | build, share, delta-encode, parse | a delta base overwritten on either side |
| Downloads (`server/sv_client.c`, `client/cl_parse.c`) | window of `MAX_DOWNLOAD_WINDOW` blocks, client/transmit/current block counters | `SV_WriteDownloadToClient`, `SV_NextDownload_f`, `CL_ParseDownload` | retransmission against acknowledgement, end of file |
| Rate limits and challenges (`server/sv_main.c`, `server/sv_client.c`) | 16384 leaky buckets in hash chains; HMAC challenges by time window | `SVC_RateLimitAddress`, `SVC_RateLimit`, drops and restores | chains that stay consistent while buckets are recycled; a bucket that was never used; windows at their edge |
| Main loop (`server/sv_main.c`, `qcommon/common.c`, `qcommon/cmd.c`) | event ring, command buffer, zone | `SV_Frame`, `Com_EventLoop`, `Cbuf_Execute` | order of handlers within a frame |
| WTV recording (`server/sv_wtvdemo.c`, `server/sv_wtvdiscord.c`) | recorder state, upload thread | start/stop/record, upload | stop racing a map change, a thread at shutdown |
| Match logic (`game/g_match.c`, `game/g_main.c`, `game/g_players.c`, `game/g_team.c`, `server/sv_ccmds.c`) | `g_gamestate` and the cvar behind it, ready flags, pause, timeouts, clock, command buffer | ready, join, leave, pause, unpause, `map_restart`, round end, intermission | timers against commands; the game acts on a copy of the cvar that is a frame old |
| Antilag (`game/g_unlagged.c`) | ring of past positions per client | store, shift, restore | shifting must be undone exactly |
| Updater (`updater/updater_core.c`, `updater/updater_main.c`, `client/cl_update.c`) | install, staging, `backup`, `backup.new`, `update.pending`, `result.txt` | apply, undo, roll back, check at the start of the game | a crash between two operations, operations that fail, a game started meanwhile, a pid that is another process's by now |
| The rest | | | renderers, cgame drawing, menus, bots, platform layers and vendored code: no protocol state |

Interaction: `SV_Frame` runs timeouts, the game and `SV_SendClientMessages`;
packets reach `SV_PacketEvent`, which runs the net channel and
`SV_ExecuteClientMessage`. What is unsent goes out between frames through
`SV_SendQueuedMessages`, paced by the client's rate. The client mirrors this:
`CL_PacketEvent` feeds `CL_ParseServerMessage`, the cgame pulls commands with
`CL_GetServerCommand`, and `CL_WritePacket` acknowledges everything in each of
its packets. The program is single-threaded here: what interleaves are the two
programs, the network between them, and handlers of one frame.

Within a server frame the game module runs after the packets; it changes the
state of a match by commands it appends to the server's buffer (`map_restart 0
<gamestate>`), which are executed at the start of the next frame, and by cvars
it reads back only then. The recorder (WTV) is driven from both sides of that
boundary. The updater is a process of its own: it and the game share nothing but
a directory.

## Modules

| Module | Models | State and actions |
|---|---|---|
| `Netchan` | one `netchan_t`, as operators | `Transmit`, `TransmitNextFragment`, `Process` map a channel half to the next one |
| `MessageChannel` | abstract: what a channel promises | `Send`, `Deliver`: at most once, in order, intact, possibly never |
| `SvNetchan` | server to client: queue, fragmenter, wire, reassembler | `netchan`, `netchan_queue`, `network` (every datagram ever sent, any of which may arrive any number of times, or never), `clNetchan`; one action per function |
| `ReliableCommands` | both command rings over a lossy channel | `sv` and `cl` are the records `client_t` and `clc`; one action per handler, but `SV_DropClient` in its three steps (`sv.drop`), since each command it adds may overflow and drop the client inside the drop |
| `Gamestate` | gamestate, configstrings (`CS_SYSTEMINFO` carries the `serverId`), map change, `map_restart`, download detour | `sv`, `cl`; the message handler is the composition of the functions it calls, in their order |
| `SnapshotStorage` | the ring of common snapshots and the ring of entities they lie in | the variables of `svs` under their names; one action per function; `built` is history |
| `Snapshots` | snapshots to one client among others, on top of `SnapshotStorage`: the common snapshot of a server frame, built for whoever comes first and shared by the rest; delta base, delta, reconstruction | `sv` (map and `client_t` with its `frames`), `cl` (`snapshots`, `parseEntities`); `sent` is history |
| `Download` | the sliding window of a download and the list of files a client lacks | `sv`, `cl` hold the download fields of `client_t` and `clc`; blocks travel a lossy ordered channel, acknowledgements are reliable commands |
| `Clients` | the slots of the server: who gets one, whose packets reach which, when it is free again | `clients` is `svs.clients`; `game` counts how often the game was told the last thing it heard of a slot; `players` are runs of the client program behind a router; `SV_SpawnServer`, `SV_MapRestart_f` and `SV_Shutdown` pass over all slots; `SV_Frame` is the whole frame: packets aside, time outs, zombies |
| `LeakyBucket` | the arithmetic of one rate limit, as operators | `Charged`, `Refunded`, `Penalised`, `Forgiven`, named for what `SVC_Rate*` do |
| `AddressRates` | abstract: every address has a rate of its own | `Request`, `TurnAway`, `Penalise`, `Forget`, `Tick` |
| `RateLimit` | buckets, hash chains, recycling, and the callers | `table` is `buckets`, `bucketHashes` and `start`, in which an unused bucket has hash 0, like those of chain 0, and is reclaimed like a used one; `pending` counts clients that were never heard; `meter` is history |
| `Updater` | installing and rolling back an update | `disk` survives every process; `upd` is the updater with its program counter, `game` the other process; every operation on a file is a step of its own |
| `Match` | a match in tournament mode, its timeouts, restarts and recording | one record `match`; what a frame may do is a set of outcomes: `Com_Frame` executes the command buffer, runs the game and expands what its code may choose; `CalculateRanks`, `Join` and `Leave` apply the rules (`CheckExitRules`) between two frames too |
| `MC*` | instances for TLC | |
| `SvNetchanProofs`, `SnapshotsProofs` (and the storage), `ReliableCommandsProofs`, `GamestateProofs`, `DownloadProofs`, `GameProofs` (`Clients` and `Match`), `RateLimitProofs`, `UpdaterProofs` | proofs | |

The layers are stacked by their promises: `SvNetchan` is proved to implement
`MessageChannel`, and model-checked to; `ReliableCommands` runs over a queue that
loses messages, which is `MessageChannel` with a bound; `Gamestate` and
`Download` run over the same queue and take from `ReliableCommands` that
commands are executed once and in order. `Snapshots` extends `SnapshotStorage`
and calls its operations inside its own actions, as the code does:
`SV_SendClientSnapshot` builds the common snapshot if it is the first to need
it, shares it if another client was (`CommonSnapshot`), and reads the storage as
it is then. That its actions are steps of `SnapshotStorage` holds by the way they
are written; it is a lemma, and carries the theorems about the storage over. What
could go wrong between the layers, that a client's frame points to entities that
are another frame's by now, is a property of its own (`FramesStillHold`).
Messages are lost when the next one overtakes them. `RateLimit` refines
`AddressRates` for the addresses whose hash is not 0 (`Apart`): the mapping reads
the rate of an address out of its bucket, if it has one.

A definition called a mutant in its comment is not part of the model: it is a
plausible mistake in the definition that follows it, kept to show that the
property it is paired with in `PROJECT.json` notices.

## Runs

| Run | Question | Bounds |
|---|---|---|
| `channel` | Are messages delivered intact, in order, at most once, whatever the network does and however they collide in the queue? Does the channel implement `MessageChannel`? Does everything handed to it reach the wire? | 4 messages of 1 to 4 bytes, fragments of 2: a plain datagram, both exact multiples, a remainder; every subset, order and repetition of datagrams |
| `reliable` | Are commands of both directions executed once, in order, with their own text, and do acknowledgements and rings agree? | rings of 2, 4 commands of the server besides those of a drop, 3 of the client, 2 messages in flight a direction: the server's ring wraps, is full, and overflows, by a command of the game, by the print of a drop and by its disconnect |
| `gamestate` | Does a client that plays have the server's configstrings across map changes, restarts and a download? | 1 string with 1 change, and `CS_SYSTEMINFO`; 2 new maps or restarts, 1 download, 4 messages |
| `snapshot_storage` | Is a frame clients may refer to ever overwritten? Is there always room? | 4 frames, 5 entities, worlds of 0 to 3 entities, 7 frames: both rings wrap, and each is the one that runs out |
| `snapshots` | Does the client rebuild what the server sent, and can it use every snapshot it receives? Does a frame the client may be sent a delta against still hold what was sent, while other clients have the storage overwritten? | 2 maps, restarts of a map, 5 messages, 5 frames of which 2 fit the storage, rings of 5 (a delta spans one message), packets with a move, without one, and with one that asks for no delta, 1 packet in flight; the client comes first in a frame, or shares, or is left out of it |
| `download` | Does every file arrive as it is, whatever is lost or sent again? Does a client that did nothing wrong stay connected? Does it ever end? | paks of 2 and 5 blocks alone and after one another, a pak the server lacks, a file that is no pak; window of 3, block numbers modulo 4, 3 blocks in flight, a command ring of 4: the smallest that holds a window of acknowledgements and the command after it |
| `updater` | Is there always a way back to a complete install? Is what the player is told true, and told at all? Is a hand-over ever left standing? | 3 files, the updater's own among them, one that comes and goes with the versions; 3 updates or rollbacks, a crash before any operation, any operation failing, the deletion of the pending file included; at every start of the game its old pid may be another process's |
| `clients` | Does the game hear of every client, and never more often than a drop can nest? Is what a slot holds freed? Is a player pushed out by another? Do slots come free? | 2 players behind one router, 2 slots, 2 ports, 2 clients an address, 3 connections, 2 packets on each, and one upset: a changed port, a new map, a `map_restart` or a restarted server |
| `rate_limit` | Do hash chains survive recycling? Does anybody get a second burst? Are addresses independent of one another? | 2 addresses in one chain and 1 in chain 0; 2 buckets, so that one is always wanted, and both are first used while chain 0 may hold one; burst 1, period 2, penalty up to 2, 1 unanswered client an address (`MaxPending`). The local player is in no run (`LocalAddresses = {}`): its path is covered by the theorems |
| `match` | Does the clock count what was played? Are timeouts kept and as long as they should be? Is every round recorded once? Does anything hang? | rounds of 2 frames and one more while the score is tied (`MaxOvertime`), 1 timeout a team, one typed command, lengths in the order of the code's |
| `overtaken_configstring`, `unreported_rollback` | violations, below | the smallest instance that shows them |

The bounds are small because each mechanism has a small cycle: a ring of two
wraps after two commands, an acknowledgement is stale after one more message,
a resend needs one lost message, a window of three is full, part full and empty
within a file of five blocks, and two buckets for three addresses make every
request a question of recycling. Nothing in the models compares a counter with
anything but another counter of the same behaviour or one of the constants. The
lengths in `MCMatch.cfg` and `MCClients.cfg` are not the code's in frames; they
keep the order of the code's lengths, and which of two timers ends first is what
the properties depend on. The instance of `RateLimit` is symmetric in the two
addresses of one chain; nothing checked with that symmetry is a liveness property.

Deadlock is not checked in `ReliableCommands`, `Gamestate`, `SnapshotStorage`,
`Snapshots` and `Download`: a dropped or disconnected client really stops, a
download ends, and the bounds end a behaviour. It is checked in `SvNetchan`,
`Updater`, `Clients`, `RateLimit` and `Match`.

The types of a component are checked together with the invariant that stands
next to them: `RingsInv`, `WorldInv`, `StorageInv`, `SnapshotsInv`, `WindowInv`, `DiskInv`,
`SlotsInv`, `TableInv` and `TimeoutsInv` are such conjunctions. `SvNetchan`'s
`TypeOK` is proved instead.

### Fairness

- `channel`, for `EverythingSent`: weak fairness of
  `SV_Netchan_TransmitNextFragment`. `SV_SendQueuedMessages` calls it for every
  client with something unsent whenever its rate allows, and the rate always
  does after some milliseconds.
- `download`, for `DownloadsComplete`: every frame runs
  `SV_SendDownloadMessages`; the client repeats its reliable commands until they
  are acknowledged, so they are executed in the end; and of a block sent again
  and again one copy arrives (strong fairness of `Progress`). The last is an
  assumption on the network, not on the code. The refusal of a file is sent
  only once, and nothing is assumed of it.
- `updater`, for `PendingEnds`: the updater goes on unless it dies, and the
  player quits and starts the game some day; and of the starts some finds that no
  process has the old pid and that the pending file can be deleted (strong
  fairness of `StartClears`). The last is an assumption on the machine: while
  another process has that pid, nothing is said and the file stays.
- `clients`, for `SlotsComeFree`, and `match`, for `NothingHangs`: the server
  runs its frames.

### Abstractions worth knowing

- `Clients`: a packet arrives at once or never; delays are those of the layers
  below. Bots and the player on the server's machine are left out.
- `RateLimit`: an age that outlasts its burst stops growing. The meter of
  `WithinBurst`, the penalty and the refinement are for addresses whose hash is
  not 0 (`Apart`). Of chain 0 `TableInv` says only that it ends, holds buckets of
  its own and can be walked back.
- `Clients`: that a drop may overflow is a choice here (`Tellings`), without the
  ring that decides it; `ReliableCommands` has the ring.
- `Match`: a team is one player, so a team is empty when that player leaves;
  `match_readypercent` is 100; `g_minGameClients`, votes, team locks and the two
  rounds of stopwatch are left out; `timeCurrent` is kept in rounds only. At most
  one command is waiting when somebody adds one. A round ended by the map's
  script during a pause is left out for size. Which team leads is a choice made at
  the time limit (`TimeIsUp`).
- `Updater`: writing `result.txt` and launching the updater do not fail, and
  there is one updater at a time.

## What the code does otherwise than it says

Two runs end in a violation of what a comment of the code says:

- `overtaken_configstring`: configstring commands of the previous map are
  executed after the gamestate of the next and put the old string back.
  (`sv_init.c`: "any configstring changes should be reliably transmitted".)
- `unreported_rollback`: a rollback from `update/backup` that dies leaves a mixed
  install, and the game starts on it without a word. (`cl_update.c`: "only a
  leftover backup.new means files changed".)

The other models contain behaviour worth the maintainers' attention. Where a
property excepts it, it excepts exactly this; the rest came up while modelling
and is no more than an observation.

Protocol
- With exactly `MAX_RELIABLE_COMMANDS` commands pending, the slot of the
  acknowledged command has been reused, and the message is unscrambled with
  another key than it was scrambled with (`KeysAgree`).
- `SV_DropClient` prints to the client it drops, and adds its disconnect, while
  the client is `CS_ACTIVE`. With exactly that many commands pending the print
  overflows, with one fewer the disconnect does, and the client is dropped a
  second time inside the first; the game is told twice that it left
  (`sv.drop` in `ReliableCommands`, `Tellings` in `Clients`). `sv_main.c` compares
  with `==` "so a broadcast print added by SV_DropClient() doesn't cause a
  recursive drop client".
- A gamestate queued behind unsent fragments is numbered as the message before it,
  and that message's acknowledgement taken for its own (`sv.unconfirmed` in
  `ConfigstringsAgree`).

Downloads
- When something took more than a second and blocks are sent again (`late`): the
  file size in block 0 is read only while the client awaits block 0, so a second
  copy of it is misread and may end the connection with "Invalid size"; and a
  copy of block 0 of one file is taken for block 0 of the next.
- The refusal of a file is sent once. If it is lost, the client waits until it
  times out (`DownloadsComplete` excepts that).

Slots
- `sv_maxclientsPerIP` (CVARS.md:74) can be exceeded: clients that have just
  connected are not counted. And a player at the limit cannot reconnect to a
  stale slot of its own.
- After a change of port a player may have two slots with one qport; the first
  takes the packets. The quick reject looks only at the first slot of an address.
- A client that the `map_restart` command itself overflows is dropped, and the
  game is then told that it connects all the same (`sv_ccmds.c:453`): a player
  without a client, until the slot is used again (`history.ghosts` in
  `GameAgrees`).
- `SV_ChangeMaxClients` copies `client_t` by value; `netchan_end_queue` of an empty
  queue points into the array that is then freed.
- `SV_FinalMessage` sends "twice to make sure", but the second pass finds nothing
  to send.

Rate limits
- `buckets` is zero-filled, which makes the type of an unused bucket `NA_BOT`, not
  `NA_BAD`: its first use is taken for the reclaiming of an expired bucket and sets
  `bucketHashes[0]` to `NULL` (`sv_main.c:1018-1023`). An address with hash 0 that
  had a bucket is not found any more and gets another, with a fresh burst and no
  penalty. The local player has hash 0.
- The penalty for a connect that was never answered ("enforce burst with
  progressive multiplier", `sv_main.c:642`) is not progressive: each connect that
  is accepted forgives one penalty, so it never exceeds the number of clients of
  the address that were unanswered at the same time (`PenaltyCountsSlots`).
- On a listen server, the walk along a chain stops at the local player's bucket;
  every address behind it shares one dummy bucket.

Updater (`history.lost` in `Recoverable`)
- While any process has the pid of the game that started an update, the game takes
  the updater for still at work (`cl_update.c:1192`): a mixture left by a crash is
  not reported at that start, but the pending file and `backup.new` stay, by which
  a later one reports it (`MixtureIsReported`).
- A second update after an interrupted one overwrites the only copies of the
  original files.
- A rollback from a directory whose deletion was cut short restores what is left
  of it.
- A second game started while the updater works may delete staged files before it
  has listed them.

Match
- An entity of a timeout that was ended early shortens the next timeout if that
  one is called within 15 seconds (`leftover` in `TimeoutLasts`).
- A team that was empty gets its timeouts back, in a pause too (`refilled` in
  `TimeoutsKept`; CVARS.md:119).
- `map_restart 0` typed in the first seconds of an intermission leaves the
  recording running into the next round; typed in a round, it makes one recording
  span two; in the warmup it begins a round nobody was ready for (`typed`).
- If a team is emptied in the two frames before the game learns of the
  intermission, the recording of the finished round is thrown away.
- A `reset_match` typed in the frame in which the countdown ends is lost.

## Proofs

| Module | Theorem | States |
|---|---|---|
| `SvNetchanProofs` | `ChannelInvariant`, `DeliveryIntact`, `DeliveryInOrder`, `Refinement` | `TypeOK /\ ChannelInv`, `DeliveredIntact`, `DeliveredInOrder`, `ImplementsChannel` |
| `SnapshotsProofs`, the storage | `StorageInvariant`, `FramesIntact`, `RoomForEveryWorld` | `StorageInv`, `LiveFramesIntact`, `AlwaysRoom` |
| `SnapshotsProofs`, a client | `SnapshotsInductive`, `SnapshotsCorrect`, `SnapshotsUsable`, `ClientFramesHold`, `ClientFramesIntact` | `SnapIInv`, `SnapshotsInv`, `EverySnapshotUsable`, `FramesStillHold`, `LiveFramesIntact` and `AlwaysRoom` |
| `ReliableCommandsProofs` | `CommandsInvariant`, `ServerCommandsOrdered`, `ClientCommandsOrdered`, `CommandsNeverLost`, `KeysAreShared`, `RingsCorrect` | `IInv`, `ServerCommandsInOrder`, `ClientCommandsInOrder`, `NoLostCommands`, `KeysAgree`, `RingsInv` |
| `GamestateProofs` | `GamestateInvariant`, `WorldCorrect`, `ConfigstringsReach` | `IInv`, `WorldInv`, `ConfigstringsAgree` |
| `DownloadProofs` | `DownloadInvariant`, `WindowCorrect`, `ClientWritesTheFile`, `NobodyGivesUpTheConnection` | `IInv`, `WindowInv`, `WritesTheFile`, `NobodyGivesUp` |
| `GameProofs`, clients | `ClientsInvariant`, `GameKnowsClients`, `SlotsCorrect`, `PlayersKeepTheirSlots` | `IInv`, `GameAgrees`, `SlotsInv`, `NobodyIsPushedOut` |
| `GameProofs`, a match | `MatchInvariant`, `MatchTimeouts`, `MatchClock`, `MatchRecords`, `MatchTimeoutLasts`, `MatchStartsOnlyReady` | `MatchInv`, `TimeoutsInv`, `ClockCountsPlay`, `RecordsTheRound`, `TimeoutLasts`, `StartsOnlyReady` |
| `RateLimitProofs` | `RatesAccounted`, `TableCorrect`, `BurstKept`, `PenaltyCounts`, `Refinement` | `IInv`, `TableInv`, `WithinBurst`, `PenaltyCountsSlots`, `ImplementsOwnRates` |
| `UpdaterProofs` | `UpdaterInvariant`, `InstallRecoverable`, `ResultSaysWhatHappened`, `MixtureReported` | `IInv`, `DiskInv`, `ResultIsTrue`, `MixtureIsReported` |

Each is proved for every value of the constants that the module's named `ASSUME`
admits, and for behaviours of any length. Each module begins with its inductive
invariant, which was checked with TLC on the component's run before it was
proved; then come the lemmas about the operators, one lemma per action, and the
theorems. None of the properties is inductive, and what had to be added says why
the code is right.

**Net channel.** `SvNetchanProofs` covers every fragment size, buffer length, set
of messages and number of messages. That a reassembled message is intact depends
on what the fragment buffer holds (`AssemblyInv`), which depends on every packet
on the wire belonging to one accepted message (`NetworkInv`), which depends on
the sequence number of a queued message being known before it is sent
(`QueueInv`). `ChannelInv` is their conjunction. The first part of
the module proves the lemmas about the operators of `Netchan`: what a fragment carries, what a step of the sender
leaves to send, and that processing a packet that carries a part of a message
extends a prefix of that message or completes it. The assumptions are that
`FRAGMENT_SIZE` is positive and messages fit the buffer.

**Snapshot storage.** The first part of `SnapshotsProofs` covers every size of both rings,
every list of worlds that fit the storage and any number of frames. The argument
lays the entities of all frames end to end on an endless row (`FirstOf`):
positions of the storage are that row modulo its length, and what is not free is
exactly the stretch the live frames take (`Accounted`). That stretch is never
longer than the storage, so two positions in it that fall on the same place are
the same position, and a write behind its end touches none of it: no frame from
`lastValidFrame` on is overwritten, and the error "Not enough snapshot storage" is
unreachable. `LiveFramesIntact` alone does not say how much is free, hence
`StorageInv`. What the loop has released up to a frame is a recursive function of
the model; that it is a difference of two positions on the row is proved from the
least natural number at which it would fail. The assumptions are that both rings
have a slot, and that every world fits the storage (`PACKET_BACKUP * MAX_GENTITIES`
against at most `MAX_GENTITIES`).

**Snapshots.** The second part of `SnapshotsProofs` stands on the first: the steps
of `Snapshots` that touch the storage are its operations. Three chains of facts
meet in the message on its way (`MessageInv`), which is either whole or a delta
against a snapshot that both sides hold alike. On the server, the frame of every
message since the gamestate points to a selection of one common snapshot and the
message held exactly that selection (`FrameInv`), so a frame from `lastValidFrame`
on still gives what was sent (`FramesIntact` in the form of `StoredIs`). On the
client, a valid slot holds the entities of its message as long as they are in the
ring of parsed entities, and every message since can have added at most
`MAX_SNAPSHOT_ENTITIES` of them (`KeptInv`). Between them, what the client
acknowledges it keeps until the ring comes round (`Keeps`), and a client that
asks for deltas has received a snapshot, not just the gamestate, of the map the
server is on (`InWorldInv`): this is where the condition under which
`CL_WritePacket` asks for deltas, the acknowledgement of gamestates and the reset at a map change are needed. The rest
is about sets of entities: that reading a delta undoes writing it
(`DeltaRebuilt`), that the entities of a snapshot take consecutive places
(`Places`), that writing them leaves what is less than a ring behind
(`WrittenIs`), and that invalidating the slots of lost messages leaves exactly
those less than a ring old (`SkippedSlots`). It covers every size of the three
rings, every sequence of worlds and views, any number of messages, packets, maps
and restarts. Assumed: entities of a common snapshot, and of a list of baselines,
have different numbers, and a common snapshot has at most `MAX_SNAPSHOT_ENTITIES`
of them. A snapshot read with the baselines of another map still fits
(`WholeFits`), so nothing has to be assumed about when the client learns of a new
map. `ClientFramesHold` is about what lies between the layers: a client remembers
the number of the common snapshot it was sent, built for it or shared, and as long
as `SV_WriteSnapshotToClient` finds that number not released, the entities its
frame points to are those that were sent, though they are overwritten for
others and numbers start anew with a map. `StorageImplemented`, a lemma, says that
every action of `Snapshots` is a step of `SnapshotStorage` or leaves it alone;
`ClientFramesIntact` uses it to carry the theorems about the storage over.

**Reliable commands.** That a command is executed in order with its own text
depends on every ring, and every message on its way, holding the last
`MAX_RELIABLE_COMMANDS` commands of its side in their slots (`RingHolds`); on no
message starting later than the command its receiver awaits (`ToClientMessages`,
`ToServerMessages`: otherwise there would be a gap); and on acknowledgements on
their way only moving forward (`Ordered`: otherwise one could free a slot that is
still needed). A drop adds its commands one by one, and after each of them the
invariant holds again: as long as no command has overflowed, no more than
`MAX_RELIABLE_COMMANDS` are pending and all are in their slots; one at most
overflows, since the comparison is `==` and nothing is acknowledged inside a drop,
and what the inner drop adds behind it is stored. The one command that overflowed was counted and never stored, so
its slot keeps the text one ring before it (`ServerTexts`), and the last command
of a client may be its disconnect (`ClientTexts`); the invariant speaks of the
texts that stand for the commands rather than excepting those two everywhere. A
message is decoded with a key read from a ring, so `KeysAgree` needs the ring to
hold still the acknowledged command, and fails only when the window is full.

**Gamestate.** It covers any set of configstrings and any number of changes, maps,
restarts, downloads, messages and losses. The messages on their way and those the
server has not sent yet are one row, numbered without a gap (`Flight`,
`Numbered`): that is how a gamestate's sequence can be known before it is sent,
and why what is numbered as a gamestate is one. The maps in that row only go
forward, and only a client that shows the server's id is taken for one that has
its map (`OnTheWay`, `IdsKnown`): together they give `WorldInv`. For
`ConfigstringsAgree`, every gamestate on its way that the client may still enter
the world with, and what the client has made of the last one it read, gets to be
what the server has, by the commands that follow it (`Reaches`, `Agrees`), but for
the strings still in `csUpdated`. A gamestate that is sent because there are too many such
strings empties `csUpdated`; from then on only the message it is numbered as is
an acknowledgement, and nothing older counts (`MayAcknowledge`, `Counts`): that is
what `GSA_SENT_MANY` is for, since an older one lacks those strings. It fails for
a gamestate that is queued and numbered as the message before it, hence
`unconfirmed`. All the ways in which
strings change are one lemma, `StringsChange`: whatever has changed is kept for
later or has a command. The commands in a message of the client are executed by
a recursive function; that each keeps the invariant is proved from the least
position at which one would not (`CommandsExecuted`). Assumed: the set of configstrings is
finite and has `CS_SYSTEMINFO` in it.

**Downloads.** The invariant names the phases of a transfer (`Asked`, `Granted`,
`Receiving`, `Got`, then the next file or `Complete`; or `Refused`, `NotAPak`), and
in each what is on its way in both directions. While a file is sent, the blocks
on their way are consecutive and end with the last block sent, none of them lies
before the block the client waits for, and the commands not yet executed are the
acknowledgements from `downloadClientBlock` on (`Receiving`). Blocks sent again
break that only if something was still on its way, which is what `late` records;
without it two blocks that the client can confuse are less than a window apart,
and their numbers differ by `DistinctRemainders` because the range of block
numbers is larger than the window. A block carries the acknowledgement of all
commands but those for fewer than a window of blocks, which is why
`AddReliableCommand` finds room. `WindowInv` does not need the phases and is proved also when
blocks come late. Assumed, besides types: the window is not empty, the range of
block numbers is larger than it (65536 and 48, `BLOCK_RANGE`), and the ring of
commands larger than it (`MAX_RELIABLE_COMMANDS`, 256: with a full window pending, the
next command is added only if one more fits); a block of data is not the
empty block.

**Slots.** The game's count of a slot (`GameAgrees`) follows from each slot's own
invariant (`ClientInv`: only a client that is connected holds anything, and is
waited for) and from its agreement with the game (`Told`: of a client that is
connected it was told so, once; of any other, at most twice that it left), for
every slot but those a `map_restart` overflows. Every handler changes one slot, or passes over
all of them with a function of one slot, so the proof has a lemma for each such
function and one for "a step that changes one slot". `NobodyIsPushedOut` needs in
addition that every slot `SV_DirectConnect` may choose is free, a zombie, or the
player's own by address and qport. Assumed: the lengths of the time outs are
natural numbers and at least one, and there are slots.

**Match.** The second part of `GameProofs` covers every length of rounds, timeouts,
waits and intermissions, as long as an intermission is longer than `StopDelay` and that is positive (10
and 3 seconds in the code), any number of timeouts and of typed commands.
`MatchInv` has a part for each property. The clock (`ClockInv`): in a round
`time - timeDelta`, `timeCurrent` and what was played are one number, and only in a
pause may the start the clients were told lag behind. Timeouts (`KeptInv`,
`PauseInv`): an entity of a timeout is never older than the timeout it ends, unless
it is left over from the one before; within a frame, the timeout has grown
older and its entities have not yet thought (`Younger`). The copy of the gamestate
(`SeenInv`): the two differ only when a countdown or an intermission has just begun,
and only a round has an end. The buffer (`BufferInv`): if a countdown was given up,
that is the first command in it, and after a restart `Cbuf_Execute` refuses the
others; what a player may type goes behind it. The recording (`RecordIn`), while nothing is
typed: the recording of a round goes on (`Going`), was kept (`WasKept`) or was
thrown away, and then the restart to warmup is in the buffer (`Thrown`). The last
case must not meet an end of the intermission, which would restart a match nobody
kept; `RecordIn` therefore says how old the intermission can be, and as two frames
may run between two executions of the buffer, the bound moves by one frame through
the stages of a frame. That an intermission is longer than `StopDelay` is needed here and
nowhere else, and that `StopDelay` is positive where an intermission begins between
two frames. What the rules do (`Rules`) is proved once, for a frame and for what happens between
two: a round ends or its intermission begins, and neither the buffer nor a
recording changes. A frame is proved stage by stage: one lemma for each function that
`G_RunFrame` calls, from the clock to `HandleEmptyTeams`, each with what it changes
(`Changes`) and what it keeps (`Stage`). Executing the buffer and letting the entities think are
recursive functions over the lists; `BufferExecuted` and `EntitiesThought` prove
once, from the least position at which it would fail, that what each element keeps the
whole list keeps. A second pass over the buffer finds only what `reset_match`
added, the restart to warmup (`FirstCommands`), and empties it. Assumed, besides
types and the length of the intermission: the two teams differ, and neither is a
value of `paused` that stands for none.

**Updater.** The invariant says what the updater has done up to its program
counter: an update touches nothing before `update/backup.new` is complete and its
manifest written (`Saved`), only files touched differ from what was there
(`Applying`), and while files are being restored what the rollback would make of
the install stays the same (`RollingBack`). A crash between any two file
operations forgets the program counter, so two conjuncts speak of the disk alone:
the install is complete or a rollback makes it so (`Recovers`), and a mixture has
left a `backup.new`, and was reported or can be, by the pending file or a failed
result (`Noticed`), which a start that finds the old pid in use, or cannot
delete the pending file, leaves as they are. The set of
files, the contents of the versions and the number of updates are arbitrary;
`history.lost` and `history.fromBackup` except what
[the section above](#what-the-code-does-otherwise-than-it-says) describes.

**Rate limits.** A chain is a sequence of different buckets whose links agree with
their neighbours (`IsChain`), and the table is right when for every hash but 0 there
is one that consists of exactly the buckets in use with that hash (`Linked`). The
first use of a bucket cuts chain 0 off at its head, any number of times, so of
its buckets the proof keeps only what survives that (`Loose`): they may be in
several pieces, but their links lead to buckets of hash 0, agree with their
neighbours, and nothing precedes the head. From that it follows that what is
reached from the head is a chain, and unlinking such a bucket touches none of
another hash. The two
writes to links, `Unlink` and `LinkAsHead`, are proved to take a bucket out of one
such sequence and to put it in front of another, for chains of any length; between
them the bucket is in none, which is why `Linked` is said of a set of buckets. The
walk along a chain is a recursive function; that it goes through the sequence and
then stays at its end is again proved from the least number at which it would
fail, and that it ends within `MAX_BUCKETS` steps because no bucket is in it twice.
What a lookup leaves (`BucketFor`) is then one of four: nothing could be recycled;
the dummy, behind a local player; the bucket of the address; or a new one, for
which one other address has lost a rate that had expired. `WithinBurst` needs the
meter to be bounded by the rate, `meter + age < (burst + 1) * Period` (`Holds`),
and for an address without a bucket by the part of a period that rounding drops
(`Metered`): that is what a recycled bucket may forget, so the comparison in
`MayRecycle` is exact. The refinement uses that nothing can tell a forgotten rate
from a new bucket (`FreshIs`). Assumed: burst, period, penalty and number of
buckets are positive, and the markers for "none" are no bucket and no address.

### What remains with TLC

- Every liveness property: `EverythingSent`, `DownloadsComplete`, `PendingEnds`,
  `SlotsComeFree`, `NothingHangs`. Fairness is out of the prover's reach.
- What the model itself bounds: the theorems hold whatever `MaxConnections`,
  `MaxByHand`, `MaxBuffer` and the like are, but the behaviours they speak of are
  those of the model, with the abstractions named above.

## Not modelled

- Message contents and their bit coding, and with it the size of a message: that
  a snapshot overflows is left out (the server then drops the client, unless
  `sv_dropClientOnOverflow` is 0).
- Which entities a client sees: portals and visibility are a choice among views.
- The loopback ring, the delayed packet queue and out-of-band packets; the event
  ring, the command buffer (but for its order in `Match`) and the zone.
- `sv_pure`, bots, a change of `sv_maxclients`.
- The archive of an update and its verification; redirects and transfer rates of
  downloads; the contents of recordings and their upload.
- Votes, referees, team locks, scores, stopwatch rounds; antilag.
- Floating-point physics, drawing, menus, bots' behaviour, platform layers and
  vendored code: no state a model could say something about that tests do not.

## Plan

Done: `Netchan`, `MessageChannel`, `SvNetchan`; `ReliableCommands`, `Gamestate`;
`SnapshotStorage`, `Snapshots`; `Download`; `Clients`; `LeakyBucket`,
`AddressRates`, `RateLimit`; `Updater`; `Match`; and the proofs about all of them:
every invariant and every action property that a passing run checks is a theorem.

Left:
1. Several players in a team of `Match`, votes and `start_match`.
2. The packet queue and loopback, the event ring and the command buffer; antilag;
   a change of `sv_maxclients`.

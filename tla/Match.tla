-------------------------------- MODULE Match --------------------------------
(***************************************************************************)
(* A match in tournament mode: ready, countdown, round and intermission    *)
(* (game/g_main.c, game/g_team.c), timeouts (game/g_match.c,               *)
(* game/g_players.c), the restarts between them (server/sv_ccmds.c) and    *)
(* the recording of every round (server/sv_wtvdemo.c).                     *)
(*                                                                         *)
(* Time is in game frames, with lengths that keep the order of those in    *)
(* the code; what is told to the players is left out, and so are votes,    *)
(* team locks and start_match.  match_readypercent is 100: everybody is    *)
(* ready, or the match does not begin.  A team is one player, who may join *)
(* or leave at any time.                                                   *)
(***************************************************************************)
EXTENDS Integers, Sequences, SequencesExt

CONSTANTS
  axis, allies,
  TimeLimit,        \* g_timelimit
  TimeoutCount,     \* match_timeoutcount
  TimeoutLength,    \* match_timeoutlength
  FirstThink,       \* 15 s: when a timeout is looked at first
  UnpauseLength,    \* 10 s
  TellEvery,        \* 500 ms: how often the start of the clock is told in a pause
  CountdownLength,
  StopDelay,        \* 3 s: the recording goes on into the intermission
  ExitDelay,        \* 10 s: the length of the intermission
  MaxOvertime,      \* bound: how long a tied score lets a round go on
  MaxTimeouts,      \* bound: timeouts called in one round
  MaxBuffer,        \* bound: commands in the buffer when somebody adds one
  MaxByHand         \* bound: commands typed at the console

PAUSE_NONE == "PAUSE_NONE"
PAUSE_UNPAUSING == "PAUSE_UNPAUSING"

ASSUME MatchAssumption ==
  /\ axis # allies /\ {axis, allies} \cap {PAUSE_NONE, PAUSE_UNPAUSING} = {}
  /\ {TimeLimit, TimeoutCount, TimeoutLength, FirstThink, UnpauseLength, CountdownLength,
      ExitDelay, MaxOvertime, MaxTimeouts, MaxBuffer, MaxByHand} \subseteq Nat
  /\ {TellEvery, StopDelay} \subseteq Nat \ {0}
  /\ ExitDelay > StopDelay

VARIABLE match  \* cvars, level, teamInfo, the recorder and the command buffer
matchVars == match

Teams == {axis, allies}

GS_WARMUP == "GS_WARMUP"
GS_WARMUP_COUNTDOWN == "GS_WARMUP_COUNTDOWN"
GS_PLAYING == "GS_PLAYING"
GS_INTERMISSION == "GS_INTERMISSION"

DP_PAUSEINFO == "DP_PAUSEINFO"
DP_UNPAUSING == "DP_UNPAUSING"

\* Commands in the buffer; nextmap is "map_restart 0" unless somebody set it.
ToPlaying == "map_restart 0"
ToWarmup == "map_restart 0 GS_WARMUP"
NextMap == "vstr nextmap"
ResetMatch == "reset_match"
Commands == {ToPlaying, ToWarmup, NextMap, ResetMatch}

NotRecording == 0  \* of the recorder; otherwise the rounds recorded, and one

\* History: the timeouts of the round, how long the last one is, the frames
\* that were played, the recordings that were kept, and the commands typed.
NothingYet ==
  [ called |-> [t \in Teams |-> 0], refilled |-> {}, timeout |-> 0, leftover |-> FALSE,
    played |-> 0, kept |-> <<>>, typed |-> 0 ]

\* InitGame: the level, and what a round starts with.
NewLevel(s) ==
  [s EXCEPT !.restarted = FALSE,
            !.paused = PAUSE_NONE,
            !.entities = <<>>,
            !.time = 0, !.timeCurrent = 0, !.timeDelta = 0, !.levelStart = 0,
            !.queued = FALSE, !.intermission = -1, !.stopSignaled = FALSE,
            !.countdown = 0,
            !.ready = {}, !.counted = {},
            !.history = [NothingYet EXCEPT !.typed = s.history.typed]]

MatchInit ==
  \E stopwatch \in BOOLEAN :
    match = [ stopwatch    |-> stopwatch,   \* g_gametype
              gamestate    |-> GS_WARMUP,   \* the cvar
              seen         |-> GS_WARMUP,   \* g_gamestate, its copy in the game
              restarted    |-> FALSE,       \* the level waits for its restart
              paused       |-> PAUSE_NONE,  \* or the team that called a timeout
              entities     |-> <<>>,        \* those of G_spawnPrintf
              time         |-> 0,           \* level.time - level.startTime
              timeCurrent  |-> 0,           \* likewise
              timeDelta    |-> 0,
              levelStart   |-> 0,           \* CS_LEVEL_START_TIME, likewise
              queued       |-> FALSE,       \* intermissionQueued
              intermission |-> -1,          \* frames since intermissiontime
              stopSignaled |-> FALSE,       \* wtvStopSignaled
              countdown    |-> 0,
              timeouts     |-> [t \in Teams |-> 0],
              players      |-> {},          \* teams with a player
              counted      |-> {},          \* the same, as last counted
              ready        |-> {},
              recorder     |-> NotRecording,
              buffer       |-> <<>>,
              history      |-> NothingYet ]

-----------------------------------------------------------------------------
(* The recorder, restarts and the command buffer *)

WTV_RecordStart(s) ==
  IF s.recorder = NotRecording
  THEN [s EXCEPT !.recorder = IF s.gamestate = GS_PLAYING THEN 2 ELSE 1] ELSE s

\* The recording is kept, unless it is aborted.
WTV_RecordStop(s, aborted) ==
  IF s.recorder = NotRecording THEN s
  ELSE [s EXCEPT !.recorder = NotRecording,
                 !.history.kept = IF aborted THEN @ ELSE Append(@, s.recorder - 1)]

\* Mutant: the timeouts of the last round count on.
RefillKept(s) == s.timeouts

\* Every team has its timeouts again.
Refill(s) == [t \in Teams |-> TimeoutCount]

\* What a round begins with; the recording of the countdown goes on.
BeginRound(s) ==
  WTV_RecordStart(
    [s EXCEPT !.timeouts = Refill(s),
              !.recorder = IF @ = NotRecording THEN NotRecording ELSE @ + 1])

\* The game starts afresh: G_InitGame, and frames in which nothing is counted.
RestartGame(s, gamestate) ==
  LET new == [NewLevel(s) EXCEPT !.gamestate = gamestate, !.seen = gamestate]
  IN  IF gamestate = GS_PLAYING THEN BeginRound(new) ELSE new

\* SV_TransitionGameState: there is a warmup before every match.
NewGamestate(s, wanted) == IF s.gamestate = GS_INTERMISSION THEN GS_WARMUP ELSE wanted

Refused(s, wanted) ==
  NewGamestate(s, wanted) = s.gamestate /\ NewGamestate(s, wanted) # GS_PLAYING

\* Mutant: the recording of a round that is given up goes on.
DiscardNot(s, wanted) == s

\* The recording of a round that is given up is thrown away.
Discard(s, wanted) == IF wanted = GS_PLAYING THEN s ELSE WTV_RecordStop(s, TRUE)

RestartMap(s, wanted) ==
  IF Refused(s, wanted) THEN Discard(s, wanted)
  ELSE RestartGame(Discard(s, wanted), NewGamestate(s, wanted))

\* The players are not ready any more, the round is given up.
Svcmd_ResetMatch_f(s) ==
  LET abort == s.seen = GS_PLAYING /\ ~s.stopSignaled
      stopped == IF abort THEN WTV_RecordStop(s, TRUE) ELSE s
  IN  [stopped EXCEPT !.ready = {}, !.stopSignaled = @ \/ abort, !.buffer = Append(@, ToWarmup)]

Wanted(command) == IF command = ToWarmup THEN GS_WARMUP ELSE GS_PLAYING

\* Mutant: a second restart in one frame is carried out.
IgnoredNever(run) == FALSE

\* The map is not restarted twice in a frame.
Ignored(run) == run.restarted

\* A command, and whether the map was restarted in this frame already: run is
\* the game and whether it was.
ExecuteCommand(run, command) ==
  IF command = ResetMatch THEN [run EXCEPT !.match = Svcmd_ResetMatch_f(@)]
  ELSE IF Ignored(run) THEN run
  ELSE [ match      |-> RestartMap(run.match, Wanted(command)),
         restarted |-> ~Refused(run.match, Wanted(command)) ]

\* The commands that are in the buffer; what they add is left in it.  As those
\* of a frame, the outcomes are a set, here always of one.
ExecuteBuffer(run) ==
  LET commands == run.match.buffer
      after[n \in 0 .. Len(commands)] ==
        IF n = 0 THEN {[run EXCEPT !.match.buffer = <<>>]}
        ELSE {ExecuteCommand(one, commands[n]) : one \in after[n - 1]}
  IN  after[Len(commands)]

\* The commands, and those they add behind them: the game then.
Cbuf_Execute(s) ==
  {run.match : run \in UNION {ExecuteBuffer(one) :
                              one \in ExecuteBuffer([match |-> s, restarted |-> FALSE])}}

-----------------------------------------------------------------------------
(* Timeouts *)

Spawned(kind, wait) == [kind |-> kind, age |-> 0, wait |-> wait]

\* What is left of the two waits (cSeconds); a timeout as long as the wait after
\* it is the mutant of TimeoutLeft.
UnpauseLeft(e) == UnpauseLength - e.age
TimeoutLeft(e) == TimeoutLength - e.age

\* The match goes on after a last wait.
TimeoutOver(s) ==
  [s EXCEPT !.paused = PAUSE_UNPAUSING, !.entities = Append(@, Spawned(DP_UNPAUSING, 1))]

\* An entity thinks: it is put back to think again a second later, or freed.
G_delayPrint(s, e) ==
  LET again == [s EXCEPT !.entities = Append(@, [e EXCEPT !.wait = 1])]
  IN  CASE e.kind = DP_PAUSEINFO /\ s.paused \in Teams ->
             IF TimeoutLeft(e) > 1 THEN again ELSE TimeoutOver(s)
        [] e.kind = DP_UNPAUSING /\ s.paused = PAUSE_UNPAUSING ->
             IF UnpauseLeft(e) > 1 THEN again
             ELSE [s EXCEPT !.paused = PAUSE_NONE, !.levelStart = s.timeDelta]
        [] OTHER -> s

G_RunThink(s, e) ==
  LET older == [e EXCEPT !.age = @ + 1, !.wait = @ - 1]
  IN  IF older.wait > 0 THEN [s EXCEPT !.entities = Append(@, older)] ELSE G_delayPrint(s, older)

\* Every entity thinks in its turn.
RunEntities(s) ==
  LET after[n \in 0 .. Len(s.entities)] ==
        IF n = 0 THEN {[s EXCEPT !.entities = <<>>]}
        ELSE {G_RunThink(one, s.entities[n]) : one \in after[n - 1]}
  IN  after[Len(s.entities)]

\* Mutant: what was paused before is forgotten.
ElapsedPaused(s) == s.time + 1

\* What was played when the clock has gone on.
Elapsed(s) == s.time + 1 - s.timeDelta

\* The clock of the round stands while it is paused; its start is told to the
\* clients now and then, and when it goes on.
Clock(s) ==
  LET running == s.paused = PAUSE_NONE
      delta == IF running THEN s.timeDelta ELSE s.time + 1 - s.timeCurrent
  IN  [s EXCEPT !.time = @ + 1,
                !.timeCurrent = IF running THEN Elapsed(s) ELSE @,
                !.timeDelta = delta,
                !.levelStart = IF ~running /\ s.time % TellEvery = 0 THEN delta ELSE @,
                !.history.played = IF running THEN @ + 1 ELSE @]

-----------------------------------------------------------------------------
(* A frame of the game *)

\* The clock of the frame, kept in a round only, and the copy of the cvar
\* (G_UpdateCvars).
BeginFrame(s) ==
  LET clock == IF s.gamestate = GS_PLAYING THEN Clock(s) ELSE s
  IN  [clock EXCEPT !.seen = s.gamestate,
                    !.intermission = IF @ >= 0 THEN @ + 1 ELSE @,
                    !.history.timeout = CASE s.paused \in Teams -> @ + 1
                                          [] s.paused = PAUSE_NONE -> 0
                                          [] OTHER -> @]

\* A team reaches its objective: the map script ends the round.
LogExit(s) == IF s.seen = GS_PLAYING THEN [s EXCEPT !.queued = TRUE] ELSE s

G_playersReady(s) == s.players = Teams /\ s.ready = Teams

CheckGameState(s) ==
  IF s.intermission >= 0 /\ s.gamestate # GS_INTERMISSION
  THEN [s EXCEPT !.gamestate = GS_INTERMISSION]
  ELSE CASE s.gamestate = GS_WARMUP /\ G_playersReady(s) ->
              WTV_RecordStart([s EXCEPT !.gamestate = GS_WARMUP_COUNTDOWN, !.countdown = 0])
         [] s.gamestate = GS_WARMUP_COUNTDOWN /\ ~G_playersReady(s) ->
              [s EXCEPT !.buffer = Append(@, ToWarmup)]   \* G_readyReset
         [] OTHER -> s

ExitLevel(s) == [s EXCEPT !.buffer = Append(@, NextMap), !.intermission = -1]

\* At the time limit the round is over, unless the score is tied.
TimeIsUp(s) == {LogExit(s)} \cup (IF s.timeCurrent < TimeLimit + MaxOvertime THEN {s} ELSE {})

\* What the rules may make of the game.
CheckExitRules(s) ==
  CASE s.intermission >= ExitDelay -> {ExitLevel(s)}
    [] s.intermission < 0 /\ s.queued -> {[s EXCEPT !.queued = FALSE, !.intermission = 0]}
    [] s.intermission < 0 /\ ~s.queued /\ s.paused = PAUSE_NONE /\ s.timeCurrent >= TimeLimit ->
         TimeIsUp(s)
    [] OTHER -> {s}

\* The recording of a round ends in the intermission.
StopRecording(s) ==
  IF s.intermission >= StopDelay /\ ~s.stopSignaled
  THEN WTV_RecordStop([s EXCEPT !.stopSignaled = TRUE], FALSE) ELSE s

\* Mutant: the level waits for a restart nobody asks for.
CountedDownOnly(s) == [s EXCEPT !.restarted = TRUE]

CountedDown(s) == [s EXCEPT !.buffer = Append(@, ToPlaying), !.restarted = TRUE]

CountDown(s) ==
  IF s.seen # GS_WARMUP_COUNTDOWN THEN s
  ELSE IF s.countdown < CountdownLength THEN [s EXCEPT !.countdown = @ + 1]
  ELSE CountedDown(s)

SortedActivePlayers(s) == [s EXCEPT !.counted = s.players]

\* An empty team gets its timeouts back; its match is given up, unless it is
\* paused.
G_teamReset(s, t) ==
  LET reset == [s EXCEPT !.timeouts[t] = TimeoutCount, !.history.refilled = @ \cup {t}]
  IN  IF s.paused = PAUSE_NONE /\ s.seen = GS_PLAYING THEN Svcmd_ResetMatch_f(reset) ELSE reset

HandleEmptyTeams(s) ==
  CASE s.seen = GS_INTERMISSION \/ (s.seen = GS_PLAYING /\ s.stopwatch) -> s
    [] OTHER -> IF axis \notin s.counted THEN G_teamReset(s, axis)
                ELSE IF allies \notin s.counted THEN G_teamReset(s, allies) ELSE s

\* What a frame may make of the game: the round may be won, but not in a pause.
G_RunFrame(s) ==
  LET thought == UNION {RunEntities(x) : x \in {BeginFrame(s)}}
      played == IF s.paused = PAUSE_NONE THEN thought \cup {LogExit(x) : x \in thought} ELSE thought
      ruled == UNION {CheckExitRules(x) : x \in {CheckGameState(y) : y \in played}}
      counted == {SortedActivePlayers(CountDown(x)) : x \in {StopRecording(y) : y \in ruled}}
  IN  IF s.restarted THEN {s} ELSE {HandleEmptyTeams(x) : x \in counted}

-----------------------------------------------------------------------------
(* Actions *)

\* The commands, and one or two frames of the game.
Com_Frame ==
  \E executed \in Cbuf_Execute(match) :
    \E one \in G_RunFrame(executed) : match' \in {one} \cup G_RunFrame(one)

\* The scores are counted anew between two frames, and with them it is seen
\* whether the round is over.
CalculateRanks == match' \in CheckExitRules(match)

Join(t) ==
  /\ t \notin match.players
  /\ match' \in CheckExitRules([match EXCEPT !.players = @ \cup {t}])

\* ClientDisconnect; the teams are as last counted.
Leave(t) ==
  /\ t \in match.players
  /\ Len(match.buffer) < MaxBuffer
  /\ \E ranked \in CheckExitRules([match EXCEPT !.players = @ \ {t}, !.ready = @ \ {t}]) :
       match' = HandleEmptyTeams(ranked)

G_ready_cmd(t, state) ==
  /\ t \in match.players
  /\ match.seen \notin {GS_PLAYING, GS_INTERMISSION}
  /\ state \/ match.seen # GS_WARMUP_COUNTDOWN
  /\ match' = [match EXCEPT !.ready = IF state THEN @ \cup {t} ELSE @ \ {t}]

Pause(t) ==
  /\ t \in match.players
  /\ match.seen = GS_PLAYING
  /\ match.paused = PAUSE_NONE /\ match.counted = Teams /\ match.timeouts[t] > 0
  /\ match.history.called[t] < MaxTimeouts
  /\ match' = [match EXCEPT
       !.timeouts[t] = @ - 1,
       !.paused = t,
       !.entities = Append(@, Spawned(DP_PAUSEINFO, FirstThink)),
       !.history.called[t] = @ + 1,
       !.history.timeout = 0,
       !.history.leftover = \E i \in DOMAIN match.entities : match.entities[i].kind = DP_PAUSEINFO]

Unpause(t) ==
  /\ t \in match.players
  /\ match.seen = GS_PLAYING
  /\ match.paused = t
  /\ match' = TimeoutOver(match)

\* Typed at the console, at any time.
ByHand(command) ==
  /\ match.history.typed < MaxByHand
  /\ Len(match.buffer) < MaxBuffer
  /\ match' = [match EXCEPT !.buffer = Append(@, command), !.history.typed = @ + 1]

MatchNext ==
  \/ Com_Frame \/ CalculateRanks
  \/ \E t \in Teams : \/ Join(t) \/ Leave(t) \/ Pause(t) \/ Unpause(t)
                     \/ \E state \in BOOLEAN : G_ready_cmd(t, state)
  \/ \E command \in {ToPlaying, ResetMatch} : ByHand(command)

MatchSpec == MatchInit /\ [][MatchNext]_matchVars
FairMatchSpec == MatchSpec /\ WF_matchVars(Com_Frame)   \* the server runs its frames

-----------------------------------------------------------------------------
(* Properties *)

Recorded == {GS_WARMUP_COUNTDOWN, GS_PLAYING, GS_INTERMISSION}

\* The types, and what of them is between bounds: a team never calls more
\* timeouts than it has, and never more than a few entities think.
MatchTypeOK ==
  /\ match.gamestate \in Recorded \cup {GS_WARMUP}
  /\ match.seen \in Recorded \cup {GS_WARMUP}
  /\ match.paused \in Teams \cup {PAUSE_NONE, PAUSE_UNPAUSING}
  /\ match.timeouts \in [Teams -> 0 .. TimeoutCount]
  /\ match.players \subseteq Teams /\ match.counted \subseteq Teams /\ match.ready \subseteq match.players
  /\ match.intermission \in -1 .. ExitDelay
  /\ match.countdown \in 0 .. CountdownLength
  /\ match.recorder \in Nat
  /\ Range(match.buffer) \subseteq Commands

\* However often the round was paused, its clock (level.timeCurrent) is what
\* was really played, and the clients, who count from the start they were
\* told, show the same.
ClockCountsPlay ==
  match.gamestate = GS_PLAYING /\ match.paused = PAUSE_NONE
    => /\ match.timeCurrent = match.history.played
       /\ match.time - match.levelStart = match.timeCurrent

\* In a round a team has called as many timeouts as it lost, but for the team
\* that was empty meanwhile (G_teamReset).
TimeoutsKept ==
  match.gamestate = GS_PLAYING =>
    \A t \in Teams \ match.history.refilled :
      match.timeouts[t] + match.history.called[t] = TimeoutCount

\* Types, and the account of timeouts (G_teamReset, Cmd_Pause).
TimeoutsInv == MatchTypeOK /\ TimeoutsKept

\* A timeout that nobody ends lasts as long as it should, but for one called
\* when the entity of the timeout before was still waiting (G_delayPrint).
TimeoutLasts ==
  [][ (/\ match.paused \in Teams /\ match'.paused \notin Teams
       /\ match'.history.timeout > match.history.timeout)
      => match'.history.timeout >= TimeoutLength - 1 \/ match'.history.leftover ]_matchVars

\* A round begins only if the countdown was not given up in the meantime: of
\* the two restarts that are then in one frame, the first one counts.
StartsOnlyReady ==
  [][ match.gamestate = GS_WARMUP_COUNTDOWN /\ match'.gamestate = GS_PLAYING
      => ToWarmup \notin Range(match.buffer) ]_matchVars

\* Unless somebody restarts by hand: what is recorded is the countdown, the
\* round and the beginning of its intermission; a round that was played to
\* its end is kept, in one recording, and no other is.
RecordsTheRound ==
  match.history.typed = 0 =>
    /\ match.recorder # NotRecording <=> match.gamestate \in Recorded /\ ~match.stopSignaled
    /\ match.history.kept \in {<<>>, <<1>>}
    /\ NextMap \in Range(match.buffer) => match.history.kept = <<1>>

\* Whatever the players do, a timeout ends, a level that waits for its restart
\* is restarted and an intermission is followed by a warmup.
NothingHangs ==
  /\ match.paused # PAUSE_NONE ~> match.paused = PAUSE_NONE
  /\ match.restarted ~> ~match.restarted
  /\ match.gamestate = GS_INTERMISSION ~> match.gamestate = GS_WARMUP
=============================================================================

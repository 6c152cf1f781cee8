----------------------------- MODULE MCSnapshots -----------------------------
EXTENDS Snapshots, Functions

Entity(n, s) == [number |-> n, state |-> s]

MCEntityStates == {Entity(n, s) : n \in 1 .. 3, s \in {"zero", "a", "b"}}

\* Entities stay, change, come and go from one frame to the next.
MCWorldCycle ==
  <<<<Entity(1, "a"), Entity(2, "a")>>, <<Entity(1, "a"), Entity(3, "b")>>,
    <<Entity(2, "b"), Entity(3, "b")>>>>
MCWorlds == Range(MCWorldCycle)

\* Without a gamestate the baselines are zero.
MCBaselines ==
  [m \in 0 .. 2 |-> {Entity(n, <<"zero", "a", "b">>[m + 1]) : n \in 1 .. 3}]

MCViews == {1 .. 3}
MCMoves == {"clc_move", "clc_moveNoDelta"}
MCAllMoves == MCMoves \cup {"none"}
=============================================================================

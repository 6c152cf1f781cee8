------------------------- MODULE MCSnapshotStorage -------------------------
EXTENDS SnapshotStorage

CONSTANTS a, b
MCEntityStates == {a, b}
MCWorlds == {<<>>, <<a>>, <<b, a>>, <<a, b, b>>}
=============================================================================

--------------------------- MODULE MCMultiplexer ---------------------------
EXTENDS Multiplexer

CONSTANTS k1, k2

\* The items of k1 may call execute for k2, not the other way round.
NestsInOrder == {<<k1, k2>>}
=============================================================================

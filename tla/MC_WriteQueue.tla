---------------------------- MODULE MC_WriteQueue ----------------------------
EXTENDS WriteQueue, TLC

CONSTANTS w1, w2, w3

MCWriters == {w1, w2, w3}
MCTwoWriters == {w1, w2}
MCOneWriter == {w1}

=============================================================================

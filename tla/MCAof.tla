------------------------------- MODULE MCAof -------------------------------
EXTENDS Aof, TLC

CONSTANTS b1, b2

MCBatch == {b1, b2}
MCImages == {<<>>, <<b2>>}

=============================================================================

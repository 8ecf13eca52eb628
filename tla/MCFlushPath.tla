---------------------------- MODULE MCFlushPath -----------------------------
EXTENDS FlushPath

\* One negative key, and two whose order as unpadded text is the other way round
MCKeys == {-1, 2, 10}
=============================================================================

--------------------------- MODULE MCSpiffsCache ---------------------------
EXTENDS SpiffsCache, TLC
MCData == {<<1>>, <<2, 2>>}
MCBlockPages == {Pix}
MCSymmetry == Permutations(Objs) \cup Permutations(Fds)
=============================================================================

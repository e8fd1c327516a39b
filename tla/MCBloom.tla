------------------------------- MODULE MCBloom -------------------------------
EXTENDS Bloom

CONSTANTS w1, w2, c1

MCWords == {w1, w2}
MCCursors == {c1}
MCHashes == 2
MCNFilter == 2
\* 3 and 19 collide modulo 16, 5 shares their byte, 12 lands in the other.
MCHashValues == {3, 5, 12, 19}
=============================================================================

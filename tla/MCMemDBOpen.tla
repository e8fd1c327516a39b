----------------------------- MODULE MCMemDBOpen -----------------------------
(* Three handles, one registry key and three memDB ids.                    *)
EXTENDS MemDBOpen

CONSTANTS h1, h2, h3, k1, d1, d2, d3

MCHandles == {h1, h2, h3}
MCKeys == {k1}
MCDBs == {d1, d2, d3}
=============================================================================

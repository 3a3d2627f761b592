----------------------------- MODULE MCQuicEcho -----------------------------
\* QuicEcho on a small instance.
EXTENDS QuicEcho

CONSTANTS good, bad

TwoConnections == {good, bad}
OneStaller == {bad}
Rounds == [c \in TwoConnections |-> IF c = good THEN 2 ELSE 1]
=============================================================================

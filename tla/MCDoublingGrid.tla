--------------------------- MODULE MCDoublingGrid ---------------------------
\* Model checking of DoublingGrid: the two outer levels.
EXTENDS DoublingGrid

BothOuter == {-4, 4}

\* Each set combines faults that one property survives together.
Combinations ==
  { {"close", "read", "refuse", "double"},
    {"opposite", "close", "read", "refuse", "rush"},
    {"opposite", "close", "refuse", "rush"},
    {"opposite", "refuse", "double", "rush"} }

OnlyClose == { {"close"} }
=============================================================================

--------------------------- MODULE MCSlidingGrid ---------------------------
\* Model checking of SlidingGrid: three levels above the anchor whose both sides are
\* within reach of price, one below it, and more to rest orders at.
EXTENDS SlidingGrid

OneBelow == -1
=============================================================================

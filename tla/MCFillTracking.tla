--------------------------- MODULE MCFillTracking ---------------------------
\* Model checking of FillTracking: two levels, two orders or trades at a time.
EXTENDS FillTracking, TLC

IdSymmetry == Permutations(Ids)

\* Each set combines faults that one property survives together.
Combinations ==
  { {"close", "crowded"},
    {"whipsaw", "expire", "close", "crowded", "netted"},
    {"whipsaw", "slip"},
    {"poll", "pending", "cancel", "close", "lost", "abort", "crowded"},
    {"between", "whipsaw", "expire", "pending", "cancel", "close", "lost", "netted"},
    FaultKinds \ {"close", "netted", "slip"} }

BetweenOnly == { {"between"} }
=============================================================================

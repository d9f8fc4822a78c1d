---------------------------- MODULE MCSessionPnl ----------------------------
\* Model checking of SessionPnl: limits of one and two moves, three days.
EXTENDS SessionPnl

\* Each set combines faults that one property survives together.
Combinations == {{"lag"}, {"none", "lag"}, {"none", "read"}, FaultKinds}

\* States differ only in what may still be read: the figures pushed for one
\* cycle are overwritten at the start of the next.
Reading == IF pc \in {"generate", "log", "drain"} THEN <<lastBalance, dailyReal, unreal>>
                                                  ELSE <<>>
View ==
  <<faults, accountVars, clockVars, sessionStart, dayStart, balanceDay, gridLogged,
    flagVars, strategyDay, pc, got, bankedAt, haltDay, Reading,
    IF pc = "idle" THEN 0 ELSE sessionReal, IF anchored THEN openedAt ELSE 0>>
=============================================================================

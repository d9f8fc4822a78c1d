--------------------------- MODULE MCBacktestJobs ---------------------------
\* Model checking of BacktestJobs: six bars with a weekend among them.
EXTENDS BacktestJobs

Candles == {1, 2, 3, 4, 7, 8}

\* The first bars, the last, and a range without a bar; the bar at 4 is in none of them.
Ranges == {<<1, 3>>, <<7, 9>>, <<5, 6>>}
=============================================================================

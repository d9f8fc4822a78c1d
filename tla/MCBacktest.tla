----------------------------- MODULE MCBacktest -----------------------------
\* Model checking of Backtest: prices and friction are multiples that keep the averages
\* of up to three units whole.
EXTENDS Backtest, WalkForward

P(n) == 12 * n

\* A wide bar, and gaps down and up.
Wide  == [open |-> P(2), high |-> P(3), low |-> P(1), close |-> P(2)]
GapDown == [open |-> P(1), high |-> P(1), low |-> P(1), close |-> P(1)]
GapUp   == [open |-> P(3), high |-> P(3), low |-> P(3), close |-> P(3)]
ThreeBars == {Wide, GapDown, GapUp}
EntryPrices == {P(1), P(3)}

TwoKeys == {"long", "short"}
Sides == [k \in TwoKeys |-> IF k = "long" THEN "BUY" ELSE "SELL"]
OneFriction == {6}

\* The windows of WalkForward against their definition: the first train + test bars
\* that are left, as long as there are so many.
ASSUME WindowsAreComplete ==
  \A bars \in 0 .. 9, train \in 0 .. 2, test \in 1 .. 3 :
    /\ UNION {TrainSlice(i, train, test) \cup TestSlice(i, train, test) :
               i \in Windows(bars, train, test)} \subseteq 0 .. bars - 1
    /\ bars - Cardinality(Windows(bars, train, test)) * (train + test) \in 0 .. train + test - 1
=============================================================================

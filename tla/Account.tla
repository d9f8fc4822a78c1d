------------------------------- MODULE Account -------------------------------
(***************************************************************************)
(* What a simulated account promises a backtest: money changes hands only  *)
(* by fills, one at a time, each paid in full at one price, and no fill is *)
(* better than the bar it happens on could have offered.                   *)
(***************************************************************************)
EXTENDS Integers

CONSTANTS
  Bars,            \* bars: records of open, high, low and close
  FillPrices,      \* prices, with the friction of a fill
  HalfSpread,
  Units,           \* quantities of one fill
  Commission,      \* of an entry; an exit pays none
  InitialCapital

VARIABLES
  bar,   \* the market
  cash,  \* money, as if every open position had been paid for
  net    \* units held, short ones negative

vars == <<bar, cash, net>>
-----------------------------------------------------------------------------
Init == bar \in Bars /\ cash = InitialCapital /\ net = 0

Market == bar' \in Bars /\ UNCHANGED <<cash, net>>

Buy(units, price, fee) ==
  /\ price >= bar.low + HalfSpread
  /\ net' = net + units
  /\ cash' = cash - units * price - fee
  /\ UNCHANGED bar

Sell(units, price, fee) ==
  /\ price <= bar.high - HalfSpread
  /\ net' = net - units
  /\ cash' = cash + units * price - fee
  /\ UNCHANGED bar

Next ==
  \/ Market
  \/ \E units \in Units, price \in FillPrices, fee \in {0, Commission} :
       Buy(units, price, fee) \/ Sell(units, price, fee)

Spec == Init /\ [][Next]_vars
=============================================================================

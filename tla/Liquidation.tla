---------------------------- MODULE Liquidation ----------------------------
(***************************************************************************)
(* What the close-all protocol of the trading engine promises, with no     *)
(* broker calls, retries or back-off in sight.  "exposure" is everything   *)
(* the broker holds for the bot, resting orders and open trades alike.     *)
(* While a session trades, exposure comes and goes.  Once a session exit   *)
(* starts a liquidation, nothing is added to it, and the session is handed *)
(* over (to a fresh grid, or to the daily pause) only when it is empty.    *)
(***************************************************************************)
CONSTANT Entry        \* the orders and trades that may exist at the broker

VARIABLES mode,       \* "trading" or "liquidating"
          exposure    \* what the broker holds

vars == <<mode, exposure>>

Init ==
  /\ mode = "trading"
  /\ exposure = {}

\* A session at work: entries are placed, fill, are cancelled and stop out.
Trade ==
  /\ mode = "trading"
  /\ exposure' \in SUBSET Entry
  /\ mode' \in {"trading", "liquidating"}

\* A liquidation only ever shrinks what the broker holds.
Shrink ==
  /\ mode = "liquidating"
  /\ exposure' \subseteq exposure
  /\ mode' = mode

\* The hand-over: the next session starts, or the bot pauses, flat.
HandOver ==
  /\ mode = "liquidating"
  /\ exposure = {}
  /\ mode' = "trading"
  /\ exposure' = {}

Next == Trade \/ Shrink \/ HandOver

Spec == Init /\ [][Next]_vars
=============================================================================

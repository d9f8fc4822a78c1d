---------------------------- MODULE Backtest_proof ----------------------------
(***************************************************************************)
(* What a replay promises for any bars, prices, frictions, limits and      *)
(* keys, and, at the end, what the windows, the ranking and the chained    *)
(* curves of the walk-forward validation built on it promise.              *)
(*                                                                         *)
(* Sums first: SumFunction adds up a function over a finite set in an      *)
(* order CHOOSE fixes, so that changing, adding or leaving out one value   *)
(* is shown to change the sum by just that.  Then types, the books of a    *)
(* grid replay, its money, and the step simulation of Account.             *)
(***************************************************************************)
EXTENDS Backtest, WalkForward, FiniteSetTheorems, WellFoundedInduction, TLAPS

\* A sum goes through its terms in an order that CHOOSE fixes.
Pick(s) == CHOOSE x \in s : TRUE

SumSteps(w) ==
  CHOOSE iter : iter =
    [s \in SUBSET DOMAIN w |-> IF s = {} THEN 0 ELSE w[Pick(s)] + iter[s \ {Pick(s)}]]

LEMMA SumIsLastStep ==
  ASSUME NEW w
  PROVE  SumFunction(w) = SumSteps(w)[DOMAIN w]
BY Zenon DEF SumFunction, SumFunctionOnSet, FoldFunctionOnSet, FoldFunction, MapThenFoldSet,
             SumSteps, Pick

LEMMA LeastOf ==
  ASSUME NEW S \in SUBSET Nat, S # {}
  PROVE  \E d \in S : \A e \in S : d <= e
<1> DEFINE less == OpToRel(<, Nat)
<1>1. PICK d \in S : \A e \in S : ~(<<e, d>> \in less) BY NatLessThanWellFounded, WFMin
<1>2. ASSUME NEW e \in S PROVE d <= e
  <2>1. d \in Nat /\ e \in Nat OBVIOUS
  <2>2. ~(<<e, d>> \in less) BY <1>1
  <2>3. e < d => <<e, d>> \in less BY <2>1, Zenon DEF OpToRel
  <2> HIDE DEF less
  <2>4. ~(e < d) BY <2>2, <2>3
  <2> QED BY <2>1, <2>4
<1> QED BY <1>2

\* Of the subsets of a finite set that are of some kind, one has none of them within it.
LEMMA SmallestOf ==
  ASSUME NEW S, IsFiniteSet(S), NEW bad \in SUBSET SUBSET S, bad # {}
  PROVE  \E s \in bad : IsFiniteSet(s) /\ \A x \in s : s \ {x} \notin bad
<1> DEFINE sizes == {Cardinality(s) : s \in bad}
<1>1. \A s \in SUBSET S : IsFiniteSet(s) /\ Cardinality(s) \in Nat
  BY FS_Subset, FS_CardinalityType
<1>2. PICK d \in sizes : \A e \in sizes : d <= e
  <2>1. sizes \in SUBSET Nat /\ sizes # {} BY <1>1
  <2> HIDE DEF sizes
  <2> QED BY <2>1, LeastOf
<1>3. PICK s \in bad : \A t \in bad : Cardinality(s) <= Cardinality(t) BY <1>2
<1>4. ASSUME NEW x \in s PROVE s \ {x} \notin bad
  <2>1. IsFiniteSet(s) /\ Cardinality(s) \in Nat BY <1>1
  <2>2. Cardinality(s \ {x}) = Cardinality(s) - 1 BY <2>1, FS_RemoveElement
  <2>3. ~(Cardinality(s) <= Cardinality(s) - 1) BY <2>1
  <2> QED BY <1>3, <2>2, <2>3
<1> QED BY <1>1, <1>3, <1>4

StepsAdd(w, S) ==
  /\ SumSteps(w) \in [SUBSET S -> Int]
  /\ SumSteps(w)[{}] = 0
  /\ \A s \in SUBSET S : s # {} =>
       Pick(s) \in s /\ SumSteps(w)[s] = w[Pick(s)] + SumSteps(w)[s \ {Pick(s)}]

\* There are such steps: those of the sets of a size are given by those of one less.
LEMMA SumHasSteps ==
  ASSUME NEW S, IsFiniteSet(S), NEW w \in [S -> Int]
  PROVE  StepsAdd(w, S)
<1> DEFINE upTo(n) == {s \in SUBSET S : Cardinality(s) <= n}
           Step(f, s) == IF s = {} THEN 0 ELSE w[Pick(s)] + f[s \ {Pick(s)}]
           Good(n, f) == f \in [upTo(n) -> Int] /\ \A s \in upTo(n) : f[s] = Step(f, s)
           bad == {n \in Nat : \A f : ~Good(n, f)}
<1>1. \A s \in SUBSET S : IsFiniteSet(s) /\ Cardinality(s) \in Nat
  BY FS_Subset, FS_CardinalityType
<1>2. \A s \in SUBSET S : s # {} => Pick(s) \in s BY DEF Pick
<1>3. ASSUME NEW n \in Nat, NEW s \in upTo(n), s # {}
      PROVE  /\ s \ {Pick(s)} \in SUBSET S
             /\ Cardinality(s \ {Pick(s)}) = Cardinality(s) - 1
             /\ Cardinality(s) <= n /\ Cardinality(s) \in Nat
  BY <1>1, <1>2, <1>3, FS_RemoveElement
<1>4. ASSUME bad # {} PROVE FALSE
  <2>1. PICK n \in bad : \A m \in bad : n <= m
    <3>1. bad \in SUBSET Nat OBVIOUS
    <3> HIDE DEF bad
    <3> QED BY <1>4, <3>1, LeastOf
  <2>2. n \in Nat OBVIOUS
  <2>3. CASE n = 0
    <3> DEFINE f == [s \in upTo(0) |-> 0]
    <3>1. \A s \in upTo(0) : s = {}
      <4>1. \A s \in SUBSET S : Cardinality(s) <= 0 => Cardinality(s) = 0 BY <1>1
      <4>2. \A s \in SUBSET S : Cardinality(s) = 0 => s = {} BY <1>1, FS_EmptySet
      <4> QED BY <4>1, <4>2
    <3>2. Good(0, f) BY <3>1
    <3> HIDE DEF f, Good
    <3> QED BY <2>3, <3>2
  <2>4. CASE n # 0
    <3>1. n - 1 \in Nat /\ ~(n <= n - 1) BY <2>2, <2>4
    <3>2. n - 1 \notin bad
      <4> HIDE DEF bad
      <4> QED BY <2>1, <3>1
    <3>3. PICK f : Good(n - 1, f)
      <4> HIDE DEF Good
      <4> QED BY <3>1, <3>2
    <3> DEFINE g == [s \in upTo(n) |-> Step(f, s)]
    <3>4. ASSUME NEW s \in upTo(n), s # {}
          PROVE  Pick(s) \in S /\ s \ {Pick(s)} \in upTo(n - 1) /\ s \ {Pick(s)} \in upTo(n)
      <4>1. /\ s \ {Pick(s)} \in SUBSET S /\ Cardinality(s) <= n /\ Cardinality(s) \in Nat
            /\ Cardinality(s \ {Pick(s)}) = Cardinality(s) - 1
        BY <1>3, <2>2, <3>4
      <4>2. Cardinality(s) - 1 <= n - 1 /\ Cardinality(s) - 1 <= n BY <2>2, <4>1
      <4>3. Pick(s) \in S BY <1>2, <3>4
      <4> QED BY <4>1, <4>2, <4>3
    <3>5. g \in [upTo(n) -> Int]
      <4>1. ASSUME NEW s \in upTo(n) PROVE Step(f, s) \in Int
        <5>1. CASE s = {} BY <5>1
        <5>2. CASE s # {}
          <6>1. f[s \ {Pick(s)}] \in Int BY <3>3, <3>4, <5>2
          <6>2. w[Pick(s)] \in Int BY <3>4, <5>2
          <6> QED BY <5>2, <6>1, <6>2
        <5> QED BY <5>1, <5>2
      <4> HIDE DEF Step
      <4> QED BY <4>1
    <3>6. \A s \in upTo(n - 1) : s \in upTo(n) /\ g[s] = f[s]
      <4>1. ASSUME NEW s \in upTo(n - 1) PROVE s \in upTo(n)
        <5>1. Cardinality(s) \in Nat /\ Cardinality(s) <= n - 1 BY <1>1
        <5> QED BY <2>2, <5>1
      <4>2. \A s \in upTo(n - 1) : f[s] = Step(f, s) BY <3>3
      <4> HIDE DEF Step, upTo
      <4> QED BY <4>1, <4>2
    <3>7. ASSUME NEW s \in upTo(n) PROVE g[s] = Step(g, s)
      <4>1. g[s] = Step(f, s) OBVIOUS
      <4>2. s # {} => g[s \ {Pick(s)}] = f[s \ {Pick(s)}]
        <5> HIDE DEF g, upTo
        <5> QED BY <3>4, <3>6
      <4> QED BY <4>1, <4>2
    <3>8. Good(n, g)
      <4> HIDE DEF g, Step
      <4> QED BY <3>5, <3>7
    <3> HIDE DEF Good, g
    <3> QED BY <3>8
  <2> QED BY <2>3, <2>4
<1>5. Cardinality(S) \in Nat BY FS_CardinalityType
<1>6. PICK f : Good(Cardinality(S), f)
  <2> HIDE DEF Good
  <2> QED BY <1>4, <1>5
<1>7. upTo(Cardinality(S)) = SUBSET S BY FS_Subset
<1>8. f \in [SUBSET S -> Int] /\ f = [s \in SUBSET S |-> Step(f, s)]
  <2> HIDE DEF upTo, Step
  <2> QED BY <1>6, <1>7
<1>9. SumSteps(w) = [s \in SUBSET S |-> Step(SumSteps(w), s)]
  <2>1. DOMAIN w = S OBVIOUS
  <2> QED BY <1>8, <2>1 DEF SumSteps
<1>10. \A s \in SUBSET S : SumSteps(w)[s] = Step(SumSteps(w), s)
  <2> HIDE DEF Step
  <2> QED BY <1>9
<1>12. SumSteps(w)[{}] = 0
  <2>1. SumSteps(w)[{}] = Step(SumSteps(w), {}) BY <1>10
  <2> QED BY <2>1
<1>11. ASSUME NEW s \in SUBSET S PROVE SumSteps(w)[s] \in Int
  <2> DEFINE wrong == {t \in SUBSET S : SumSteps(w)[t] \notin Int}
  <2>1. ASSUME wrong # {} PROVE FALSE
    <3>1. PICK t \in wrong : \A x \in t : t \ {x} \notin wrong
      <4>1. wrong \in SUBSET SUBSET S OBVIOUS
      <4> HIDE DEF wrong
      <4> QED BY <2>1, <4>1, SmallestOf
    <3>2. t # {}
      <4>1. SumSteps(w)[t] \notin Int BY <3>1
      <4>2. t = {} => SumSteps(w)[t] = 0 BY <1>12
      <4> QED BY <4>1, <4>2
    <3>3. Pick(t) \in t /\ t \ {Pick(t)} \in SUBSET S BY <1>2, <3>2
    <3>4. SumSteps(w)[t \ {Pick(t)}] \in Int
      <4>1. t \ {Pick(t)} \notin wrong BY <3>1, <3>3
      <4> QED BY <3>3, <4>1
    <3>5. w[Pick(t)] \in Int BY <3>3
    <3>6. SumSteps(w)[t] = w[Pick(t)] + SumSteps(w)[t \ {Pick(t)}] BY <1>10, <3>2
    <3>7. SumSteps(w)[t] \in Int BY <3>4, <3>5, <3>6
    <3> QED BY <3>7
  <2> QED BY <2>1
<1> QED BY <1>2, <1>9, <1>10, <1>11, <1>12 DEF StepsAdd

\* Steps over fewer terms are the same.
LEMMA StepsOfFewer ==
  ASSUME NEW S, IsFiniteSet(S), NEW w \in [S -> Int], NEW T \in SUBSET S,
         NEW v \in [T -> Int], \A x \in T : v[x] = w[x]
  PROVE  \A s \in SUBSET T : SumSteps(v)[s] = SumSteps(w)[s]
<1> DEFINE bad == {s \in SUBSET T : SumSteps(v)[s] # SumSteps(w)[s]}
<1>1. IsFiniteSet(T) BY FS_Subset
<1>3. StepsAdd(v, T) BY <1>1, SumHasSteps
<1>4. StepsAdd(w, S) BY SumHasSteps
<1>2. ASSUME bad # {} PROVE FALSE
  <2>1. PICK s \in bad : \A x \in s : s \ {x} \notin bad
    <3>1. bad \in SUBSET SUBSET T OBVIOUS
    <3> HIDE DEF bad
    <3> QED BY <1>1, <1>2, <3>1, SmallestOf
  <2>2. s \in SUBSET T /\ s \in SUBSET S /\ SumSteps(v)[s] # SumSteps(w)[s] BY <2>1
  <2>6. s # {}
    <3>1. s = {} => SumSteps(v)[s] = SumSteps(w)[s] BY <1>3, <1>4 DEF StepsAdd
    <3> QED BY <2>2, <3>1
  <2> HIDE DEF bad
  <2>3. Pick(s) \in s /\ SumSteps(v)[s] = v[Pick(s)] + SumSteps(v)[s \ {Pick(s)}]
    BY <1>3, <2>2, <2>6 DEF StepsAdd
  <2>5. SumSteps(w)[s] = w[Pick(s)] + SumSteps(w)[s \ {Pick(s)}]
    BY <1>4, <2>2, <2>6 DEF StepsAdd
  <2>4. SumSteps(v)[s \ {Pick(s)}] = SumSteps(w)[s \ {Pick(s)}]
    BY <2>1, <2>2, <2>3 DEF bad
  <2> QED BY <2>2, <2>3, <2>4, <2>5
<1> QED BY <1>2

\* Whatever term is taken first, the sum is the same.
LEMMA StepsInAnyOrder ==
  ASSUME NEW S, IsFiniteSet(S), NEW w \in [S -> Int]
  PROVE  \A s \in SUBSET S : \A x \in s : SumSteps(w)[s] = w[x] + SumSteps(w)[s \ {x}]
<1> DEFINE sum == SumSteps(w)
           bad == {s \in SUBSET S : \E x \in s : sum[s] # w[x] + sum[s \ {x}]}
<1>1. /\ sum \in [SUBSET S -> Int]
      /\ \A s \in SUBSET S : s # {} => Pick(s) \in s /\ sum[s] = w[Pick(s)] + sum[s \ {Pick(s)}]
  BY SumHasSteps DEF StepsAdd
<1> HIDE DEF sum
<1>2. ASSUME bad # {} PROVE FALSE
  <2>1. PICK s \in bad : \A x \in s : s \ {x} \notin bad
    <3>1. bad \in SUBSET SUBSET S OBVIOUS
    <3> HIDE DEF bad
    <3> QED BY <1>2, <3>1, SmallestOf
  <2>2. PICK x \in s : sum[s] # w[x] + sum[s \ {x}] BY <2>1
  <2> DEFINE c == Pick(s)
             rest == (s \ {c}) \ {x}
  <2>3. c \in s /\ sum[s] = w[c] + sum[s \ {c}] BY <1>1, <2>2
  <2>4. x # c BY <2>2, <2>3
  <2>5. s \ {c} \in SUBSET S /\ s \ {x} \in SUBSET S /\ rest \in SUBSET S OBVIOUS
  <2>6. sum[s \ {c}] = w[x] + sum[rest] BY <2>1, <2>3, <2>4, <2>5
  <2>7. sum[s \ {x}] = w[c] + sum[rest]
    <3>1. (s \ {x}) \ {c} = rest OBVIOUS
    <3>2. c \in s \ {x} BY <2>3, <2>4
    <3> HIDE DEF c, rest
    <3> QED BY <2>1, <2>5, <3>1, <3>2
  <2>8. w[x] \in Int /\ w[c] \in Int /\ sum[rest] \in Int BY <1>1, <2>3, <2>5
  <2> HIDE DEF c, rest
  <2> QED BY <2>2, <2>3, <2>6, <2>7, <2>8
<1> QED BY <1>2 DEF sum

\* What a sum is, and what it becomes when a term goes or comes.
LEMMA SumOfNone ==
  ASSUME NEW w, DOMAIN w = {}
  PROVE  SumFunction(w) = 0
<1>2. SumFunction(w) = SumSteps(w)[{}] BY SumIsLastStep
<1> DEFINE Body(f) ==
         [s \in SUBSET DOMAIN w |->
            IF s = {} THEN 0 ELSE w[Pick(s)] + f[s \ {Pick(s)}]]
           zero == [s \in SUBSET DOMAIN w |-> 0]
<1>3. zero = Body(zero) OBVIOUS
<1>4. SumSteps(w) = Body(SumSteps(w)) BY <1>3 DEF SumSteps
<1> QED BY <1>2, <1>4

LEMMA SumIsInt ==
  ASSUME NEW S, IsFiniteSet(S), NEW w \in [S -> Int]
  PROVE  SumFunction(w) \in Int
<1>1. SumFunction(w) = SumSteps(w)[S] BY SumIsLastStep
<1>2. SumSteps(w) \in [SUBSET S -> Int] BY SumHasSteps DEF StepsAdd
<1> QED BY <1>1, <1>2

LEMMA SumWithout ==
  ASSUME NEW S, IsFiniteSet(S), NEW w \in [S -> Int], NEW x \in S,
         NEW v \in [S \ {x} -> Int], \A y \in S \ {x} : v[y] = w[y]
  PROVE  SumFunction(w) = w[x] + SumFunction(v)
<1>1. SumFunction(w) = SumSteps(w)[S] /\ SumFunction(v) = SumSteps(v)[S \ {x}]
  BY SumIsLastStep
<1>2. SumSteps(w)[S] = w[x] + SumSteps(w)[S \ {x}] BY StepsInAnyOrder
<1>3. SumSteps(v)[S \ {x}] = SumSteps(w)[S \ {x}] BY StepsOfFewer
<1> QED BY <1>1, <1>2, <1>3

-----------------------------------------------------------------------------
(***************************************************************************)
(* Functions that gain and lose an element, and fresh ids.                 *)
(***************************************************************************)
LEMMA MinOf ==
  ASSUME NEW S \in SUBSET Nat, S # {}
  PROVE  Min(S) \in S /\ \A t \in S : Min(S) <= t
BY LeastOf DEF Min

LEMMA MinOfTwo ==
  ASSUME NEW a \in Int, NEW b \in Int
  PROVE  Min({a, b}) = IF a <= b THEN a ELSE b
<1>1. CASE a <= b
  <2>1. a \in {a, b} /\ \A y \in {a, b} : a <= y BY <1>1
  <2>2. \A x \in {a, b} : (\A y \in {a, b} : x <= y) => x = a BY <1>1
  <2> QED BY <1>1, <2>1, <2>2 DEF Min
<1>2. CASE ~(a <= b)
  <2>1. b \in {a, b} /\ \A y \in {a, b} : b <= y BY <1>2
  <2>2. \A x \in {a, b} : (\A y \in {a, b} : x <= y) => x = b BY <1>2
  <2> QED BY <1>2, <2>1, <2>2 DEF Min
<1> QED BY <1>1, <1>2

LEMMA MaxOfTwo ==
  ASSUME NEW a \in Int, NEW b \in Int
  PROVE  Max({a, b}) = IF a >= b THEN a ELSE b
<1>1. CASE a >= b
  <2>1. a \in {a, b} /\ \A y \in {a, b} : a >= y BY <1>1
  <2>2. \A x \in {a, b} : (\A y \in {a, b} : x >= y) => x = a BY <1>1
  <2> QED BY <1>1, <2>1, <2>2 DEF Max
<1>2. CASE ~(a >= b)
  <2>1. b \in {a, b} /\ \A y \in {a, b} : b >= y BY <1>2
  <2>2. \A x \in {a, b} : (\A y \in {a, b} : x >= y) => x = b BY <1>2
  <2> QED BY <1>2, <2>1, <2>2 DEF Max
<1> QED BY <1>1, <1>2

\* Of n + 1 numbers one is not among n.
LEMMA FreshIsUnused ==
  ASSUME IsFiniteSet(Used), Used \subseteq Nat
  PROVE  Fresh \in Nat /\ Fresh \notin Used
<1> DEFINE n == Cardinality(Used)
           S == (1 .. n + 1) \ Used
<1>1. n \in Nat BY FS_CardinalityType
<1>2. S # {}
  <2>1. SUFFICES ASSUME 1 .. n + 1 \subseteq Used PROVE FALSE OBVIOUS
  <2>2. Cardinality(1 .. n + 1) = n + 1
    <3>1. 1 \in Int /\ n + 1 \in Int BY <1>1
    <3> HIDE DEF n
    <3>2. Cardinality(1 .. n + 1) = IF 1 > n + 1 THEN 0 ELSE (n + 1) - 1 + 1 BY <3>1, FS_Interval
    <3> QED BY <1>1, <3>2
  <2>3. Cardinality(1 .. n + 1) <= n BY <2>1, FS_Subset
  <2> HIDE DEF n
  <2> QED BY <1>1, <2>2, <2>3
<1>3. S \in SUBSET Nat BY <1>1
<1>4. Min(S) \in S
  <2> HIDE DEF S
  <2> QED BY <1>2, <1>3, MinOf
<1> QED BY <1>3, <1>4 DEF Fresh
-----------------------------------------------------------------------------
(***************************************************************************)
(* Types.                                                                  *)
(***************************************************************************)
GridPlaces == {"next", "stops", "entries", "fills", "closures", "drain", "closing", "trim",
               "record", "end", "done"}
SimplePlaces == {"next", "signal", "record", "done"}

Directions == {"BUY", "SELL"}

OrderType == [key : Keys, side : Directions, qty : Nat \ {0}, price : Nat, isStop : BOOLEAN,
              stop : Int \cup {None}]
TradeType == [key : Keys \cup {None}, side : Directions, qty : Nat \ {0}, open : Int,
              stop : Int \cup {None}]
ClosedType == [id : Nat, pnl : Int]
PositionType == [qty : Int, cost : Int, realized : Int]

Types ==
  /\ setup \in [stateful : BOOLEAN, gridMode : BOOLEAN] /\ bar \in Bars
  /\ pc \in IF setup.stateful THEN GridPlaces ELSE SimplePlaces
  /\ capital \in Int /\ fees \in Int /\ banked \in Int
  /\ position \in PositionType /\ saved \in [qty : Int, pnl : Int]
  /\ pending \in [DOMAIN pending -> OrderType]
  /\ trades \in [DOMAIN trades -> TradeType]
  /\ setup.stateful => \A i \in DOMAIN trades : trades[i].key \in Keys
  /\ pendingMap \in [DOMAIN pendingMap -> Nat] /\ DOMAIN pendingMap \subseteq Keys
  /\ tradeMap \in [DOMAIN tradeMap -> Nat] /\ DOMAIN tradeMap \subseteq Keys
  /\ meta \in [Keys -> Keys \cup {None}]
  /\ newlyFilled \subseteq DOMAIN trades /\ newlyClosed \subseteq ClosedType
  /\ newlyFilled # {} => pc \in {"entries", "fills"}
  /\ newlyClosed # {} => pc \in {"stops", "entries", "fills", "closures"}
  /\ books \in [Keys -> {"free", "placed", "filled", "leaving"}] /\ dropped \subseteq Keys
  /\ IsFiniteSet(Used) /\ Used \subseteq Nat

\* An id comes into use by being fresh.
LEMMA UsedGrows ==
  ASSUME Types, Used' \subseteq Used \cup {Fresh}
  PROVE  IsFiniteSet(Used') /\ Used' \subseteq Nat
<1>1. IsFiniteSet(Used) /\ Used \subseteq Nat /\ Fresh \in Nat BY FreshIsUnused DEF Types
<1>2. IsFiniteSet(Used \cup {Fresh}) BY <1>1, FS_AddElement
<1>3. Used' \in SUBSET (Used \cup {Fresh}) OBVIOUS
<1> QED BY <1>1, <1>2, <1>3, FS_Subset

LEMMA BarType ==
  ASSUME Types
  PROVE  /\ bar.open \in Nat /\ bar.high \in Nat /\ bar.low \in Nat /\ bar.close \in Nat
         /\ bar.low <= bar.open /\ bar.low <= bar.close
         /\ bar.open <= bar.high /\ bar.close <= bar.high
BY BacktestConstants DEF Types

LEMMA FillPriceType ==
  ASSUME NEW side \in Directions, NEW base \in Int, NEW f \in Frictions
  PROVE  ApplyFriction(side, base, f) \in Int /\ Opposite(side) \in Directions
         /\ f \in Nat /\ Sign(side) \in {1, -1}
<1>1. f \in Nat BY BacktestConstants
<1>2. Sign(side) \in {1, -1} BY DEF Sign
<1> QED BY <1>1, <1>2 DEF ApplyFriction, Opposite, Directions, Sign

LEMMA PnlType ==
  ASSUME NEW trade \in TradeType, NEW price \in Int
  PROVE  Pnl(trade, price) \in Int
<1>1. Sign(trade.side) \in {1, -1} /\ trade.qty \in Int /\ trade.open \in Int
  BY DEF TradeType, Sign
<1>2. \A s \in Int, q \in Int, d \in Int : s * q * d \in Int OBVIOUS
<1>3. price - trade.open \in Int BY <1>1
<1> QED BY <1>1, <1>2, <1>3 DEF Pnl

LEMMA StopBaseType ==
  ASSUME Types, NEW trade \in TradeType, StopTouched(trade)
  PROVE  /\ StopBase(trade) \in Int /\ trade.stop \in Int
         /\ trade.side = "BUY" => StopBase(trade) <= bar.open /\ StopBase(trade) <= trade.stop
         /\ trade.side = "SELL" => StopBase(trade) >= bar.open /\ StopBase(trade) >= trade.stop
<1>1. trade.stop \in Int /\ bar.open \in Int BY BarType DEF StopTouched, TradeType
<1> QED BY <1>1, MinOfTwo, MaxOfTwo DEF StopBase

LEMMA EntryBaseType ==
  ASSUME Types, NEW order \in OrderType
  PROVE  EntryBase(order) \in Int
<1>1. order.price \in Int /\ bar.open \in Int BY BarType DEF OrderType
<1> QED BY <1>1, MinOfTwo, MaxOfTwo DEF EntryBase

LEMMA UpdatePositionType ==
  ASSUME position \in PositionType, NEW side \in Directions, NEW qty \in Nat \ {0},
         NEW price \in Int
  PROVE  /\ UpdatePosition(side, qty, price) \in PositionType
         /\ UpdatePosition(side, qty, price).qty = position.qty + Sign(side) * qty
<1> DEFINE s == Sign(side)
           held == s * position.qty
           closes == IF held >= 0 THEN 0 ELSE Min({qty, -held})
           cost == IF held >= 0 THEN (held * position.cost + qty * price) \div (held + qty)
                   ELSE IF held + qty > 0 THEN price
                   ELSE IF held + qty < 0 THEN position.cost ELSE 0
<1>1. position.qty \in Int /\ position.cost \in Int /\ position.realized \in Int
  BY DEF PositionType
<1>2. s \in Int BY DEF Sign
<1>3. held \in Int
  <2> HIDE DEF s
  <2> QED BY <1>1, <1>2
<1> HIDE DEF s
<1>4. closes \in Int
  <2>1. -held \in Int BY <1>3
  <2> HIDE DEF held
  <2> QED BY <1>3, <2>1, MinOfTwo
<1>5. cost \in Int
  <2> HIDE DEF held
  <2>1. held * position.cost + qty * price \in Int /\ held + qty \in Int BY <1>1, <1>3
  <2>2. held >= 0 => held + qty > 0 BY <1>3
  <2>3. ASSUME NEW a \in Int, NEW b \in Int, b > 0 PROVE a \div b \in Int BY <2>3
  <2>4. held >= 0 => (held * position.cost + qty * price) \div (held + qty) \in Int
    BY <2>1, <2>2, <2>3
  <2> QED BY <1>1, <2>4
<1>6. position.qty + s * qty \in Int BY <1>1, <1>2
<1>7. position.realized - s * closes * (price - position.cost) \in Int
  <2> HIDE DEF closes
  <2> QED BY <1>1, <1>2, <1>4
<1>8. UpdatePosition(side, qty, price) =
        [qty |-> position.qty + s * qty, cost |-> cost,
         realized |-> position.realized - s * closes * (price - position.cost)]
  BY DEF UpdatePosition, s
<1> HIDE DEF cost, closes, held
<1> QED BY <1>5, <1>6, <1>7, <1>8 DEF PositionType, s

LEMMA BankType ==
  ASSUME Types, NEW pnl \in Int, Bank(pnl)
  PROVE  banked' \in Int
BY DEF Types, Bank

\* What a fill of a market order and the end of a trade do to the broker.
LEMMA Opens ==
  ASSUME Types, NEW key \in Keys \cup {None}, NEW side \in Directions, NEW qty \in Nat \ {0},
         NEW stop \in Int \cup {None}, NEW price \in Int,
         FillMarket(Fresh, key, side, qty, stop, price)
  PROVE  /\ Fresh \in Nat /\ Fresh \notin Used
         /\ DOMAIN trades' = DOMAIN trades \cup {Fresh}
         /\ trades' \in [DOMAIN trades' -> TradeType]
         /\ trades'[Fresh]
              = [key |-> key, side |-> side, qty |-> qty, open |-> price, stop |-> stop]
         /\ trades'[Fresh].key = key
         /\ \A i \in DOMAIN trades : i # Fresh /\ trades'[i] = trades[i]
         /\ capital' \in Int /\ fees' \in Int /\ position' \in PositionType
         /\ setup.gridMode => position' = position
<1> DEFINE trade == [key |-> key, side |-> side, qty |-> qty, open |-> price, stop |-> stop]
           after == IF setup.gridMode THEN position ELSE UpdatePosition(side, qty, price)
<1>1. Fresh \in Nat /\ Fresh \notin Used BY FreshIsUnused DEF Types
<1>2. trade \in TradeType /\ trade.key = key BY DEF TradeType
<1>3. trades' = With(trades, Fresh, trade) BY DEF FillMarket
<1>4. trades \in [DOMAIN trades -> TradeType] BY DEF Types
<1>5. \A i \in DOMAIN trades : i # Fresh BY <1>1 DEF Used
<1> HIDE DEF trade
<1>6. /\ DOMAIN trades' = DOMAIN trades \cup {Fresh}
      /\ trades' \in [DOMAIN trades \cup {Fresh} -> TradeType]
      /\ trades'[Fresh] = trade /\ \A i \in DOMAIN trades : trades'[i] = trades[i]
  BY <1>2, <1>3, <1>4, <1>5 DEF With
<1>7. after \in PositionType /\ position \in PositionType BY UpdatePositionType DEF Types
<1>8. /\ position' = after /\ fees' = fees + Commission
      /\ capital' = capital - Commission + (after.realized - position.realized)
  BY DEF FillMarket
<1> HIDE DEF after
<1>9. after.realized \in Int /\ position.realized \in Int BY <1>7 DEF PositionType
<1>10. capital \in Int /\ fees \in Int /\ Commission \in Int BY BacktestConstants DEF Types
<1>11. capital' \in Int /\ fees' \in Int BY <1>8, <1>9, <1>10
<1> QED BY <1>1, <1>2, <1>5, <1>6, <1>7, <1>8, <1>11 DEF trade, after

LEMMA Closes ==
  ASSUME Types, NEW id \in DOMAIN trades, NEW price \in Int, CloseTrade(id, price)
  PROVE  /\ DOMAIN trades' = DOMAIN trades \ {id} /\ trades[id] \in TradeType
         /\ trades' \in [DOMAIN trades' -> TradeType]
         /\ \A i \in DOMAIN trades' : trades'[i] = trades[i]
         /\ Pnl(trades[id], price) \in Int /\ capital' \in Int
         /\ capital' = capital + Pnl(trades[id], price)
         /\ fees' = fees /\ position' = position
<1>1. trades \in [DOMAIN trades -> TradeType] /\ capital \in Int BY DEF Types
<1>2. trades[id] \in TradeType BY <1>1
<1>3. Pnl(trades[id], price) \in Int BY <1>2, PnlType
<1>4. trades' = Without(trades, id) /\ capital' = capital + Pnl(trades[id], price)
      /\ fees' = fees /\ position' = position
  BY DEF CloseTrade
<1>5. /\ DOMAIN trades' = DOMAIN trades \ {id}
      /\ trades' \in [DOMAIN trades \ {id} -> TradeType]
      /\ \A i \in DOMAIN trades \ {id} : trades'[i] = trades[i]
  BY <1>1, <1>4 DEF Without
<1>6. capital' \in Int BY <1>1, <1>3, <1>4
<1> QED BY <1>2, <1>3, <1>4, <1>5, <1>6

\* The price a trade is closed at with a market order.
LEMMA MarketPrice ==
  ASSUME Types, NEW side \in Directions, NEW f \in Frictions
  PROVE  FillPrice(side, f) \in Int /\ Opposite(side) \in Directions
BY BarType, FillPriceType DEF FillPrice

LEMMA ClosesAtMarket ==
  ASSUME Types, NEW id \in DOMAIN trades, NEW f \in Frictions, CloseAtMarket(id, f)
  PROVE  /\ FillPrice(Opposite(trades[id].side), f) \in Int
         /\ CloseTrade(id, FillPrice(Opposite(trades[id].side), f))
<1>1. trades[id].side \in Directions BY DEF Types, TradeType
<1>2. Opposite(trades[id].side) \in Directions BY <1>1 DEF Opposite, Directions
<1> QED BY <1>2, MarketPrice DEF CloseAtMarket

LEMMA SameStepTypes == Types /\ UNCHANGED vars => Types'
BY DEF Types, Used, Values, vars, replayVars, moneyVars, runnerVars, tallyVars, stepVars, bookVars

\* The broker's part of a step.
LEMMA BrokerKeepsTypes ==
  ASSUME Types,
         \/ \E id \in DOMAIN trades, f \in Frictions : StopOut(id, f)
         \/ \E id \in DOMAIN pending, f \in Frictions : Enter(id, f)
         \/ StopsDone \/ EntriesDone
  PROVE  Types'
<1>1. ASSUME NEW id \in DOMAIN trades, NEW f \in Frictions, StopOut(id, f) PROVE Types'
  <2> DEFINE price == ApplyFriction(Opposite(trades[id].side), StopBase(trades[id]), f)
  <2>1. trades[id] \in TradeType /\ trades[id].side \in Directions BY DEF Types, TradeType
  <2>2. StopBase(trades[id]) \in Int BY <1>1, <2>1, StopBaseType DEF StopOut
  <2>3. price \in Int
    <3>1. Opposite(trades[id].side) \in Directions BY <2>1 DEF Opposite, Directions
    <3> QED BY <2>2, <3>1, FillPriceType
  <2>4. CloseTrade(id, price) BY <1>1 DEF StopOut
  <2> HIDE DEF price
  <2>5. /\ DOMAIN trades' = DOMAIN trades \ {id} /\ trades' \in [DOMAIN trades' -> TradeType]
        /\ \A i \in DOMAIN trades' : trades'[i] = trades[i]
        /\ Pnl(trades[id], price) \in Int /\ capital' \in Int
        /\ fees' = fees /\ position' = position
    BY <2>3, <2>4, Closes
  <2>6. /\ newlyClosed' = newlyClosed \cup {[id |-> id, pnl |-> Pnl(trades[id], price)]}
        /\ pc = "stops"
    BY <1>1 DEF StopOut, price
  <2>7. newlyFilled = {} BY <2>6 DEF Types
  <2>8. id \in Nat BY DEF Types, Used
  <2>9. newlyClosed' \subseteq ClosedType BY <2>5, <2>6, <2>8 DEF Types, ClosedType
  <2>10. Used' \subseteq Used BY <1>1, <2>5 DEF StopOut, Used, Values, runnerVars
  <2>11. IsFiniteSet(Used') /\ Used' \subseteq Nat BY <2>10, UsedGrows
  <2> QED BY <1>1, <2>5, <2>6, <2>7, <2>9, <2>11
       DEF Types, StopOut, replayVars, runnerVars, tallyVars, bookVars
<1>2. ASSUME NEW id \in DOMAIN pending, NEW f \in Frictions, Enter(id, f) PROVE Types'
  <2> DEFINE order == pending[id]
             fill == [key |-> order.key, side |-> order.side, qty |-> order.qty,
                      open |-> ApplyFriction(order.side, EntryBase(order), f), stop |-> order.stop]
  <2>1. order \in OrderType /\ order.side \in Directions BY DEF Types, OrderType
  <2>2. ApplyFriction(order.side, EntryBase(order), f) \in Int
    BY <2>1, EntryBaseType, FillPriceType
  <2>3. fill \in TradeType /\ fill.key \in Keys BY <2>1, <2>2 DEF TradeType, OrderType
  <2>4. /\ pending' = Without(pending, id) /\ trades' = With(trades, Fresh, fill)
        /\ newlyFilled' = newlyFilled \cup {Fresh} /\ pc = "entries"
        /\ capital' = capital - Commission /\ fees' = fees + Commission
    BY <1>2 DEF Enter
  <2>5. Fresh \in Nat /\ Fresh \notin Used BY FreshIsUnused DEF Types
  <2>6. capital' \in Int /\ fees' \in Int BY <2>4, BacktestConstants DEF Types
  <2> HIDE DEF fill, order
  <2>7. /\ DOMAIN pending' = DOMAIN pending \ {id} /\ pending' \in [DOMAIN pending' -> OrderType]
    BY <2>4 DEF Types, Without
  <2>8. /\ DOMAIN trades' = DOMAIN trades \cup {Fresh} /\ trades'[Fresh] = fill
        /\ trades' \in [DOMAIN trades' -> TradeType]
        /\ \A i \in DOMAIN trades : trades'[i] = trades[i]
    <3>1. \A i \in DOMAIN trades : i # Fresh BY <2>5 DEF Used
    <3>2. trades \in [DOMAIN trades -> TradeType] BY DEF Types
    <3> QED BY <2>3, <2>4, <3>1, <3>2 DEF With
  <2>9. Used' \subseteq Used \cup {Fresh} BY <1>2, <2>7, <2>8 DEF Enter, Used, Values, runnerVars
  <2>10. IsFiniteSet(Used') /\ Used' \subseteq Nat BY <2>9, UsedGrows
  <2> QED BY <1>2, <2>3, <2>4, <2>6, <2>7, <2>8, <2>10
       DEF Types, Enter, replayVars, runnerVars, tallyVars, bookVars
<1>3. CASE StopsDone \/ EntriesDone
  <2>1. Used' = Used BY <1>3 DEF StopsDone, EntriesDone, Used, Values, runnerVars
  <2>2. setup' = setup /\ pc' \in IF setup.stateful THEN GridPlaces ELSE SimplePlaces
    BY <1>3 DEF Types, StopsDone, EntriesDone, GridPlaces, SimplePlaces
  <2> QED BY <1>3, <2>1, <2>2 DEF Types, StopsDone, EntriesDone, moneyVars, runnerVars,
                                  tallyVars, stepVars, bookVars
<1> QED BY <1>1, <1>2, <1>3

\* Reports of a closed trade free its key.
LEMMA ReportKeepsTypes ==
  ASSUME Types, NEW id, NEW pnl \in Int, ReportClosed(id, pnl)
  PROVE  /\ banked' \in Int /\ DOMAIN tradeMap' \subseteq DOMAIN tradeMap
         /\ tradeMap' \in [DOMAIN tradeMap' -> Nat]
         /\ Values(tradeMap') \subseteq Values(tradeMap)
         /\ books' \in [Keys -> {"free", "placed", "filled", "leaving"}]
         /\ dropped' \subseteq dropped
<1>1. CASE KeysOf(id) = {}
  BY <1>1 DEF ReportClosed, tallyVars, Types
<1>2. CASE KeysOf(id) # {}
  <2>1. PICK key \in KeysOf(id) :
          /\ Bank(pnl) /\ tradeMap' = Without(tradeMap, key)
          /\ books' = Reported(key, "free") /\ dropped' = dropped \ {key}
    BY <1>2 DEF ReportClosed
  <2>2. banked' \in Int BY <2>1, BankType
  <2> QED BY <2>1, <2>2 DEF Types, Without, Values, Reported
<1> QED BY <1>1, <1>2

\* The runner's part: fills and closures.
LEMMA HandlingKeepsTypes ==
  ASSUME Types,
         \/ \E id \in newlyFilled : HandleFill(id)
         \/ \E id \in newlyFilled, f \in Frictions : HandlePairedFill(id, f)
         \/ \E closed \in newlyClosed : HandleClosure(closed)
         \/ FillsDone \/ ClosuresDone
  PROVE  Types'
<1>1. ASSUME NEW id \in newlyFilled, HandleFill(id) PROVE Types'
  <2> DEFINE key == trades[id].key
  <2>1. id \in DOMAIN trades /\ id \in Nat /\ setup.stateful /\ key \in Keys
    BY <1>1 DEF HandleFill, Types, Used, SimplePlaces
  <2> HIDE DEF key
  <2>2. /\ newlyFilled' = newlyFilled \ {id} /\ pendingMap' = Without(pendingMap, key)
        /\ tradeMap' = With(tradeMap, key, id) /\ books' = Reported(key, "filled")
        /\ UNCHANGED <<setup, replayVars, moneyVars, pending, trades, meta, peak, tallyVars,
                       saved, newlyClosed, signalCount, closing, dropped>>
    BY <1>1 DEF HandleFill, key
  <2>3. Used' \subseteq Used BY <2>1, <2>2 DEF Used, Values, With, Without
  <2>4. IsFiniteSet(Used') /\ Used' \subseteq Nat BY <2>3, UsedGrows
  <2> QED BY <2>1, <2>2, <2>4
       DEF Types, With, Without, Reported, replayVars, moneyVars, tallyVars
<1>2. ASSUME NEW id \in newlyFilled, NEW f \in Frictions, HandlePairedFill(id, f) PROVE Types'
  <2> DEFINE key == trades[id].key
             other == meta[key]
             side == Opposite(trades[id].side)
             qty == trades[id].qty
             price == FillPrice(side, f)
  <2>1. id \in DOMAIN trades /\ id \in Nat /\ setup.stateful /\ key \in Keys /\ pc = "fills"
    BY <1>2 DEF HandlePairedFill, Types, Used, SimplePlaces
  <2>2. other \in Keys BY <1>2, <2>1 DEF HandlePairedFill, Types
  <2>3. side \in Directions /\ qty \in Nat \ {0}
    BY <2>1 DEF Types, TradeType, Opposite, Directions
  <2>4. price \in Int BY <2>3, MarketPrice
  <2> HIDE DEF key, other, side, qty, price
  <2>5. /\ newlyFilled' = newlyFilled \ {id} /\ pendingMap' = Without(pendingMap, key)
        /\ FillMarket(Fresh, other, side, qty, None, price)
        /\ tradeMap' = With(With(tradeMap, other, Fresh), key, id)
        /\ meta' = [meta EXCEPT ![key] = None]
        /\ books' = [books EXCEPT ![key] = "filled", ![other] = "filled"]
        /\ UNCHANGED <<setup, replayVars, pending, peak, tallyVars, saved, newlyClosed,
                       signalCount, closing, dropped>>
    BY <1>2 DEF HandlePairedFill, key, other, side, qty, price
  <2>6. /\ Fresh \in Nat /\ DOMAIN trades' = DOMAIN trades \cup {Fresh}
        /\ trades' \in [DOMAIN trades' -> TradeType] /\ trades'[Fresh].key = other
        /\ \A i \in DOMAIN trades : trades'[i] = trades[i]
        /\ capital' \in Int /\ fees' \in Int /\ position' \in PositionType
    BY <2>2, <2>3, <2>4, <2>5, Opens
  <2>7. Used' \subseteq Used \cup {Fresh}
    BY <2>1, <2>5, <2>6 DEF Used, Values, With, Without
  <2>8. IsFiniteSet(Used') /\ Used' \subseteq Nat BY <2>7, UsedGrows
  <2>9. /\ tradeMap' \in [DOMAIN tradeMap' -> Nat] /\ DOMAIN tradeMap' \subseteq Keys
        /\ pendingMap' \in [DOMAIN pendingMap' -> Nat] /\ DOMAIN pendingMap' \subseteq Keys
    BY <2>1, <2>2, <2>5, <2>6 DEF Types, With, Without
  <2>10. /\ meta' \in [Keys -> Keys \cup {None}]
         /\ books' \in [Keys -> {"free", "placed", "filled", "leaving"}]
    BY <2>5 DEF Types
  <2>11. setup'.stateful => \A i \in DOMAIN trades' : trades'[i].key \in Keys
    BY <2>2, <2>5, <2>6 DEF Types
  <2> QED BY <2>1, <2>5, <2>6, <2>8, <2>9, <2>10, <2>11 DEF Types, replayVars, tallyVars
<1>3. ASSUME NEW closed \in newlyClosed, HandleClosure(closed) PROVE Types'
  <2>1. closed.pnl \in Int BY DEF Types, ClosedType
  <2>2. /\ newlyClosed' = newlyClosed \ {closed} /\ ReportClosed(closed.id, closed.pnl)
        /\ UNCHANGED <<setup, replayVars, moneyVars, pending, trades, pendingMap, meta, peak,
                       saved, newlyFilled, signalCount, closing>>
    BY <1>3 DEF HandleClosure
  <2>3. /\ banked' \in Int /\ DOMAIN tradeMap' \subseteq DOMAIN tradeMap
        /\ tradeMap' \in [DOMAIN tradeMap' -> Nat]
        /\ Values(tradeMap') \subseteq Values(tradeMap)
        /\ books' \in [Keys -> {"free", "placed", "filled", "leaving"}]
        /\ dropped' \subseteq dropped
    BY <2>1, <2>2, ReportKeepsTypes
  <2>4. Used' \subseteq Used BY <2>2, <2>3 DEF Used, Values
  <2>5. IsFiniteSet(Used') /\ Used' \subseteq Nat BY <2>4, UsedGrows
  <2> QED BY <2>2, <2>3, <2>5 DEF Types, replayVars, moneyVars
<1>4. CASE FillsDone \/ ClosuresDone
  <2>1. Used' = Used BY <1>4 DEF FillsDone, ClosuresDone, Used, Values, runnerVars
  <2>2. setup' = setup /\ pc' \in IF setup.stateful THEN GridPlaces ELSE SimplePlaces
    BY <1>4 DEF Types, FillsDone, ClosuresDone, GridPlaces, SimplePlaces
  <2> QED BY <1>4, <2>1, <2>2 DEF Types, FillsDone, ClosuresDone, moneyVars, runnerVars,
                                  tallyVars, stepVars, bookVars
<1> QED BY <1>1, <1>2, <1>3, <1>4

LEMMA StopForType ==
  ASSUME NEW side \in Directions, NEW price \in Int, NEW stopped \in BOOLEAN
  PROVE  StopFor(side, price, stopped) \in Int \cup {None}
BY BacktestConstants DEF StopFor, Sign

\* The signals of a step.
LEMMA SignalsKeepTypes ==
  ASSUME Types,
         \/ \E key \in Keys, price \in Prices, other \in Keys \cup {None} :
              PlaceResting(key, price, other)
         \/ \E key \in Keys, stopped \in BOOLEAN, f \in Frictions : PlaceMarket(key, stopped, f)
         \/ \E key \in Keys, other \in Keys \cup {None} : DropSignal(key, other)
         \/ \E key \in Keys : Retire(key)
         \/ NoSignal
  PROVE  Types'
<1>1. ASSUME NEW key \in Keys, NEW price \in Prices, NEW other \in Keys \cup {None},
             PlaceResting(key, price, other)
      PROVE  Types'
  <2> DEFINE stop == StopFor(Side[key], price, other = None)
             isStop == IsStop(Side[key], price)
             order == [key |-> key, side |-> Side[key], qty |-> PositionSize, price |-> price,
                       isStop |-> isStop, stop |-> stop]
  <2>1. Side[key] \in Directions /\ price \in Nat /\ PositionSize \in Nat \ {0}
    BY BacktestConstants DEF Directions
  <2>2. stop \in Int \cup {None} /\ isStop \in BOOLEAN
    <3>1. (other = None) \in BOOLEAN /\ price \in Int BY <2>1
    <3>2. stop \in Int \cup {None} BY <2>1, <3>1, StopForType
    <3>3. isStop \in BOOLEAN BY Zenon DEF IsStop
    <3> QED BY <3>2, <3>3
  <2> HIDE DEF stop, isStop
  <2>3. order \in OrderType BY <2>1, <2>2 DEF OrderType
  <2>4. pending' = With(pending, Fresh, order)
    BY <1>1 DEF PlaceResting, PlacePending, stop, isStop
  <2> HIDE DEF order
  <2>5. /\ pendingMap' = With(pendingMap, key, Fresh) /\ meta' = [meta EXCEPT ![key] = other]
        /\ books' = Held({key, other}) /\ pc = "drain"
        /\ UNCHANGED <<setup, replayVars, moneyVars, trades, tradeMap, peak, tallyVars, saved,
                       newlyFilled, newlyClosed, closing, dropped>>
    BY <1>1 DEF PlaceResting, Draining
  <2>6. Fresh \in Nat BY FreshIsUnused DEF Types
  <2>7. Used' \subseteq Used \cup {Fresh} BY <2>4, <2>5 DEF Used, Values, With
  <2>8. IsFiniteSet(Used') /\ Used' \subseteq Nat BY <2>7, UsedGrows
  <2>9. pending' \in [DOMAIN pending' -> OrderType] BY <2>3, <2>4 DEF Types, With
  <2> QED BY <2>5, <2>6, <2>8, <2>9 DEF Types, With, Held, replayVars, moneyVars, tallyVars
<1>2. ASSUME NEW key \in Keys, NEW stopped \in BOOLEAN, NEW f \in Frictions,
             PlaceMarket(key, stopped, f)
      PROVE  Types'
  <2> DEFINE stop == StopFor(Side[key], bar.close, stopped)
             price == FillPrice(Side[key], f)
  <2>1. Side[key] \in Directions /\ PositionSize \in Nat \ {0} /\ bar.close \in Int
    BY BacktestConstants, BarType DEF Directions
  <2>2. stop \in Int \cup {None} /\ price \in Int BY <2>1, StopForType, MarketPrice
  <2>3. /\ FillMarket(Fresh, key, Side[key], PositionSize, stop, price)
        /\ tradeMap' = With(tradeMap, key, Fresh) /\ books' = Reported(key, "filled")
        /\ pc = "drain"
        /\ UNCHANGED <<setup, replayVars, pending, pendingMap, meta, peak, tallyVars, saved,
                       newlyFilled, newlyClosed, closing, dropped>>
    BY <1>2 DEF PlaceMarket, Draining
  <2> HIDE DEF stop, price
  <2>4. /\ Fresh \in Nat /\ DOMAIN trades' = DOMAIN trades \cup {Fresh}
        /\ trades' \in [DOMAIN trades' -> TradeType] /\ trades'[Fresh].key = key
        /\ \A i \in DOMAIN trades : trades'[i] = trades[i]
        /\ capital' \in Int /\ fees' \in Int /\ position' \in PositionType
    BY <2>1, <2>2, <2>3, Opens
  <2>5. Used' \subseteq Used \cup {Fresh} BY <2>3, <2>4 DEF Used, Values, With
  <2>6. IsFiniteSet(Used') /\ Used' \subseteq Nat BY <2>5, UsedGrows
  <2>7. tradeMap' \in [DOMAIN tradeMap' -> Nat] /\ DOMAIN tradeMap' \subseteq Keys
    BY <2>3, <2>4 DEF Types, With
  <2>8. setup'.stateful => \A i \in DOMAIN trades' : trades'[i].key \in Keys
    BY <2>3, <2>4 DEF Types
  <2> QED BY <2>3, <2>4, <2>6, <2>7, <2>8 DEF Types, Reported, replayVars, tallyVars
<1>3. CASE (\E key \in Keys, other \in Keys \cup {None} : DropSignal(key, other)) \/ NoSignal
  <2>1. Used' = Used BY <1>3 DEF DropSignal, NoSignal, Used, Values, runnerVars
  <2>2. /\ setup' = setup /\ pc' \in IF setup.stateful THEN GridPlaces ELSE SimplePlaces
        /\ pc = "drain"
    BY <1>3 DEF Types, DropSignal, CapReached, NoSignal, GridPlaces, SimplePlaces
  <2>3. /\ books' \in [Keys -> {"free", "placed", "filled", "leaving"}]
        /\ dropped' \subseteq Keys
    BY <1>3 DEF Types, DropSignal, NoSignal, Held, bookVars
  <2> QED BY <1>3, <2>1, <2>2, <2>3 DEF Types, DropSignal, NoSignal, moneyVars, runnerVars,
                                        tallyVars, stepVars
<1>4. ASSUME NEW key \in Keys, Retire(key) PROVE Types'
  <2>1. Used' = Used BY <1>4 DEF Retire, Used, Values, runnerVars
  <2> QED BY <1>4, <2>1 DEF Types, Retire, Reported, replayVars, moneyVars, runnerVars,
                            tallyVars, stepVars
<1> QED BY <1>1, <1>2, <1>3, <1>4

\* Close-alls, trims and the final flattening.
LEMMA ClosingKeepsTypes ==
  ASSUME Types,
         \/ BeginCloseAll \/ EndCloseAll
         \/ \E id \in DOMAIN trades, f \in Frictions : CloseOne(id, f)
  PROVE  Types'
<1>1. ASSUME NEW id \in DOMAIN trades, NEW f \in Frictions, CloseOne(id, f) PROVE Types'
  <2> DEFINE price == FillPrice(Opposite(trades[id].side), f)
  <2>1. /\ CloseAtMarket(id, f) /\ ReportClosed(id, Pnl(trades[id], price)) /\ pc = "closing"
        /\ UNCHANGED <<setup, replayVars, pending, pendingMap, meta, peak, saved, stepVars,
                       closing>>
    BY <1>1 DEF CloseOne
  <2>2. price \in Int /\ CloseTrade(id, price) BY <2>1, ClosesAtMarket
  <2> HIDE DEF price
  <2>3. /\ DOMAIN trades' = DOMAIN trades \ {id} /\ trades' \in [DOMAIN trades' -> TradeType]
        /\ \A i \in DOMAIN trades' : trades'[i] = trades[i]
        /\ Pnl(trades[id], price) \in Int /\ capital' \in Int
        /\ fees' = fees /\ position' = position
    BY <2>2, Closes
  <2>4. /\ banked' \in Int /\ DOMAIN tradeMap' \subseteq DOMAIN tradeMap
        /\ tradeMap' \in [DOMAIN tradeMap' -> Nat]
        /\ Values(tradeMap') \subseteq Values(tradeMap)
        /\ books' \in [Keys -> {"free", "placed", "filled", "leaving"}]
        /\ dropped' \subseteq dropped
    BY <2>1, <2>3, ReportKeepsTypes
  <2>5. Used' \subseteq Used BY <2>1, <2>3, <2>4 DEF Used, Values
  <2>6. IsFiniteSet(Used') /\ Used' \subseteq Nat BY <2>5, UsedGrows
  <2>7. newlyFilled = {} /\ newlyClosed = {} BY <2>1 DEF Types
  <2> QED BY <2>1, <2>3, <2>4, <2>6, <2>7 DEF Types, replayVars, stepVars
<1>2. CASE BeginCloseAll \/ EndCloseAll
  <2>1. Used' \subseteq Used
    BY <1>2 DEF BeginCloseAll, EndCloseAll, Used, Values
  <2>2. IsFiniteSet(Used') /\ Used' \subseteq Nat BY <2>1, UsedGrows
  <2>3. /\ setup' = setup /\ pc' \in IF setup.stateful THEN GridPlaces ELSE SimplePlaces
        /\ pc \in {"drain", "closing"}
    BY <1>2 DEF Types, BeginCloseAll, EndCloseAll, Draining, GridPlaces, SimplePlaces
  <2>4. newlyFilled = {} /\ newlyClosed = {} BY <2>3 DEF Types
  <2>5. /\ pending' \in [DOMAIN pending' -> OrderType]
        /\ pendingMap' \in [DOMAIN pendingMap' -> Nat] /\ DOMAIN pendingMap' \subseteq Keys
        /\ tradeMap' \in [DOMAIN tradeMap' -> Nat] /\ DOMAIN tradeMap' \subseteq Keys
        /\ meta' \in [Keys -> Keys \cup {None}]
        /\ books' \in [Keys -> {"free", "placed", "filled", "leaving"}] /\ dropped' \subseteq Keys
    <3>1. CASE BeginCloseAll BY <3>1 DEF Types, BeginCloseAll
    <3>2. CASE EndCloseAll BY <3>2 DEF Types, EndCloseAll
    <3> QED BY <1>2, <3>1, <3>2
  <2>6. UNCHANGED <<setup, bar, capital, fees, position, trades, banked, saved, newlyFilled,
                    newlyClosed>>
    BY <1>2 DEF BeginCloseAll, EndCloseAll, moneyVars, tallyVars, stepVars
  <2> QED BY <2>2, <2>3, <2>4, <2>5, <2>6 DEF Types
<1> QED BY <1>1, <1>2

LEMMA TrimsKeepTypes ==
  ASSUME Types,
         \/ \E key \in Keys : TrimOrder(key)
         \/ \E key \in Keys, f \in Frictions : TrimTrade(key, f) /\ tradeMap[key] \in DOMAIN trades
         \/ TrimsDone
  PROVE  Types'
<1>1. ASSUME NEW key \in Keys, CancelOrder(key)
      PROVE  /\ pending' \in [DOMAIN pending' -> OrderType]
             /\ DOMAIN pending' \subseteq DOMAIN pending
             /\ pendingMap' \in [DOMAIN pendingMap' -> Nat] /\ DOMAIN pendingMap' \subseteq Keys
             /\ Values(pendingMap') \subseteq Values(pendingMap)
  BY <1>1 DEF CancelOrder, Types, Without, Values
<1>2. ASSUME NEW key \in Keys, TrimOrder(key) PROVE Types'
  <2>1. /\ CancelOrder(key) /\ books' = Reported(key, "free") /\ dropped' = dropped \ {key}
        /\ UNCHANGED <<setup, replayVars, moneyVars, trades, meta, tradeMap, peak, tallyVars, saved,
                       stepVars, closing>>
    BY <1>2 DEF TrimOrder
  <2>2. Used' \subseteq Used BY <1>1, <2>1 DEF Used, Values
  <2>3. IsFiniteSet(Used') /\ Used' \subseteq Nat BY <2>2, UsedGrows
  <2> QED BY <1>1, <2>1, <2>3 DEF Types, Reported, replayVars, moneyVars, tallyVars, stepVars
<1>3. ASSUME NEW key \in Keys, NEW f \in Frictions, TrimTrade(key, f),
             tradeMap[key] \in DOMAIN trades
      PROVE  Types'
  <2> DEFINE id == tradeMap[key]
             price == FillPrice(Opposite(trades[id].side), f)
  <2>1. /\ CancelOrder(key) /\ CloseAtMarket(id, f) /\ Bank(Pnl(trades[id], price))
        /\ tradeMap' = Without(tradeMap, key)
        /\ books' = Reported(key, "free") /\ dropped' = dropped \ {key} /\ pc = "trim"
        /\ UNCHANGED <<setup, replayVars, meta, peak, saved, stepVars, closing>>
    BY <1>3 DEF TrimTrade
  <2>2. id \in DOMAIN trades BY <1>3
  <2> HIDE DEF id
  <2>3. price \in Int /\ CloseTrade(id, price) BY <2>1, <2>2, ClosesAtMarket
  <2> HIDE DEF price
  <2>4. /\ DOMAIN trades' = DOMAIN trades \ {id} /\ trades' \in [DOMAIN trades' -> TradeType]
        /\ \A i \in DOMAIN trades' : trades'[i] = trades[i]
        /\ Pnl(trades[id], price) \in Int /\ capital' \in Int
        /\ fees' = fees /\ position' = position
    BY <2>2, <2>3, Closes
  <2>5. banked' \in Int BY <2>1, <2>4, BankType
  <2>6. /\ tradeMap' \in [DOMAIN tradeMap' -> Nat] /\ DOMAIN tradeMap' \subseteq Keys
        /\ Values(tradeMap') \subseteq Values(tradeMap)
    BY <2>1 DEF Types, Without, Values
  <2>7. Used' \subseteq Used BY <1>1, <2>1, <2>4, <2>6 DEF Used
  <2>8. IsFiniteSet(Used') /\ Used' \subseteq Nat BY <2>7, UsedGrows
  <2>9. newlyFilled = {} /\ newlyClosed = {} BY <2>1 DEF Types
  <2> QED BY <1>1, <2>1, <2>4, <2>5, <2>6, <2>8, <2>9 DEF Types, Reported, replayVars, stepVars
<1>4. CASE TrimsDone
  <2>1. Used' = Used BY <1>4 DEF TrimsDone, Used, Values, runnerVars
  <2>2. /\ setup' = setup /\ pc' \in IF setup.stateful THEN GridPlaces ELSE SimplePlaces
        /\ pc = "trim"
    BY <1>4 DEF Types, TrimsDone, GridPlaces, SimplePlaces
  <2> QED BY <1>4, <2>1, <2>2 DEF Types, TrimsDone, moneyVars, runnerVars, tallyVars, stepVars,
                                  bookVars
<1> QED BY <1>2, <1>3, <1>4

LEMMA ReplayKeepsTypes ==
  ASSUME Types,
         \/ NextBar \/ Record \/ Exhausted \/ EndFlatten
         \/ \E id \in DOMAIN trades, f \in Frictions : Flatten(id, f)
  PROVE  Types'
<1>1. CASE NextBar \/ Record \/ Exhausted \/ EndFlatten
  <2>1. Used' \subseteq Used
    BY <1>1 DEF NextBar, Record, Exhausted, EndFlatten, Used, Values, runnerVars
  <2>2. IsFiniteSet(Used') /\ Used' \subseteq Nat BY <2>1, UsedGrows
  <2>3. /\ setup' = setup /\ bar' \in Bars
        /\ pc' \in IF setup.stateful THEN GridPlaces ELSE SimplePlaces
        /\ pc \in {"next", "record", "end"}
    BY <1>1 DEF Types, NextBar, Record, Exhausted, EndFlatten, GridPlaces, SimplePlaces
  <2>4. newlyFilled = {} /\ newlyClosed = {} BY <2>3 DEF Types
  <2>5. tradeMap' \in [DOMAIN tradeMap' -> Nat] /\ DOMAIN tradeMap' \subseteq Keys
    BY <1>1 DEF Types, NextBar, Record, Exhausted, EndFlatten, runnerVars
  <2>6. UNCHANGED <<capital, fees, position, pending, trades, pendingMap, meta, banked, saved,
                    newlyFilled, newlyClosed, books, dropped>>
    BY <1>1 DEF NextBar, Record, Exhausted, EndFlatten, moneyVars, runnerVars, tallyVars, stepVars,
                bookVars
  <2> QED BY <2>2, <2>3, <2>4, <2>5, <2>6 DEF Types
<1>2. ASSUME NEW id \in DOMAIN trades, NEW f \in Frictions, Flatten(id, f) PROVE Types'
  <2> DEFINE price == FillPrice(Opposite(trades[id].side), f)
  <2>1. /\ CloseAtMarket(id, f) /\ Bank(Pnl(trades[id], price)) /\ pc = "end"
        /\ UNCHANGED <<setup, replayVars, pending, runnerVars, peak, saved, stepVars, bookVars>>
    BY <1>2 DEF Flatten
  <2>2. price \in Int /\ CloseTrade(id, price) BY <2>1, ClosesAtMarket
  <2> HIDE DEF price
  <2>3. /\ DOMAIN trades' = DOMAIN trades \ {id} /\ trades' \in [DOMAIN trades' -> TradeType]
        /\ \A i \in DOMAIN trades' : trades'[i] = trades[i]
        /\ Pnl(trades[id], price) \in Int /\ capital' \in Int
        /\ fees' = fees /\ position' = position
    BY <2>2, Closes
  <2>4. banked' \in Int BY <2>1, <2>3, BankType
  <2>5. Used' \subseteq Used BY <2>1, <2>3 DEF Used, Values, runnerVars
  <2>6. IsFiniteSet(Used') /\ Used' \subseteq Nat BY <2>5, UsedGrows
  <2>7. newlyFilled = {} /\ newlyClosed = {} BY <2>1 DEF Types
  <2> QED BY <2>1, <2>3, <2>4, <2>6, <2>7
       DEF Types, replayVars, runnerVars, stepVars, bookVars
<1> QED BY <1>1, <1>2

\* What a simple replay's order fills at, and the position after it.
LEMMA SimpleKeepsTypes ==
  ASSUME Types, SimpleStep
  PROVE  Types'
<1>1. CASE Hold
  <2>1. Used' = Used BY <1>1 DEF Hold, Used, Values, runnerVars
  <2>2. /\ setup' = setup /\ pc' \in IF setup.stateful THEN GridPlaces ELSE SimplePlaces
        /\ pc = "signal"
    BY <1>1 DEF Types, Hold, GridPlaces, SimplePlaces
  <2> QED BY <1>1, <2>1, <2>2 DEF Types, Hold, moneyVars, runnerVars, tallyVars, stepVars, bookVars
<1>2. ASSUME NEW side \in Directions, NEW stopped \in BOOLEAN, NEW qty \in 1 .. PositionSize,
             NEW f \in Frictions, Trade(side, stopped, qty, f)
      PROVE  Types'
  <2> DEFINE stop == StopFor(side, bar.close, stopped)
             price == FillPrice(side, f)
             after == UpdatePosition(side, qty, price)
             pnl == after.realized - position.realized
  <2>1. qty \in Nat \ {0} BY BacktestConstants
  <2>2. stop \in Int \cup {None} BY BarType, StopForType
  <2>3. price \in Int BY MarketPrice
  <2>4. /\ FillMarket(Fresh, None, side, qty, stop, price) /\ pc = "signal" /\ pc' = "record"
        /\ IF pnl # 0 THEN Bank(pnl) ELSE UNCHANGED tallyVars
        /\ saved' = [qty |-> after.qty,
                     pnl |-> after.realized + after.qty * (bar.close - after.cost)]
        /\ UNCHANGED <<setup, left, bar, pending, runnerVars, peak, stepVars, bookVars>>
    BY <1>2 DEF Trade
  <2> HIDE DEF stop, price
  <2>5. after \in PositionType /\ position \in PositionType
    BY <2>1, <2>3, UpdatePositionType DEF Types
  <2> HIDE DEF after
  <2>6. after.qty \in Int /\ after.cost \in Int /\ pnl \in Int /\ after.realized \in Int
    BY <2>5 DEF PositionType
  <2>7. banked' \in Int
    <3> HIDE DEF pnl
    <3> QED BY <2>4, <2>6, BankType DEF Types, tallyVars
  <2>8. saved' \in [qty : Int, pnl : Int]
    <3>1. bar.close \in Int BY BarType
    <3>2. after.realized + after.qty * (bar.close - after.cost) \in Int BY <2>6, <3>1
    <3> QED BY <2>4, <2>6, <3>2
  <2>9. /\ Fresh \in Nat /\ DOMAIN trades' = DOMAIN trades \cup {Fresh}
        /\ trades' \in [DOMAIN trades' -> TradeType]
        /\ capital' \in Int /\ fees' \in Int /\ position' \in PositionType
    BY <2>1, <2>2, <2>3, <2>4, Opens
  <2>10. ~setup.stateful /\ newlyFilled = {} /\ newlyClosed = {}
    BY <2>4 DEF Types, GridPlaces
  <2>11. Used' \subseteq Used \cup {Fresh} BY <2>4, <2>9 DEF Used, Values, runnerVars
  <2>12. IsFiniteSet(Used') /\ Used' \subseteq Nat BY <2>11, UsedGrows
  <2> QED BY <2>4, <2>7, <2>8, <2>9, <2>10, <2>12
       DEF Types, SimplePlaces, runnerVars, stepVars, bookVars
<1> QED BY <1>1, <1>2 DEF SimpleStep, Directions

-----------------------------------------------------------------------------
(***************************************************************************)
(* Each key of the strategy is held for what the runner's maps and the     *)
(* broker have at it.                                                      *)
(***************************************************************************)
\* Every resting order is known under its key; what is known rests or was filled by this bar.
OrdersKnown ==
  /\ \A i \in DOMAIN pending :
       pending[i].key \in DOMAIN pendingMap /\ pendingMap[pending[i].key] = i
  /\ \A k \in DOMAIN pendingMap :
       IF pendingMap[k] \in DOMAIN pending THEN pending[pendingMap[k]].key = k
       ELSE \E i \in newlyFilled : trades[i].key = k
  /\ \A i \in newlyFilled :
       trades[i].key \in DOMAIN pendingMap /\ pendingMap[trades[i].key] \notin DOMAIN pending
  /\ \A i, j \in newlyFilled : trades[i].key = trades[j].key => i = j

\* Every trade is known under its key once its fill is handled, until its end is handled.
TradesKnown ==
  /\ \A i \in DOMAIN trades \ newlyFilled :
       trades[i].key \in DOMAIN tradeMap /\ tradeMap[trades[i].key] = i
  /\ \A k \in DOMAIN tradeMap :
       IF tradeMap[k] \in DOMAIN trades
       THEN tradeMap[k] \notin newlyFilled /\ trades[tradeMap[k]].key = k
       ELSE \E c \in newlyClosed : c.id = tradeMap[k]
  /\ \A k, j \in DOMAIN tradeMap : tradeMap[k] = tradeMap[j] => k = j
  /\ \A c \in newlyClosed :
       c.id \notin DOMAIN trades /\ \E k \in DOMAIN tradeMap : tradeMap[k] = c.id
  /\ \A c, d \in newlyClosed : c.id = d.id => c = d

\* A key is in one of the maps, dropped, or the opposite of one resting order.
KeysApart ==
  /\ \A k \in DOMAIN tradeMap : k \notin DOMAIN pendingMap /\ k \notin dropped
  /\ \A k \in DOMAIN pendingMap : k \notin dropped
  /\ \A k \in Keys : meta[k] # None =>
       /\ k \in DOMAIN pendingMap
       /\ meta[k] \notin DOMAIN tradeMap /\ meta[k] \notin DOMAIN pendingMap
       /\ meta[k] \notin dropped
  /\ \A k, j \in Keys : meta[k] # None /\ meta[k] = meta[j] => k = j

\* The strategy's books agree, but while a close-all is on its way: then nothing rests.
BooksHeld ==
  /\ \A k \in Keys : books[k] = "leaving" => pc \in {"drain", "closing", "trim"}
  /\ IF pc = "closing"
     THEN /\ DOMAIN pending = {} /\ DOMAIN pendingMap = {}
          /\ \A k \in Keys : meta[k] = None
     ELSE \A k \in Keys :
            /\ k \in DOMAIN tradeMap => books[k] \in {"filled", "leaving"}
            /\ k \in DOMAIN pendingMap \/ k \in dropped => books[k] \in {"placed", "leaving"}
            /\ meta[k] # None => books[k] = "placed" /\ books[meta[k]] = "placed"
            /\ books[k] = "filled" => k \in DOMAIN tradeMap
            /\ books[k] = "placed" =>
                 k \in DOMAIN pendingMap \/ k \in dropped \/ \E j \in Keys : meta[j] = k

Followed == OrdersKnown /\ TradesKnown /\ KeysApart /\ BooksHeld

Follow == setup.stateful /\ pc \notin {"end", "done"} => Followed

\* A step that moves nothing but the place in the replay.
LEMMA PlaceMoves ==
  ASSUME Followed, pc # "closing", pc' # "closing",
         \A k \in Keys : books[k] = "leaving" => pc' \in {"drain", "trim"},
         UNCHANGED <<pending, trades, pendingMap, tradeMap, meta, newlyFilled, newlyClosed,
                     books, dropped>>
  PROVE  Followed'
<1>1. OrdersKnown' /\ TradesKnown' BY DEF Followed, OrdersKnown, TradesKnown
<1>2. KeysApart' BY DEF Followed, KeysApart
<1>3. BooksHeld' BY DEF Followed, BooksHeld
<1> QED BY <1>1, <1>2, <1>3 DEF Followed

LEMMA StopOutFollowed ==
  ASSUME Types, Followed, NEW id \in DOMAIN trades, NEW f \in Frictions, StopOut(id, f)
  PROVE  Followed'
<1> DEFINE closed == [id |-> id, pnl |-> Pnl(trades[id], ApplyFriction(Opposite(trades[id].side),
                                                                    StopBase(trades[id]), f))]
<1>1. /\ pc = "stops" /\ newlyFilled = {} /\ newlyFilled' = {}
      /\ newlyClosed' = newlyClosed \cup {closed} /\ closed.id = id
      /\ trades' = Without(trades, id)
      /\ UNCHANGED <<pc, pending, pendingMap, tradeMap, meta, books, dropped>>
  BY DEF Types, StopOut, CloseTrade, replayVars, runnerVars, bookVars
<1> HIDE DEF closed
<1>2. DOMAIN trades' = DOMAIN trades \ {id} /\ \A i \in DOMAIN trades' : trades'[i] = trades[i]
  BY <1>1 DEF Without
<1>3. trades[id].key \in DOMAIN tradeMap /\ tradeMap[trades[id].key] = id
  BY <1>1 DEF Followed, TradesKnown
<1>4. OrdersKnown' BY <1>1 DEF Followed, OrdersKnown
<1>5. TradesKnown' BY <1>1, <1>2, <1>3 DEF Followed, TradesKnown
<1>6. KeysApart' /\ BooksHeld' BY <1>1 DEF Followed, KeysApart, BooksHeld
<1> QED BY <1>4, <1>5, <1>6 DEF Followed

LEMMA EnterFollowed ==
  ASSUME Types, Followed, NEW id \in DOMAIN pending, NEW f \in Frictions, Enter(id, f)
  PROVE  Followed'
<1> DEFINE key == pending[id].key
<1>1. /\ pc = "entries" /\ newlyFilled' = newlyFilled \cup {Fresh}
      /\ pending' = Without(pending, id)
      /\ DOMAIN trades' = DOMAIN trades \cup {Fresh} /\ trades'[Fresh].key = key
      /\ \A i \in DOMAIN trades : i # Fresh => trades'[i] = trades[i]
      /\ UNCHANGED <<pc, pendingMap, tradeMap, meta, newlyClosed, books, dropped>>
  BY DEF Enter, With, replayVars, runnerVars, bookVars
<1>2. /\ Fresh \notin DOMAIN trades /\ \A k \in DOMAIN tradeMap : tradeMap[k] # Fresh
      /\ newlyFilled \subseteq DOMAIN trades
  BY FreshIsUnused DEF Types, Used, Values
<1>3. DOMAIN pending' = DOMAIN pending \ {id} /\ \A i \in DOMAIN pending' : pending'[i] = pending[i]
  BY <1>1 DEF Without
<1>4. key \in DOMAIN pendingMap /\ pendingMap[key] = id BY DEF Followed, OrdersKnown
<1> HIDE DEF key
<1>5. \A i \in newlyFilled : trades[i].key # key /\ trades'[i] = trades[i]
  BY <1>1, <1>2, <1>4 DEF Followed, OrdersKnown
<1>6. OrdersKnown'
  <2>1. \A i \in DOMAIN pending' :
            pending'[i].key \in DOMAIN pendingMap' /\ pendingMap'[pending'[i].key] = i
    BY <1>1, <1>3 DEF Followed, OrdersKnown
  <2>2. ASSUME NEW k \in DOMAIN pendingMap'
        PROVE  IF pendingMap'[k] \in DOMAIN pending' THEN pending'[pendingMap'[k]].key = k
               ELSE \E i \in newlyFilled' : trades'[i].key = k
    <3>1. CASE pendingMap[k] = id
      <4>1. k = key BY <1>1, <3>1 DEF Followed, OrdersKnown, key
      <4> QED BY <1>1, <1>3, <3>1, <4>1
    <3>2. CASE pendingMap[k] # id BY <1>1, <1>3, <1>5, <3>2 DEF Followed, OrdersKnown
    <3> QED BY <3>1, <3>2
  <2>3. \A i \in newlyFilled' :
          /\ trades'[i].key \in DOMAIN pendingMap'
          /\ pendingMap'[trades'[i].key] \notin DOMAIN pending'
    BY <1>1, <1>3, <1>4, <1>5 DEF Followed, OrdersKnown
  <2>4. \A i, j \in newlyFilled' : trades'[i].key = trades'[j].key => i = j
    BY <1>1, <1>5 DEF Followed, OrdersKnown
  <2> QED BY <2>1, <2>2, <2>3, <2>4 DEF OrdersKnown
<1>7. TradesKnown'
  <2>1. ASSUME NEW i \in DOMAIN trades' \ newlyFilled'
        PROVE  trades'[i].key \in DOMAIN tradeMap' /\ tradeMap'[trades'[i].key] = i
    BY <1>1, <1>2 DEF Followed, TradesKnown
  <2>2. ASSUME NEW k \in DOMAIN tradeMap'
        PROVE  IF tradeMap'[k] \in DOMAIN trades'
               THEN tradeMap'[k] \notin newlyFilled' /\ trades'[tradeMap'[k]].key = k
               ELSE \E c \in newlyClosed' : c.id = tradeMap'[k]
    BY <1>1, <1>2 DEF Followed, TradesKnown
  <2>3. \A c \in newlyClosed' :
            c.id \notin DOMAIN trades' /\ \E k \in DOMAIN tradeMap' : tradeMap'[k] = c.id
    BY <1>1, <1>2 DEF Followed, TradesKnown
  <2> QED BY <1>1, <2>1, <2>2, <2>3 DEF Followed, TradesKnown
<1>8. KeysApart' /\ BooksHeld' BY <1>1 DEF Followed, KeysApart, BooksHeld
<1> QED BY <1>6, <1>7, <1>8 DEF Followed

LEMMA HandleFillFollowed ==
  ASSUME Types, setup.stateful, Followed, NEW id \in newlyFilled, HandleFill(id)
  PROVE  Followed'
<1> DEFINE key == trades[id].key
<1>1. /\ pc = "fills" /\ meta[key] = None /\ newlyFilled' = newlyFilled \ {id}
      /\ pendingMap' = Without(pendingMap, key) /\ tradeMap' = With(tradeMap, key, id)
      /\ books' = [books EXCEPT ![key] = "filled"]
      /\ UNCHANGED <<pc, pending, trades, meta, newlyClosed, dropped>>
  BY DEF HandleFill, Reported, replayVars, moneyVars
<1>2. id \in DOMAIN trades /\ key \in Keys /\ DOMAIN books = Keys BY DEF Types
<1>3. key \in DOMAIN pendingMap /\ pendingMap[key] \notin DOMAIN pending
  BY DEF Followed, OrdersKnown
<1>4. \A k \in DOMAIN tradeMap : k # key /\ tradeMap[k] # id
  BY <1>2, <1>3 DEF Followed, TradesKnown, KeysApart
<1>5. \A i \in newlyFilled : i # id => trades[i].key # key BY DEF Followed, OrdersKnown
<1> HIDE DEF key
<1>6. /\ DOMAIN pendingMap' = DOMAIN pendingMap \ {key}
      /\ \A k \in DOMAIN pendingMap' : pendingMap'[k] = pendingMap[k]
  BY <1>1 DEF Without
<1>7. /\ DOMAIN tradeMap' = DOMAIN tradeMap \cup {key} /\ tradeMap'[key] = id
      /\ \A k \in DOMAIN tradeMap : tradeMap'[k] = tradeMap[k]
  BY <1>1, <1>4 DEF With
<1>8. OrdersKnown'
  <2>1. ASSUME NEW i \in DOMAIN pending
        PROVE  pending[i].key \in DOMAIN pendingMap' /\ pendingMap'[pending[i].key] = i
    <3>1. pending[i].key \in DOMAIN pendingMap /\ pendingMap[pending[i].key] = i
      BY DEF Followed, OrdersKnown
    <3>2. pending[i].key # key BY <1>3, <3>1
    <3> QED BY <1>6, <3>1, <3>2
  <2>2. ASSUME NEW k \in DOMAIN pendingMap'
        PROVE  IF pendingMap'[k] \in DOMAIN pending THEN pending[pendingMap'[k]].key = k
               ELSE \E i \in newlyFilled' : trades[i].key = k
    BY <1>1, <1>6 DEF Followed, OrdersKnown, key
  <2>3. \A i \in newlyFilled' :
          trades[i].key \in DOMAIN pendingMap' /\ pendingMap'[trades[i].key] \notin DOMAIN pending
    BY <1>1, <1>5, <1>6 DEF Followed, OrdersKnown
  <2>4. \A i, j \in newlyFilled' : trades[i].key = trades[j].key => i = j
    BY <1>1 DEF Followed, OrdersKnown
  <2> QED BY <1>1, <2>1, <2>2, <2>3, <2>4 DEF OrdersKnown
<1>9. TradesKnown'
  <2>1. ASSUME NEW i \in DOMAIN trades \ newlyFilled'
        PROVE  trades[i].key \in DOMAIN tradeMap' /\ tradeMap'[trades[i].key] = i
    BY <1>1, <1>4, <1>7 DEF Followed, TradesKnown, key
  <2>2. ASSUME NEW k \in DOMAIN tradeMap'
        PROVE  IF tradeMap'[k] \in DOMAIN trades
               THEN tradeMap'[k] \notin newlyFilled' /\ trades[tradeMap'[k]].key = k
               ELSE \E c \in newlyClosed : c.id = tradeMap'[k]
    BY <1>1, <1>2, <1>7 DEF Followed, TradesKnown, key
  <2>3. \A k, j \in DOMAIN tradeMap' : tradeMap'[k] = tradeMap'[j] => k = j
    BY <1>4, <1>7 DEF Followed, TradesKnown
  <2>4. \A c \in newlyClosed :
            c.id \notin DOMAIN trades /\ \E k \in DOMAIN tradeMap' : tradeMap'[k] = c.id
    BY <1>7 DEF Followed, TradesKnown
  <2> QED BY <1>1, <2>1, <2>2, <2>3, <2>4 DEF Followed, TradesKnown
<1>10. key \notin dropped /\ \A k \in Keys : meta[k] # key
  <2>1. \A k \in Keys : meta[k] = key => meta[k] # None BY <1>2, BacktestConstants
  <2> QED BY <1>3, <2>1 DEF Followed, KeysApart
<1>11. KeysApart'
  BY <1>1, <1>2, <1>6, <1>7, <1>10 DEF Followed, KeysApart
<1>12. BooksHeld'
  <2>1. \A k \in Keys : k # key => books'[k] = books[k] BY <1>1, <1>2
  <2>2. books'[key] = "filled" BY <1>1, <1>2
  <2>3. \A k \in Keys : meta[k] # None => meta[k] \in Keys BY DEF Types
  <2> QED BY <1>1, <1>2, <1>6, <1>7, <1>10, <2>1, <2>2, <2>3 DEF Followed, BooksHeld
<1> QED BY <1>8, <1>9, <1>11, <1>12 DEF Followed

\* A fill with an opposite: the opposite is a trade of its own, at the key kept for it.
LEMMA HandlePairedFillFollowed ==
  ASSUME Types, setup.stateful, Followed, NEW id \in newlyFilled, NEW f \in Frictions,
         HandlePairedFill(id, f)
  PROVE  Followed'
<1> DEFINE key == trades[id].key
           other == meta[key]
<1>1. /\ pc = "fills" /\ other # None /\ newlyFilled' = newlyFilled \ {id}
      /\ pendingMap' = Without(pendingMap, key)
      /\ tradeMap' = With(With(tradeMap, other, Fresh), key, id)
      /\ meta' = [meta EXCEPT ![key] = None]
      /\ books' = [books EXCEPT ![key] = "filled", ![other] = "filled"]
      /\ UNCHANGED <<pc, pending, newlyClosed, dropped>>
  BY DEF HandlePairedFill, replayVars
<1>2. /\ id \in DOMAIN trades /\ key \in Keys /\ other \in Keys /\ DOMAIN books = Keys
      /\ DOMAIN meta = Keys
  BY <1>1 DEF Types
<1>3. /\ Fresh \notin Used
      /\ DOMAIN trades' = DOMAIN trades \cup {Fresh} /\ trades'[Fresh].key = other
      /\ \A i \in DOMAIN trades : i # Fresh /\ trades'[i] = trades[i]
  <2> DEFINE side == Opposite(trades[id].side)
  <2>1. /\ trades[id].qty \in Nat \ {0} /\ trades[id].side \in Directions
        /\ FillMarket(Fresh, other, side, trades[id].qty, None, FillPrice(side, f))
    BY <1>2 DEF HandlePairedFill, Types, TradeType
  <2>2. side \in Directions BY <2>1 DEF Opposite, Directions
  <2> HIDE DEF side, other, key
  <2>3. FillPrice(side, f) \in Int BY <2>2, MarketPrice
  <2> QED BY <1>2, <2>1, <2>2, <2>3, Opens
<1>4. key \in DOMAIN pendingMap /\ pendingMap[key] \notin DOMAIN pending
  BY DEF Followed, OrdersKnown
<1>5. /\ other # key /\ other \notin DOMAIN tradeMap /\ other \notin DOMAIN pendingMap
      /\ other \notin dropped
  BY <1>1, <1>2, <1>4 DEF Followed, KeysApart
<1>6. \A k \in DOMAIN tradeMap : k # key /\ tradeMap[k] # id /\ tradeMap[k] # Fresh
  BY <1>2, <1>3, <1>4 DEF Followed, TradesKnown, KeysApart, Used, Values
<1>7. \A i \in newlyFilled : i # Fresh /\ (i # id => trades[i].key # key)
  BY <1>3 DEF Followed, OrdersKnown, Types
<1>8. \A k \in Keys : k # key => meta[k] # other BY <1>1, <1>2 DEF Followed, KeysApart
<1>9. key \notin dropped /\ \A k \in Keys : meta[k] # key
  <2>1. \A k \in Keys : meta[k] = key => meta[k] # None BY <1>2, BacktestConstants
  <2> QED BY <1>4, <2>1 DEF Followed, KeysApart
<1>10. trades'[id].key = key /\ id \in DOMAIN trades' /\ id # Fresh BY <1>2, <1>3
<1>11. \A i \in newlyFilled : trades'[i].key = trades[i].key /\ i \in DOMAIN trades
  BY <1>3 DEF Types
<1> HIDE DEF key, other
<1>12. /\ DOMAIN pendingMap' = DOMAIN pendingMap \ {key}
       /\ \A k \in DOMAIN pendingMap' : pendingMap'[k] = pendingMap[k]
  BY <1>1 DEF Without
<1>13. /\ DOMAIN tradeMap' = DOMAIN tradeMap \cup {key, other}
       /\ tradeMap'[key] = id /\ tradeMap'[other] = Fresh
       /\ \A k \in DOMAIN tradeMap : tradeMap'[k] = tradeMap[k]
  BY <1>1, <1>5, <1>6 DEF With
<1>14. OrdersKnown'
  <2>1. ASSUME NEW i \in DOMAIN pending
        PROVE  pending[i].key \in DOMAIN pendingMap' /\ pendingMap'[pending[i].key] = i
    <3>1. pending[i].key \in DOMAIN pendingMap /\ pendingMap[pending[i].key] = i
      BY DEF Followed, OrdersKnown
    <3>2. pending[i].key # key BY <1>4, <3>1
    <3> QED BY <1>12, <3>1, <3>2
  <2>2. ASSUME NEW k \in DOMAIN pendingMap'
        PROVE  IF pendingMap'[k] \in DOMAIN pending THEN pending[pendingMap'[k]].key = k
               ELSE \E i \in newlyFilled' : trades'[i].key = k
    <3>1. k \in DOMAIN pendingMap /\ k # key /\ pendingMap'[k] = pendingMap[k] BY <1>12
    <3>2. CASE pendingMap[k] \in DOMAIN pending BY <3>1, <3>2 DEF Followed, OrdersKnown
    <3>3. CASE pendingMap[k] \notin DOMAIN pending
      <4>1. PICK i \in newlyFilled : trades[i].key = k BY <3>1, <3>3 DEF Followed, OrdersKnown
      <4>2. i # id BY <3>1, <4>1 DEF key
      <4> QED BY <1>1, <1>11, <3>1, <3>3, <4>1, <4>2
    <3> QED BY <3>2, <3>3
  <2>3. \A i \in newlyFilled' :
          trades'[i].key \in DOMAIN pendingMap' /\ pendingMap'[trades'[i].key] \notin DOMAIN pending
    BY <1>1, <1>7, <1>11, <1>12 DEF Followed, OrdersKnown
  <2>4. \A i, j \in newlyFilled' : trades'[i].key = trades'[j].key => i = j
    BY <1>1, <1>11 DEF Followed, OrdersKnown
  <2> QED BY <1>1, <2>1, <2>2, <2>3, <2>4 DEF OrdersKnown
<1>15. TradesKnown'
  <2>1. ASSUME NEW i \in DOMAIN trades' \ newlyFilled'
        PROVE  trades'[i].key \in DOMAIN tradeMap' /\ tradeMap'[trades'[i].key] = i
    <3>1. CASE i = Fresh BY <1>3, <1>13, <3>1
    <3>2. CASE i = id BY <1>10, <1>13, <3>2
    <3>3. CASE i # Fresh /\ i # id
      <4>1. i \in DOMAIN trades \ newlyFilled /\ trades'[i] = trades[i] BY <1>1, <1>3, <3>3
      <4> QED BY <1>13, <4>1 DEF Followed, TradesKnown
    <3> QED BY <3>1, <3>2, <3>3
  <2>2. ASSUME NEW k \in DOMAIN tradeMap'
        PROVE  IF tradeMap'[k] \in DOMAIN trades'
               THEN tradeMap'[k] \notin newlyFilled' /\ trades'[tradeMap'[k]].key = k
               ELSE \E c \in newlyClosed : c.id = tradeMap'[k]
    <3>1. CASE k = key BY <1>1, <1>10, <1>13, <3>1
    <3>2. CASE k = other BY <1>1, <1>3, <1>7, <1>13, <3>2
    <3>3. CASE k \in DOMAIN tradeMap
      <4>1. tradeMap'[k] = tradeMap[k] /\ tradeMap[k] # Fresh BY <1>6, <1>13, <3>3
      <4> QED BY <1>1, <1>3, <3>3, <4>1 DEF Followed, TradesKnown
    <3> QED BY <1>13, <3>1, <3>2, <3>3
  <2>3. \A k, j \in DOMAIN tradeMap' : tradeMap'[k] = tradeMap'[j] => k = j
    <3>1. id # Fresh BY <1>10
    <3> QED BY <1>6, <1>13, <3>1 DEF Followed, TradesKnown
  <2>4. \A c \in newlyClosed :
            c.id \notin DOMAIN trades' /\ \E k \in DOMAIN tradeMap' : tradeMap'[k] = c.id
    <3> TAKE c \in newlyClosed
    <3>1. c.id \notin DOMAIN trades BY DEF Followed, TradesKnown
    <3>2. PICK k \in DOMAIN tradeMap : tradeMap[k] = c.id BY DEF Followed, TradesKnown
    <3>3. tradeMap'[k] = c.id /\ c.id # Fresh /\ k \in DOMAIN tradeMap' BY <1>6, <1>13, <3>2
    <3> QED BY <1>3, <3>1, <3>3
  <2> QED BY <1>1, <2>1, <2>2, <2>3, <2>4 DEF Followed, TradesKnown
<1>16. \A k \in Keys : meta'[k] = IF k = key THEN None ELSE meta[k] BY <1>1, <1>2
<1>17. KeysApart'
  <2>1. \A k \in DOMAIN tradeMap' : k \notin DOMAIN pendingMap' /\ k \notin dropped
    BY <1>5, <1>9, <1>12, <1>13 DEF Followed, KeysApart
  <2>2. ASSUME NEW k \in Keys, meta'[k] # None
        PROVE  /\ k \in DOMAIN pendingMap'
               /\ meta'[k] \notin DOMAIN tradeMap' /\ meta'[k] \notin DOMAIN pendingMap'
               /\ meta'[k] \notin dropped
    <3>1. k # key /\ meta'[k] = meta[k] BY <1>16, <2>2
    <3>2. /\ k \in DOMAIN pendingMap /\ meta[k] \notin DOMAIN tradeMap
          /\ meta[k] \notin DOMAIN pendingMap /\ meta[k] \notin dropped
      BY <2>2, <3>1 DEF Followed, KeysApart
    <3>3. meta[k] # key /\ meta[k] # other BY <1>8, <1>9, <3>1
    <3> QED BY <1>12, <1>13, <3>1, <3>2, <3>3
  <2>3. \A k, j \in Keys : meta'[k] # None /\ meta'[k] = meta'[j] => k = j
    BY <1>16 DEF Followed, KeysApart
  <2> QED BY <1>1, <1>12, <2>1, <2>2, <2>3 DEF Followed, KeysApart
<1>18. BooksHeld'
  <2>1. \A k \in Keys : k # key /\ k # other => books'[k] = books[k] BY <1>1, <1>2
  <2>2. books'[key] = "filled" /\ books'[other] = "filled" BY <1>1, <1>2
  <2>3. \A k \in Keys : meta[k] # None => meta[k] \in Keys BY DEF Types
  <2>4. ASSUME NEW k \in Keys
        PROVE  /\ books'[k] # "leaving"
               /\ k \in DOMAIN tradeMap' => books'[k] \in {"filled", "leaving"}
               /\ k \in DOMAIN pendingMap' \/ k \in dropped => books'[k] \in {"placed", "leaving"}
               /\ meta'[k] # None => books'[k] = "placed" /\ books'[meta'[k]] = "placed"
               /\ books'[k] = "filled" => k \in DOMAIN tradeMap'
               /\ books'[k] = "placed" =>
                    k \in DOMAIN pendingMap' \/ k \in dropped \/ \E j \in Keys : meta'[j] = k
    <3>1. CASE k = key BY <1>9, <1>12, <1>13, <1>16, <2>2, <3>1
    <3>2. CASE k = other
      <4>1. meta'[k] = None BY <1>5, <1>16, <1>2, <3>2 DEF Followed, KeysApart
      <4> QED BY <1>5, <1>12, <1>13, <2>2, <3>2, <4>1
    <3>3. CASE k # key /\ k # other
      <4>1. books'[k] = books[k] /\ meta'[k] = meta[k] BY <1>16, <2>1, <3>3
      <4>2. /\ (k \in DOMAIN tradeMap' <=> k \in DOMAIN tradeMap)
            /\ (k \in DOMAIN pendingMap' <=> k \in DOMAIN pendingMap)
        BY <1>12, <1>13, <3>3
      <4>3. books[k] # "leaving" BY <1>1 DEF Followed, BooksHeld
      <4>4. meta[k] # None => meta[k] # key /\ meta[k] # other /\ meta[k] \in Keys
        BY <1>8, <1>9, <2>3, <3>3
      <4>5. meta[k] # None => books[k] = "placed" /\ books[meta[k]] = "placed"
        BY <1>1 DEF Followed, BooksHeld
      <4>6. meta'[k] # None => books'[k] = "placed" /\ books'[meta'[k]] = "placed"
        BY <2>1, <4>1, <4>4, <4>5
      <4>7. (\E j \in Keys : meta[j] = k) => \E j \in Keys : meta'[j] = k
        <5> SUFFICES ASSUME NEW j \in Keys, meta[j] = k PROVE meta'[j] = k OBVIOUS
        <5>1. j # key BY <3>3 DEF other
        <5> QED BY <1>16, <5>1
      <4> QED BY <1>1, <4>1, <4>2, <4>3, <4>6, <4>7 DEF Followed, BooksHeld
    <3> QED BY <3>1, <3>2, <3>3
  <2> QED BY <1>1, <2>4 DEF BooksHeld
<1> QED BY <1>14, <1>15, <1>17, <1>18 DEF Followed

\* The end of a trade, by its stop: it is known under one key.
LEMMA HandleClosureFollowed ==
  ASSUME Types, Followed, NEW closed \in newlyClosed, HandleClosure(closed)
  PROVE  /\ KeysOf(closed.id) # {}
         /\ Followed'
<1>1. PICK key \in DOMAIN tradeMap : tradeMap[key] = closed.id BY DEF Followed, TradesKnown
<1>2. KeysOf(closed.id) = {key} BY <1>1 DEF Followed, TradesKnown, KeysOf
<1>3. /\ pc = "closures" /\ newlyClosed' = newlyClosed \ {closed}
      /\ tradeMap' = Without(tradeMap, key)
      /\ books' = [books EXCEPT ![key] = "free"] /\ dropped' = dropped \ {key}
      /\ UNCHANGED <<pc, pending, trades, pendingMap, meta, newlyFilled>>
  <2>1. ReportClosed(closed.id, closed.pnl) BY DEF HandleClosure
  <2>2. (CHOOSE k \in KeysOf(closed.id) : TRUE) = key BY <1>2
  <2>3. /\ tradeMap' = Without(tradeMap, key)
        /\ books' = [books EXCEPT ![key] = "free"] /\ dropped' = dropped \ {key}
    BY <1>2, <2>1, <2>2 DEF ReportClosed, Reported
  <2> QED BY <2>3 DEF HandleClosure, replayVars
<1>4. /\ DOMAIN tradeMap' = DOMAIN tradeMap \ {key}
      /\ \A k \in DOMAIN tradeMap' : tradeMap'[k] = tradeMap[k]
  BY <1>3 DEF Without
<1>5. key \in Keys /\ DOMAIN books = Keys BY <1>1 DEF Types
<1>6. OrdersKnown' BY <1>3 DEF Followed, OrdersKnown
<1>7. TradesKnown' BY <1>1, <1>3, <1>4 DEF Followed, TradesKnown
<1>8. KeysApart' BY <1>1, <1>3, <1>4 DEF Followed, KeysApart
<1>9. BooksHeld'
  <2>1. \A k \in Keys : books'[k] = IF k = key THEN "free" ELSE books[k] BY <1>3, <1>5
  <2>2. key \notin DOMAIN pendingMap /\ key \notin dropped BY <1>1 DEF Followed, KeysApart
  <2>3. books[key] # "placed" BY <1>1, <1>3, <1>5 DEF Followed, BooksHeld
  <2>4. \A k \in Keys : meta[k] # None => meta[k] \in Keys /\ meta[k] # key /\ k # key
    BY <1>1, <2>2 DEF Followed, KeysApart, Types
  <2> QED BY <1>3, <1>4, <1>5, <2>1, <2>2, <2>3, <2>4 DEF Followed, BooksHeld
<1> QED BY <1>2, <1>6, <1>7, <1>8, <1>9 DEF Followed

\* Nothing is at a key the strategy holds free.
LEMMA FreeIsFree ==
  ASSUME Types, Followed, pc # "closing", NEW key \in Keys, books[key] = "free"
  PROVE  /\ key \notin DOMAIN pendingMap /\ key \notin DOMAIN tradeMap /\ key \notin dropped
         /\ meta[key] = None /\ \A k \in Keys : meta[k] # key
<1>1. /\ key \notin DOMAIN pendingMap /\ key \notin DOMAIN tradeMap /\ key \notin dropped
      /\ meta[key] = None
  BY DEF Followed, BooksHeld
<1>2. key # None BY BacktestConstants
<1> QED BY <1>1, <1>2 DEF Followed, BooksHeld

LEMMA PlaceRestingFollowed ==
  ASSUME Types, setup.stateful, Followed, NEW key \in Keys, NEW price \in Prices,
         NEW other \in Keys \cup {None}, PlaceResting(key, price, other)
  PROVE  Followed'
<1>1. /\ pc = "drain" /\ books[key] = "free"
      /\ other # None => books[other] = "free" /\ other # key
      /\ DOMAIN pending' = DOMAIN pending \cup {Fresh} /\ pending'[Fresh].key = key
      /\ \A i \in DOMAIN pending : i # Fresh => pending'[i] = pending[i]
      /\ pendingMap' = With(pendingMap, key, Fresh)
      /\ meta' = [meta EXCEPT ![key] = other]
      /\ books' = Held({key, other})
      /\ UNCHANGED <<pc, trades, tradeMap, newlyFilled, newlyClosed, dropped>>
  BY DEF PlaceResting, Draining, MayRest, MayAskFor, PlacePending, With, replayVars
<1>2. Fresh \notin DOMAIN pending /\ \A k \in DOMAIN pendingMap : pendingMap[k] # Fresh
  BY FreshIsUnused DEF Types, Used, Values
<1>3. newlyFilled = {} BY <1>1 DEF Types
<1>4. /\ key \notin DOMAIN pendingMap /\ key \notin DOMAIN tradeMap /\ key \notin dropped
      /\ meta[key] = None /\ \A k \in Keys : meta[k] # key
  BY <1>1, FreeIsFree
<1>5. other # None =>
      /\ other \in Keys
      /\ other \notin DOMAIN pendingMap /\ other \notin DOMAIN tradeMap /\ other \notin dropped
      /\ meta[other] = None /\ \A k \in Keys : meta[k] # other
  BY <1>1, FreeIsFree
<1>6. /\ DOMAIN pendingMap' = DOMAIN pendingMap \cup {key} /\ pendingMap'[key] = Fresh
      /\ \A k \in DOMAIN pendingMap : pendingMap'[k] = pendingMap[k]
  BY <1>1, <1>4 DEF With
<1>7. \A k \in Keys : meta'[k] = IF k = key THEN other ELSE meta[k] BY <1>1 DEF Types
<1>8. \A k \in Keys : books'[k] = IF k = key \/ k = other THEN "placed" ELSE books[k]
  BY <1>1 DEF Held
<1>9. OrdersKnown' BY <1>1, <1>2, <1>3, <1>4, <1>6 DEF Followed, OrdersKnown
<1>10. TradesKnown' BY <1>1 DEF Followed, TradesKnown
<1>11. KeysApart'
  <2>1. \A k \in DOMAIN tradeMap' : k \notin DOMAIN pendingMap' /\ k \notin dropped'
    BY <1>1, <1>4, <1>6 DEF Followed, KeysApart
  <2>2. \A k \in DOMAIN pendingMap' : k \notin dropped' BY <1>1, <1>4, <1>6 DEF Followed, KeysApart
  <2>3. ASSUME NEW k \in Keys, meta'[k] # None
        PROVE  /\ k \in DOMAIN pendingMap'
               /\ meta'[k] \notin DOMAIN tradeMap' /\ meta'[k] \notin DOMAIN pendingMap'
               /\ meta'[k] \notin dropped'
    BY <1>1, <1>4, <1>5, <1>6, <1>7, <2>3 DEF Followed, KeysApart
  <2>4. \A k, j \in Keys : meta'[k] # None /\ meta'[k] = meta'[j] => k = j
    BY <1>5, <1>7 DEF Followed, KeysApart
  <2> QED BY <2>1, <2>2, <2>3, <2>4 DEF KeysApart
<1>12. BooksHeld'
  <2>1. \A k \in Keys : meta[k] # None => meta[k] \in Keys /\ meta[k] # key /\ meta[k] # other
    BY <1>4, <1>5 DEF Types
  <2>2. ASSUME NEW k \in Keys
        PROVE  /\ k \in DOMAIN tradeMap' => books'[k] \in {"filled", "leaving"}
               /\ k \in DOMAIN pendingMap' \/ k \in dropped' => books'[k] \in {"placed", "leaving"}
               /\ books'[k] = "filled" => k \in DOMAIN tradeMap'
    <3>1. CASE k = key BY <1>1, <1>4, <1>6, <1>8, <3>1
    <3>2. CASE k = other BY <1>1, <1>5, <1>6, <1>8, <3>2, BacktestConstants
    <3>3. CASE k # key /\ k # other
      <4>1. /\ books'[k] = books[k] /\ (k \in DOMAIN pendingMap' <=> k \in DOMAIN pendingMap)
            /\ (k \in DOMAIN tradeMap' <=> k \in DOMAIN tradeMap)
            /\ (k \in dropped' <=> k \in dropped)
        BY <1>1, <1>6, <1>8, <3>3
      <4> QED BY <1>1, <4>1 DEF Followed, BooksHeld
    <3> QED BY <3>1, <3>2, <3>3
  <2>3. ASSUME NEW k \in Keys, meta'[k] # None
        PROVE  books'[k] = "placed" /\ books'[meta'[k]] = "placed"
    BY <1>1, <1>5, <1>7, <1>8, <2>1, <2>3 DEF Followed, BooksHeld
  <2>4. ASSUME NEW k \in Keys, books'[k] = "placed"
        PROVE  k \in DOMAIN pendingMap' \/ k \in dropped' \/ \E j \in Keys : meta'[j] = k
    <3>1. CASE k = key BY <1>6, <3>1
    <3>2. CASE k = other BY <1>7, <3>2
    <3>3. CASE k # key /\ k # other
      <4>1. books[k] = "placed" BY <1>8, <2>4, <3>3
      <4>2. k \in DOMAIN pendingMap \/ k \in dropped \/ \E j \in Keys : meta[j] = k
        BY <1>1, <4>1 DEF Followed, BooksHeld
      <4>3. ASSUME NEW j \in Keys, meta[j] = k PROVE meta'[j] = k
        <5>1. j # key BY <1>4, <4>3, BacktestConstants
        <5> QED BY <1>7, <4>3, <5>1
      <4> QED BY <1>1, <1>6, <4>2, <4>3
    <3> QED BY <3>1, <3>2, <3>3
  <2> QED BY <1>1, <2>2, <2>3, <2>4 DEF BooksHeld
<1> QED BY <1>9, <1>10, <1>11, <1>12 DEF Followed

LEMMA PlaceMarketFollowed ==
  ASSUME Types, setup.stateful, Followed, NEW key \in Keys, NEW stopped \in BOOLEAN,
         NEW f \in Frictions, PlaceMarket(key, stopped, f)
  PROVE  Followed'
<1>1. /\ pc = "drain" /\ books[key] = "free"
      /\ tradeMap' = With(tradeMap, key, Fresh)
      /\ books' = [books EXCEPT ![key] = "filled"]
      /\ UNCHANGED <<pc, pending, pendingMap, meta, newlyFilled, newlyClosed, dropped>>
  BY DEF PlaceMarket, Draining, MayAskFor, Reported, replayVars
<1>2. /\ Fresh \notin Used
      /\ DOMAIN trades' = DOMAIN trades \cup {Fresh} /\ trades'[Fresh].key = key
      /\ \A i \in DOMAIN trades : i # Fresh /\ trades'[i] = trades[i]
  <2>1. Side[key] \in Directions /\ PositionSize \in Nat \ {0} /\ bar.close \in Int
    BY BacktestConstants, BarType DEF Directions
  <2>2. /\ FillPrice(Side[key], f) \in Int
        /\ StopFor(Side[key], bar.close, stopped) \in Int \cup {None}
    BY <2>1, MarketPrice, StopForType
  <2>3. FillMarket(Fresh, key, Side[key], PositionSize, StopFor(Side[key], bar.close, stopped),
                   FillPrice(Side[key], f))
    BY DEF PlaceMarket
  <2> QED BY <2>1, <2>2, <2>3, Opens
<1>3. newlyFilled = {} /\ newlyClosed = {} BY <1>1 DEF Types
<1>4. /\ key \notin DOMAIN pendingMap /\ key \notin DOMAIN tradeMap /\ key \notin dropped
      /\ meta[key] = None /\ \A k \in Keys : meta[k] # key
  BY <1>1, FreeIsFree
<1>5. /\ DOMAIN tradeMap' = DOMAIN tradeMap \cup {key} /\ tradeMap'[key] = Fresh
      /\ \A k \in DOMAIN tradeMap : tradeMap'[k] = tradeMap[k] /\ tradeMap[k] # Fresh
  BY <1>1, <1>2, <1>4 DEF With, Used, Values
<1>6. OrdersKnown' BY <1>1, <1>3 DEF Followed, OrdersKnown
<1>7. TradesKnown'
  <2>1. ASSUME NEW i \in DOMAIN trades' \ newlyFilled'
        PROVE  trades'[i].key \in DOMAIN tradeMap' /\ tradeMap'[trades'[i].key] = i
    BY <1>1, <1>2, <1>5 DEF Followed, TradesKnown
  <2>2. ASSUME NEW k \in DOMAIN tradeMap'
        PROVE  IF tradeMap'[k] \in DOMAIN trades'
               THEN tradeMap'[k] \notin newlyFilled' /\ trades'[tradeMap'[k]].key = k
               ELSE \E c \in newlyClosed' : c.id = tradeMap'[k]
    BY <1>1, <1>2, <1>3, <1>5 DEF Followed, TradesKnown
  <2>3. \A k, j \in DOMAIN tradeMap' : tradeMap'[k] = tradeMap'[j] => k = j
    BY <1>5 DEF Followed, TradesKnown
  <2> QED BY <1>1, <1>3, <2>1, <2>2, <2>3 DEF TradesKnown
<1>8. KeysApart' BY <1>1, <1>4, <1>5 DEF Followed, KeysApart
<1>9. BooksHeld'
  <2>1. \A k \in Keys : books'[k] = IF k = key THEN "filled" ELSE books[k] BY <1>1 DEF Types
  <2>2. \A k \in Keys : meta[k] # None => meta[k] \in Keys /\ meta[k] # key /\ k # key
    BY <1>4 DEF Types
  <2> QED BY <1>1, <1>4, <1>5, <2>1, <2>2 DEF Followed, BooksHeld
<1> QED BY <1>6, <1>7, <1>8, <1>9 DEF Followed

LEMMA BeginCloseAllFollowed ==
  ASSUME Types, Followed, BeginCloseAll
  PROVE  Followed'
<1>1. /\ pc = "drain" /\ pc' = "closing"
      /\ DOMAIN pending' = {} /\ DOMAIN pendingMap' = {} /\ meta' = [k \in Keys |-> None]
      /\ UNCHANGED <<trades, tradeMap, newlyFilled, newlyClosed, books, dropped>>
  BY DEF BeginCloseAll, Draining, stepVars
<1>2. newlyFilled = {} BY <1>1 DEF Types
<1>3. OrdersKnown' /\ TradesKnown' BY <1>1, <1>2 DEF Followed, OrdersKnown, TradesKnown
<1>4. KeysApart' /\ BooksHeld' BY <1>1 DEF Followed, KeysApart, BooksHeld
<1> QED BY <1>3, <1>4 DEF Followed

LEMMA CloseOneFollowed ==
  ASSUME Types, setup.stateful, Followed, NEW id \in DOMAIN trades, NEW f \in Frictions,
         CloseOne(id, f)
  PROVE  /\ KeysOf(id) # {}
         /\ Followed'
<1>1. pc = "closing" /\ newlyFilled = {} /\ newlyClosed = {} BY DEF CloseOne, Types
<1> DEFINE key == trades[id].key
<1>2. key \in DOMAIN tradeMap /\ tradeMap[key] = id BY <1>1 DEF Followed, TradesKnown
<1>3. KeysOf(id) = {key} BY <1>2 DEF Followed, TradesKnown, KeysOf
<1> HIDE DEF key
<1>4. /\ tradeMap' = Without(tradeMap, key) /\ dropped' = dropped \ {key}
      /\ books' = [books EXCEPT ![key] = "free"]
      /\ UNCHANGED <<pc, pending, pendingMap, meta, newlyFilled, newlyClosed>>
  <2>1. ReportClosed(id, Pnl(trades[id], FillPrice(Opposite(trades[id].side), f))) BY DEF CloseOne
  <2>2. (CHOOSE k \in KeysOf(id) : TRUE) = key BY <1>3
  <2>3. /\ tradeMap' = Without(tradeMap, key)
        /\ books' = [books EXCEPT ![key] = "free"] /\ dropped' = dropped \ {key}
    BY <1>3, <2>1, <2>2 DEF ReportClosed, Reported
  <2> QED BY <2>3 DEF CloseOne, replayVars, stepVars
<1>5. DOMAIN trades' = DOMAIN trades \ {id} /\ \A i \in DOMAIN trades' : trades'[i] = trades[i]
  BY DEF CloseOne, CloseAtMarket, CloseTrade, Without
<1>6. /\ DOMAIN tradeMap' = DOMAIN tradeMap \ {key}
      /\ \A k \in DOMAIN tradeMap' : tradeMap'[k] = tradeMap[k]
  BY <1>4 DEF Without
<1>7. OrdersKnown' BY <1>1, <1>4 DEF Followed, OrdersKnown
<1>8. TradesKnown' BY <1>1, <1>2, <1>4, <1>5, <1>6 DEF Followed, TradesKnown
<1>9. KeysApart' BY <1>4, <1>6 DEF Followed, KeysApart
<1>10. BooksHeld'
  <2>1. \A k \in Keys : books'[k] = "leaving" => books[k] = "leaving" BY <1>4 DEF Types
  <2> QED BY <1>1, <1>4, <2>1 DEF Followed, BooksHeld
<1> QED BY <1>3, <1>7, <1>8, <1>9, <1>10 DEF Followed

LEMMA EndCloseAllFollowed ==
  ASSUME Types, Followed, EndCloseAll
  PROVE  Followed'
<1>1. /\ pc = "closing" /\ pc' = "drain" /\ DOMAIN trades = {} /\ trades' = trades
      /\ DOMAIN tradeMap' = {} /\ books' = [k \in Keys |-> "free"] /\ dropped' = {}
      /\ UNCHANGED <<pending, pendingMap, meta, newlyFilled, newlyClosed>>
  BY DEF EndCloseAll
<1>2. newlyFilled = {} /\ newlyClosed = {} BY <1>1 DEF Types
<1>3. DOMAIN pending = {} /\ DOMAIN pendingMap = {} /\ \A k \in Keys : meta[k] = None
  BY <1>1 DEF Followed, BooksHeld
<1>4. OrdersKnown' /\ TradesKnown' BY <1>1, <1>2, <1>3 DEF OrdersKnown, TradesKnown
<1>5. KeysApart' /\ BooksHeld' BY <1>1, <1>3 DEF KeysApart, BooksHeld
<1> QED BY <1>4, <1>5 DEF Followed

\* A signal past the cap, and one that is not there.
LEMMA DropSignalFollowed ==
  ASSUME Types, setup.stateful, Followed, NEW key \in Keys, NEW other \in Keys \cup {None},
         DropSignal(key, other)
  PROVE  Followed'
<1>1. /\ pc = "drain" /\ pc' = "trim"
      /\ UNCHANGED <<pending, trades, pendingMap, tradeMap, meta, newlyFilled, newlyClosed>>
  BY DEF DropSignal, CapReached, runnerVars, stepVars
<1>2. CASE UNCHANGED <<books, dropped>> BY <1>1, <1>2, PlaceMoves
<1>3. CASE /\ MayAskFor(key) /\ (other # None => MayAskFor(other) /\ Side[other] # Side[key])
           /\ books' = Held({key, other}) /\ dropped' = dropped \cup ({key, other} \ {None})
  <2>1. /\ key \notin DOMAIN pendingMap /\ key \notin DOMAIN tradeMap /\ key \notin dropped
        /\ meta[key] = None /\ \A k \in Keys : meta[k] # key
    BY <1>1, <1>3, FreeIsFree DEF MayAskFor
  <2>2. other # None =>
        /\ other \in Keys
        /\ other \notin DOMAIN pendingMap /\ other \notin DOMAIN tradeMap /\ other \notin dropped
        /\ meta[other] = None /\ \A k \in Keys : meta[k] # other
    BY <1>1, <1>3, FreeIsFree DEF MayAskFor
  <2>3. \A k \in Keys : books'[k] = IF k = key \/ k = other THEN "placed" ELSE books[k]
    BY <1>3 DEF Held
  <2>4. \A k \in Keys : k \in dropped' <=> (k \in dropped \/ k = key \/ k = other)
    BY <1>3, BacktestConstants
  <2>5. OrdersKnown' /\ TradesKnown' BY <1>1 DEF Followed, OrdersKnown, TradesKnown
  <2>6. KeysApart'
    <3>1. DOMAIN tradeMap \subseteq Keys /\ DOMAIN pendingMap \subseteq Keys BY DEF Types
    <3>2. \A k \in Keys : meta[k] # None => meta[k] \in Keys /\ meta[k] # key /\ meta[k] # other
      BY <2>1, <2>2 DEF Types
    <3>3. \A k \in DOMAIN tradeMap : k \notin DOMAIN pendingMap /\ k \notin dropped'
      BY <2>1, <2>2, <2>4, <3>1, BacktestConstants DEF Followed, KeysApart
    <3>4. \A k \in DOMAIN pendingMap : k \notin dropped'
      BY <2>1, <2>2, <2>4, <3>1, BacktestConstants DEF Followed, KeysApart
    <3>5. \A k \in Keys : meta[k] # None =>
            /\ k \in DOMAIN pendingMap
            /\ meta[k] \notin DOMAIN tradeMap /\ meta[k] \notin DOMAIN pendingMap
            /\ meta[k] \notin dropped'
      BY <2>4, <3>2 DEF Followed, KeysApart
    <3> QED BY <1>1, <3>3, <3>4, <3>5 DEF Followed, KeysApart
  <2>7. BooksHeld'
    <3>1. \A k \in Keys : meta[k] # None => meta[k] \in Keys BY DEF Types
    <3>2. \A k \in Keys : books'[k] = "leaving" => books[k] = "leaving" BY <2>3
    <3>3. ASSUME NEW k \in Keys
          PROVE  /\ k \in DOMAIN tradeMap => books'[k] \in {"filled", "leaving"}
                 /\ k \in DOMAIN pendingMap \/ k \in dropped' => books'[k] \in {"placed", "leaving"}
                 /\ books'[k] = "filled" => k \in DOMAIN tradeMap
                 /\ books'[k] = "placed" =>
                      k \in DOMAIN pendingMap \/ k \in dropped' \/ \E j \in Keys : meta[j] = k
      <4>1. CASE k = key \/ k = other BY <2>1, <2>2, <2>3, <2>4, <4>1, BacktestConstants
      <4>2. CASE k # key /\ k # other
        <5>1. books'[k] = books[k] /\ (k \in dropped' <=> k \in dropped) BY <2>3, <2>4, <4>2
        <5> QED BY <1>1, <5>1 DEF Followed, BooksHeld
      <4> QED BY <4>1, <4>2
    <3>4. \A k \in Keys : meta[k] # None => books'[k] = "placed" /\ books'[meta[k]] = "placed"
      BY <1>1, <2>3, <3>1 DEF Followed, BooksHeld
    <3> QED BY <1>1, <3>2, <3>3, <3>4 DEF Followed, BooksHeld
  <2> QED BY <2>5, <2>6, <2>7 DEF Followed
<1> QED BY <1>2, <1>3 DEF DropSignal

LEMMA RetireFollowed ==
  ASSUME Types, setup.stateful, Followed, NEW key \in Keys, Retire(key)
  PROVE  Followed'
<1>1. /\ pc = "drain" /\ books[key] \in {"placed", "filled"} /\ meta[key] = None
      /\ \A k \in Keys : meta[k] # key
      /\ books' = [books EXCEPT ![key] = "leaving"]
      /\ UNCHANGED <<pc, pending, trades, pendingMap, tradeMap, meta, newlyFilled, newlyClosed,
                     dropped>>
  BY DEF Retire, Reported, Values, Types, replayVars, runnerVars, stepVars
<1>2. \A k \in Keys : books'[k] = IF k = key THEN "leaving" ELSE books[k] BY <1>1 DEF Types
<1>3. OrdersKnown' /\ TradesKnown' BY <1>1 DEF Followed, OrdersKnown, TradesKnown
<1>4. KeysApart' BY <1>1 DEF Followed, KeysApart
<1>5. BooksHeld'
  <2>1. \A k \in Keys : meta[k] # None => meta[k] \in Keys BY DEF Types
  <2> QED BY <1>1, <1>2, <2>1 DEF Followed, BooksHeld
<1> QED BY <1>3, <1>4, <1>5 DEF Followed

\* A trim, of an order and of a trade.
LEMMA CancelFollowed ==
  ASSUME Types, OrdersKnown, newlyFilled = {}, NEW key \in Keys, CancelOrder(key),
         newlyFilled' = {}
  PROVE  /\ OrdersKnown' /\ DOMAIN pendingMap' = DOMAIN pendingMap \ {key}
<1>1. CASE key \in DOMAIN pendingMap
  <2>1. /\ DOMAIN pendingMap' = DOMAIN pendingMap \ {key}
        /\ \A k \in DOMAIN pendingMap' : pendingMap'[k] = pendingMap[k]
        /\ DOMAIN pending' = DOMAIN pending \ {pendingMap[key]}
        /\ \A i \in DOMAIN pending' : pending'[i] = pending[i]
    BY <1>1 DEF CancelOrder, Without
  <2>2. pendingMap[key] \in DOMAIN pending /\ pending[pendingMap[key]].key = key
    BY <1>1 DEF OrdersKnown
  <2>3. \A i \in DOMAIN pending' :
            pending'[i].key \in DOMAIN pendingMap' /\ pendingMap'[pending'[i].key] = i
    BY <2>1, <2>2 DEF OrdersKnown
  <2>4. \A k \in DOMAIN pendingMap' :
            pendingMap'[k] \in DOMAIN pending' /\ pending'[pendingMap'[k]].key = k
    BY <2>1, <2>2 DEF OrdersKnown
  <2> QED BY <2>1, <2>3, <2>4 DEF OrdersKnown
<1>2. CASE key \notin DOMAIN pendingMap BY <1>2 DEF CancelOrder, OrdersKnown
<1> QED BY <1>1, <1>2

\* What is left of the books when a key on its way out is gone.
LEMMA KeyLeaves ==
  ASSUME Types, KeysApart, BooksHeld, pc = "trim", NEW key \in Keys, books[key] = "leaving",
         DOMAIN pendingMap' = DOMAIN pendingMap \ {key}, DOMAIN tradeMap' = DOMAIN tradeMap \ {key},
         books' = Reported(key, "free"), dropped' = dropped \ {key}, pc' = pc, meta' = meta
  PROVE  KeysApart' /\ BooksHeld'
<1>1. \A k \in Keys : books'[k] = IF k = key THEN "free" ELSE books[k] BY DEF Types, Reported
<1>2. \A k \in Keys : meta[k] # None => meta[k] \in Keys /\ meta[k] # key /\ k # key
  BY DEF Types, BooksHeld
<1>3. KeysApart' BY <1>2 DEF KeysApart
<1>4. \A k \in Keys : meta[k] # None => books'[k] = "placed" /\ books'[meta[k]] = "placed"
  BY <1>1, <1>2 DEF BooksHeld
<1>5. ASSUME NEW k \in Keys, k # key
      PROVE  /\ k \in DOMAIN tradeMap' => books'[k] \in {"filled", "leaving"}
             /\ k \in DOMAIN pendingMap' \/ k \in dropped' => books'[k] \in {"placed", "leaving"}
             /\ books'[k] = "filled" => k \in DOMAIN tradeMap'
             /\ books'[k] = "placed" =>
                  k \in DOMAIN pendingMap' \/ k \in dropped' \/ \E j \in Keys : meta[j] = k
  BY <1>1, <1>5 DEF BooksHeld
<1> QED BY <1>1, <1>3, <1>4, <1>5 DEF BooksHeld

LEMMA TrimOrderFollowed ==
  ASSUME Types, setup.stateful, Followed, NEW key \in Keys, TrimOrder(key)
  PROVE  Followed'
<1>1. /\ pc = "trim" /\ books[key] = "leaving" /\ key \notin DOMAIN tradeMap
      /\ CancelOrder(key) /\ books' = Reported(key, "free") /\ dropped' = dropped \ {key}
      /\ UNCHANGED <<pc, trades, tradeMap, meta, newlyFilled, newlyClosed>>
  BY DEF TrimOrder, replayVars, stepVars
<1>2. newlyFilled = {} BY <1>1 DEF Types
<1>3. OrdersKnown' /\ DOMAIN pendingMap' = DOMAIN pendingMap \ {key}
  BY <1>1, <1>2, CancelFollowed DEF Followed
<1>4. TradesKnown' BY <1>1 DEF Followed, TradesKnown
<1>5. KeysApart' /\ BooksHeld' BY <1>1, <1>3, KeyLeaves DEF Followed
<1> QED BY <1>3, <1>4, <1>5 DEF Followed

LEMMA TrimTradeFollowed ==
  ASSUME Types, setup.stateful, Followed, NEW key \in Keys, NEW f \in Frictions, TrimTrade(key, f)
  PROVE  /\ tradeMap[key] \in DOMAIN trades
         /\ Followed'
<1> DEFINE id == tradeMap[key]
<1>1. /\ pc = "trim" /\ books[key] = "leaving" /\ key \in DOMAIN tradeMap
      /\ CloseAtMarket(id, f) /\ tradeMap' = Without(tradeMap, key)
      /\ CancelOrder(key) /\ books' = Reported(key, "free") /\ dropped' = dropped \ {key}
      /\ UNCHANGED <<pc, meta, newlyFilled, newlyClosed>>
  BY DEF TrimTrade, replayVars, stepVars
<1>2. newlyFilled = {} /\ newlyClosed = {} BY <1>1 DEF Types
<1>3. id \in DOMAIN trades /\ trades[id].key = key BY <1>1, <1>2 DEF Followed, TradesKnown
<1> HIDE DEF id
<1>4. OrdersKnown' /\ DOMAIN pendingMap' = DOMAIN pendingMap \ {key}
  BY <1>1, <1>2, CancelFollowed DEF Followed
<1>5. /\ DOMAIN trades' = DOMAIN trades \ {id} /\ \A i \in DOMAIN trades' : trades'[i] = trades[i]
      /\ DOMAIN tradeMap' = DOMAIN tradeMap \ {key}
      /\ \A k \in DOMAIN tradeMap' : tradeMap'[k] = tradeMap[k]
  BY <1>1 DEF CloseAtMarket, CloseTrade, Without
<1>6. TradesKnown'
  <2>1. \A i \in DOMAIN trades' :
            trades'[i].key \in DOMAIN tradeMap' /\ tradeMap'[trades'[i].key] = i
    BY <1>2, <1>5 DEF Followed, TradesKnown, id
  <2>2. \A k \in DOMAIN tradeMap' : tradeMap'[k] \in DOMAIN trades' /\ trades'[tradeMap'[k]].key = k
    BY <1>1, <1>2, <1>3, <1>5 DEF Followed, TradesKnown, id
  <2> QED BY <1>1, <1>2, <1>5, <2>1, <2>2 DEF Followed, TradesKnown
<1>7. KeysApart' /\ BooksHeld' BY <1>1, <1>4, <1>5, KeyLeaves DEF Followed
<1> QED BY <1>3, <1>4, <1>6, <1>7 DEF Followed, id

LEMMA InitFollows == Init => Types /\ Follow
<1> SUFFICES ASSUME Init PROVE Types /\ Follow OBVIOUS
<1>1. /\ DOMAIN pending = {} /\ DOMAIN trades = {} /\ DOMAIN pendingMap = {} /\ DOMAIN tradeMap = {}
      /\ newlyFilled = {} /\ newlyClosed = {} /\ dropped = {} /\ pc = "next"
      /\ \A k \in Keys : meta[k] = None /\ books[k] = "free"
  BY DEF Init
<1>2. Used = {} BY <1>1 DEF Used, Values
<1>3. IsFiniteSet(Used) /\ Used \subseteq Nat BY <1>2, FS_EmptySet
<1>4. setup \in [stateful : BOOLEAN, gridMode : BOOLEAN] BY BacktestConstants DEF Init
<1>5. /\ pending \in [DOMAIN pending -> OrderType] /\ trades \in [DOMAIN trades -> TradeType]
      /\ pendingMap \in [DOMAIN pendingMap -> Nat] /\ tradeMap \in [DOMAIN tradeMap -> Nat]
  BY <1>1 DEF Init
<1>6. /\ capital \in Int /\ fees \in Int /\ banked \in Int
      /\ position \in PositionType /\ saved \in [qty : Int, pnl : Int] /\ bar \in Bars
      /\ meta \in [Keys -> Keys \cup {None}]
      /\ books \in [Keys -> {"free", "placed", "filled", "leaving"}]
  BY BacktestConstants DEF Init, NoPosition, PositionType
<1>7. Types BY <1>1, <1>3, <1>4, <1>5, <1>6 DEF Types, GridPlaces, SimplePlaces
<1>8. Followed BY <1>1 DEF Followed, OrdersKnown, TradesKnown, KeysApart, BooksHeld
<1> QED BY <1>7, <1>8 DEF Follow

-----------------------------------------------------------------------------
(***************************************************************************)
(* The whole invariant is kept by every step.                              *)
(***************************************************************************)
LEMMA SetupStays ==
  ASSUME [Next]_vars
  PROVE  /\ setup' = setup
         /\ pc \in {"end", "done"} => pc' \in {"end", "done"}
BY DEF Next, GridStep, SimpleStep, NextBar, Record, Exhausted, Flatten, EndFlatten, Hold, Trade,
       StopOut, StopsDone, Enter, EntriesDone, HandleFill, HandlePairedFill, FillsDone,
       HandleClosure, ClosuresDone, PlaceResting, PlaceMarket, BeginCloseAll, CloseOne, EndCloseAll,
       DropSignal, NoSignal, Retire, TrimOrder, TrimTrade, TrimsDone, Draining, CapReached,
       vars, replayVars

LEMMA StepKeepsFollow ==
  ASSUME Types, Follow, [Next]_vars
  PROVE  Follow'
<1> SUFFICES ASSUME setup.stateful, pc' \notin {"end", "done"} PROVE Followed'
  BY SetupStays DEF Follow
<1>1. pc # "signal" BY DEF Types, GridPlaces
<1>2. pc \notin {"end", "done"} BY SetupStays
<1>3. Followed BY <1>2 DEF Follow
<1>4. CASE UNCHANGED vars
  BY <1>3, <1>4 DEF vars, replayVars, runnerVars, stepVars, bookVars, Followed, OrdersKnown,
                    TradesKnown, KeysApart, BooksHeld
<1>5. CASE \/ NextBar \/ Record \/ StopsDone \/ EntriesDone \/ FillsDone \/ ClosuresDone \/ NoSignal
           \/ TrimsDone
  <2>1. /\ pc \in {"next", "record", "stops", "entries", "fills", "closures", "drain", "trim"}
        /\ pc' # "closing"
        /\ pc' \in {"drain", "trim"} \/ pc \notin {"drain", "trim"}
             \/ (pc = "trim" /\ \A k \in Keys : books[k] # "leaving")
        /\ UNCHANGED <<pending, trades, pendingMap, tradeMap, meta, newlyFilled, newlyClosed,
                       books, dropped>>
    BY <1>5 DEF NextBar, Record, StopsDone, EntriesDone, FillsDone, ClosuresDone, NoSignal,
       TrimsDone,
                runnerVars, stepVars, bookVars
  <2>2. \A k \in Keys : books[k] = "leaving" => pc \in {"drain", "trim"}
    BY <1>3, <2>1 DEF Followed, BooksHeld
  <2>3. \A k \in Keys : books[k] = "leaving" => pc' \in {"drain", "trim"} BY <2>1, <2>2
  <2> QED BY <1>3, <2>1, <2>3, PlaceMoves
<1>6. CASE \/ \E id \in DOMAIN trades, f \in Frictions : StopOut(id, f)
           \/ \E id \in DOMAIN pending, f \in Frictions : Enter(id, f)
           \/ \E id \in newlyFilled : HandleFill(id)
           \/ \E id \in newlyFilled, f \in Frictions : HandlePairedFill(id, f)
           \/ \E closed \in newlyClosed : HandleClosure(closed)
  BY <1>3, <1>6, StopOutFollowed, EnterFollowed, HandleFillFollowed, HandlePairedFillFollowed,
     HandleClosureFollowed
<1>7. CASE \/ \E key \in Keys, price \in Prices, other \in Keys \cup {None} :
                PlaceResting(key, price, other)
           \/ \E key \in Keys, stopped \in BOOLEAN, f \in Frictions : PlaceMarket(key, stopped, f)
           \/ \E key \in Keys, other \in Keys \cup {None} : DropSignal(key, other)
           \/ \E key \in Keys : Retire(key)
  BY <1>3, <1>7, PlaceRestingFollowed, PlaceMarketFollowed, DropSignalFollowed, RetireFollowed
<1>8. CASE \/ BeginCloseAll \/ EndCloseAll
           \/ \E id \in DOMAIN trades, f \in Frictions : CloseOne(id, f)
           \/ \E key \in Keys : TrimOrder(key)
           \/ \E key \in Keys, f \in Frictions : TrimTrade(key, f)
  BY <1>3, <1>8, BeginCloseAllFollowed, CloseOneFollowed, EndCloseAllFollowed, TrimOrderFollowed,
     TrimTradeFollowed
<1>9. CASE \/ Exhausted \/ SimpleStep \/ EndFlatten
           \/ \E id \in DOMAIN trades, f \in Frictions : Flatten(id, f)
  BY <1>1, <1>2, <1>9 DEF Exhausted, SimpleStep, Hold, Trade, Flatten, EndFlatten
<1> QED BY <1>4, <1>5, <1>6, <1>7, <1>8, <1>9 DEF Next, GridStep

LEMMA StepKeepsTypes ==
  ASSUME Types, Follow, [Next]_vars
  PROVE  Types'
<1>1. CASE UNCHANGED vars BY <1>1, SameStepTypes
<1>2. CASE \/ \E id \in DOMAIN trades, f \in Frictions : StopOut(id, f)
           \/ \E id \in DOMAIN pending, f \in Frictions : Enter(id, f)
           \/ StopsDone \/ EntriesDone
  BY <1>2, BrokerKeepsTypes
<1>3. CASE \/ \E id \in newlyFilled : HandleFill(id)
           \/ \E id \in newlyFilled, f \in Frictions : HandlePairedFill(id, f)
           \/ \E closed \in newlyClosed : HandleClosure(closed)
           \/ FillsDone \/ ClosuresDone
  BY <1>3, HandlingKeepsTypes
<1>4. CASE \/ \E key \in Keys, price \in Prices, other \in Keys \cup {None} :
                PlaceResting(key, price, other)
           \/ \E key \in Keys, stopped \in BOOLEAN, f \in Frictions : PlaceMarket(key, stopped, f)
           \/ \E key \in Keys, other \in Keys \cup {None} : DropSignal(key, other)
           \/ \E key \in Keys : Retire(key)
           \/ NoSignal
  BY <1>4, SignalsKeepTypes
<1>5. CASE \/ BeginCloseAll \/ EndCloseAll
           \/ \E id \in DOMAIN trades, f \in Frictions : CloseOne(id, f)
  BY <1>5, ClosingKeepsTypes
<1>6. CASE \/ \E key \in Keys : TrimOrder(key)
           \/ \E key \in Keys, f \in Frictions : TrimTrade(key, f)
           \/ TrimsDone
  <2>1. ASSUME NEW key \in Keys, NEW f \in Frictions, TrimTrade(key, f)
        PROVE  tradeMap[key] \in DOMAIN trades
    <3>1. setup.stateful /\ Followed
      BY <2>1 DEF TrimTrade, Types, SimplePlaces, Follow
    <3> QED BY <2>1, <3>1, TrimTradeFollowed
  <2> QED BY <1>6, <2>1, TrimsKeepTypes
<1>7. CASE \/ NextBar \/ Record \/ Exhausted \/ EndFlatten
           \/ \E id \in DOMAIN trades, f \in Frictions : Flatten(id, f)
  BY <1>7, ReplayKeepsTypes
<1>8. CASE SimpleStep BY <1>8, SimpleKeepsTypes
<1> QED BY <1>1, <1>2, <1>3, <1>4, <1>5, <1>6, <1>7, <1>8 DEF Next, GridStep

\* At the end of a step nothing is on its way: the books the strategy keeps, the maps and the
\* broker say the same of each key.
LEMMA FollowedAtRecord ==
  ASSUME Types, Follow
  PROVE  BooksFollow
<1> SUFFICES ASSUME pc = "record", setup.stateful
             PROVE  /\ \A id \in DOMAIN pending : pendingMap[pending[id].key] = id
                    /\ \A id \in DOMAIN trades : tradeMap[trades[id].key] = id
                    /\ Values(pendingMap) = DOMAIN pending /\ Values(tradeMap) = DOMAIN trades
                    /\ {k \in Keys : books[k] = "filled"} = DOMAIN tradeMap
                    /\ {k \in Keys : books[k] = "placed"}
                         = DOMAIN pendingMap \cup dropped \cup (Values(meta) \ {None})
  BY DEF BooksFollow
<1>1. Followed /\ newlyFilled = {} /\ newlyClosed = {} BY DEF Follow, Types
<1>2. \A k \in Keys : books[k] # "leaving" BY <1>1 DEF Followed, BooksHeld
<1>3. /\ \A id \in DOMAIN pending : pendingMap[pending[id].key] = id
      /\ Values(pendingMap) = DOMAIN pending
  <2>1. \A id \in DOMAIN pending :
          pending[id].key \in DOMAIN pendingMap /\ pendingMap[pending[id].key] = id
    BY <1>1 DEF Followed, OrdersKnown
  <2>2. \A k \in DOMAIN pendingMap : pendingMap[k] \in DOMAIN pending
    BY <1>1 DEF Followed, OrdersKnown
  <2>3. ASSUME NEW i PROVE i \in Values(pendingMap) <=> i \in DOMAIN pending
    BY <2>1, <2>2 DEF Values
  <2> QED BY <2>1, <2>3
<1>4. \A id \in DOMAIN trades : trades[id].key \in DOMAIN tradeMap /\ tradeMap[trades[id].key] = id
  BY <1>1 DEF Followed, TradesKnown
<1>5. Values(tradeMap) = DOMAIN trades
  <2>1. \A k \in DOMAIN tradeMap : tradeMap[k] \in DOMAIN trades
    BY <1>1 DEF Followed, TradesKnown
  <2>2. ASSUME NEW i PROVE i \in Values(tradeMap) <=> i \in DOMAIN trades
    BY <1>4, <2>1 DEF Values
  <2> QED BY <2>2
<1>6. {k \in Keys : books[k] = "filled"} = DOMAIN tradeMap
  <2>1. DOMAIN tradeMap \subseteq Keys BY DEF Types
  <2>2. \A k \in Keys : books[k] = "filled" <=> k \in DOMAIN tradeMap
    BY <1>1, <1>2 DEF Followed, BooksHeld
  <2> QED BY <2>1, <2>2
<1>7. {k \in Keys : books[k] = "placed"}
          = DOMAIN pendingMap \cup dropped \cup (Values(meta) \ {None})
  <2>1. /\ DOMAIN meta = Keys /\ DOMAIN pendingMap \subseteq Keys /\ dropped \subseteq Keys
        /\ None \notin Keys
    BY BacktestConstants DEF Types
  <2>2. \A k \in Keys : meta[k] # None => meta[k] \in Keys BY DEF Types
  <2>3. ASSUME NEW k \in Keys
        PROVE  books[k] = "placed"
                   <=> k \in DOMAIN pendingMap \/ k \in dropped \/ \E j \in Keys : meta[j] = k
    <3>1. ASSUME NEW j \in Keys, meta[j] = k PROVE books[k] = "placed"
      BY <1>1, <2>1, <3>1 DEF Followed, BooksHeld
    <3> QED BY <1>1, <1>2, <3>1 DEF Followed, BooksHeld
  <2>4. \A k : k \in Values(meta) \ {None} <=> k # None /\ \E j \in Keys : meta[j] = k
    BY <2>1 DEF Values
  <2>5. ASSUME NEW k
        PROVE  k \in {i \in Keys : books[i] = "placed"}
                 <=> k \in DOMAIN pendingMap \cup dropped \cup (Values(meta) \ {None})
    BY <2>1, <2>2, <2>3, <2>4
  <2> QED BY <2>5
<1> QED BY <1>3, <1>4, <1>5, <1>6, <1>7

\* At the end of every grid step the strategy's books, the runner's maps and the broker agree on
\* each key, however many keys, trades and resting orders there are, at whatever prices.
THEOREM BooksFollowCorrect == Spec => []BooksFollow
<1>1. Types /\ Follow /\ [Next]_vars => (Types /\ Follow)' BY StepKeepsTypes, StepKeepsFollow
<1>2. Types /\ Follow => BooksFollow BY FollowedAtRecord
<1> QED BY <1>1, <1>2, InitFollows, PTL DEF Spec

-----------------------------------------------------------------------------
(***************************************************************************)
(* The position of a simple replay.                                        *)
(***************************************************************************)
Limited ==
  ~setup.stateful =>
    /\ position.qty < MaxPosition + PositionSize /\ -position.qty < MaxPosition + PositionSize
    /\ IF setup.gridMode THEN position.qty = 0 ELSE saved.qty = position.qty

LEMMA StepKeepsLimit ==
  ASSUME Types, Limited, [Next]_vars
  PROVE  Limited'
<1>1. setup' = setup BY SetupStays
<1> SUFFICES ASSUME ~setup.stateful PROVE Limited' BY <1>1 DEF Limited
<1>2. pc \in SimplePlaces BY DEF Types
<1>3. CASE UNCHANGED <<setup, position, saved>> BY <1>3 DEF Limited
<1>4. ASSUME NEW side \in Directions, NEW stopped \in BOOLEAN, NEW qty \in 1 .. PositionSize,
             NEW f \in Frictions, Trade(side, stopped, qty, f)
      PROVE  Limited'
  <2> DEFINE price == FillPrice(side, f)
             after == UpdatePosition(side, qty, price)
  <2>1. /\ position.qty \in Int /\ saved.qty \in Int /\ MaxPosition \in Nat \ {0}
        /\ PositionSize \in Nat \ {0}
        /\ qty \in Nat \ {0} /\ qty <= PositionSize /\ position \in PositionType
    BY BacktestConstants DEF Types, PositionType
  <2>2. price \in Int BY MarketPrice
  <2>3. /\ saved.qty < MaxPosition /\ -saved.qty < MaxPosition
        /\ saved'.qty = after.qty
        /\ position' = IF setup.gridMode THEN position ELSE after
    <3>1. /\ Approved(stopped)
          /\ FillMarket(Fresh, None, side, qty, StopFor(side, bar.close, stopped), price)
          /\ saved'.qty = after.qty
      BY <1>4 DEF Trade
    <3>2. ~AtPositionLimit BY <3>1 DEF Approved
    <3>3. ~(saved.qty >= MaxPosition) /\ ~(-saved.qty >= MaxPosition) BY <3>2 DEF AtPositionLimit
    <3> HIDE DEF price
    <3> QED BY <2>1, <3>1, <3>3 DEF FillMarket
  <2> HIDE DEF price
  <2>4. after.qty = position.qty + Sign(side) * qty BY <2>1, <2>2, UpdatePositionType
  <2>5. Sign(side) \in {1, -1} BY DEF Sign
  <2>6. after.qty = position.qty + qty \/ after.qty = position.qty - qty BY <2>1, <2>4, <2>5
  <2> HIDE DEF after
  <2>7. CASE setup.gridMode BY <1>1, <2>1, <2>3, <2>7 DEF Limited
  <2>8. CASE ~setup.gridMode
    <3>1. saved.qty = position.qty BY <2>8 DEF Limited
    <3> QED BY <1>1, <2>1, <2>3, <2>6, <2>8, <3>1 DEF Limited
  <2> QED BY <2>7, <2>8
<1>5. CASE NextBar \/ Record \/ Exhausted \/ Hold
  BY <1>3, <1>5 DEF NextBar, Record, Exhausted, Hold, moneyVars
<1>6. CASE UNCHANGED vars BY <1>3, <1>6 DEF vars, moneyVars
<1>7. CASE GridStep \/ EndFlatten \/ \E id \in DOMAIN trades, f \in Frictions : Flatten(id, f)
  BY <1>2, <1>7 DEF SimplePlaces, GridStep, Flatten, EndFlatten,
       StopOut, StopsDone, Enter, EntriesDone, HandleFill, HandlePairedFill, FillsDone,
       HandleClosure, ClosuresDone, PlaceResting, PlaceMarket, BeginCloseAll, CloseOne, EndCloseAll,
       DropSignal, NoSignal, Retire, TrimOrder, TrimTrade, TrimsDone, Draining, CapReached
<1> QED BY <1>4, <1>5, <1>6, <1>7 DEF Next, SimpleStep, Directions

\* How far the position of a simple replay may pass the limit.  RiskEngine means to "reject
\* if resulting position would exceed limit", but it looks at the position as it is, before
\* the order is sized.
OvershootStaysBelowAnOrder ==
  ~setup.stateful => position.qty < MaxPosition + PositionSize /\ -position.qty < MaxPosition + PositionSize

\* However orders are sized below the cap, flipped or filled, a position passes the limit of
\* RiskEngine.evaluate by less than one order.
THEOREM OvershootIsBounded == Spec => []OvershootStaysBelowAnOrder
<1>1. Init => Limited
  <2>1. MaxPosition \in Nat \ {0} /\ PositionSize \in Nat \ {0} BY BacktestConstants
  <2> QED BY <2>1 DEF Init, Limited, NoPosition
<1>2. Limited => OvershootStaysBelowAnOrder BY DEF Limited, OvershootStaysBelowAnOrder
<1>3. Types /\ Follow /\ Limited /\ [Next]_vars => (Types /\ Follow /\ Limited)'
  BY StepKeepsTypes, StepKeepsFollow, StepKeepsLimit
<1> QED BY <1>1, <1>2, <1>3, InitFollows, PTL DEF Spec

-----------------------------------------------------------------------------
(***************************************************************************)
(* The money, when the broker's grid mode is the runner's.                 *)
(***************************************************************************)
\* The P&L of trades whose end the runner has not handled yet.
Unhandled == SumFunction([c \in newlyClosed |-> c.pnl])

Money ==
  /\ setup.stateful <=> setup.gridMode
  /\ IsFiniteSet(newlyClosed)
  /\ IF setup.stateful
     THEN capital = InitialCapital - fees + banked + Unhandled
     ELSE capital = InitialCapital - fees + position.realized /\ banked = position.realized
  /\ setup.stateful /\ pc = "done" => DOMAIN trades = {}

LEMMA UnhandledType ==
  ASSUME Types, Money
  PROVE  Unhandled \in Int
<1> DEFINE w == [c \in newlyClosed |-> c.pnl]
<1>1. w \in [newlyClosed -> Int] BY DEF Types, ClosedType
<1> HIDE DEF w
<1>2. SumFunction(w) \in Int BY <1>1, SumIsInt DEF Money
<1> QED BY <1>2 DEF Unhandled, w

\* The capital, fees and banked P&L move together.
LEMMA MoneyMoves ==
  ASSUME Types, Money, setup.stateful, setup' = setup, newlyClosed' = newlyClosed,
         NEW gain \in Int, NEW cost \in Int,
         capital' = capital - cost + gain, fees' = fees + cost, banked' = banked + gain,
         pc' # "done"
  PROVE  Money'
<1>1. Unhandled \in Int /\ Unhandled' = Unhandled BY UnhandledType DEF Unhandled
<1>2. capital \in Int /\ fees \in Int /\ banked \in Int /\ InitialCapital \in Int
  BY BacktestConstants DEF Types
<1>3. capital = InitialCapital - fees + banked + Unhandled BY DEF Money
<1>4. capital' = InitialCapital - fees' + banked' + Unhandled' BY <1>1, <1>2, <1>3
<1> QED BY <1>4 DEF Money

LEMMA StopOutMoney ==
  ASSUME Types, Followed, Money, NEW id \in DOMAIN trades, NEW f \in Frictions, StopOut(id, f)
  PROVE  Money'
<1> DEFINE price == ApplyFriction(Opposite(trades[id].side), StopBase(trades[id]), f)
           closed == [id |-> id, pnl |-> Pnl(trades[id], price)]
           w == [c \in newlyClosed |-> c.pnl]
           v == [c \in newlyClosed' |-> c.pnl]
<1>1. /\ pc = "stops" /\ pc' = pc /\ StopTouched(trades[id]) /\ CloseTrade(id, price)
      /\ newlyClosed' = newlyClosed \cup {closed} /\ banked' = banked /\ setup' = setup
  BY DEF StopOut, replayVars, tallyVars
<1>2. setup.stateful BY <1>1 DEF Types, SimplePlaces
<1>3. price \in Int
  <2>1. trades[id] \in TradeType /\ trades[id].side \in Directions BY DEF Types, TradeType
  <2>2. Opposite(trades[id].side) \in Directions BY <2>1 DEF Opposite, Directions
  <2>3. StopBase(trades[id]) \in Int BY <1>1, <2>1, StopBaseType
  <2> QED BY <2>2, <2>3, FillPriceType
<1> HIDE DEF price
<1>4. Pnl(trades[id], price) \in Int /\ capital' = capital + Pnl(trades[id], price) /\ fees' = fees
  BY <1>1, <1>3, Closes
<1>5. closed \notin newlyClosed /\ closed.pnl = Pnl(trades[id], price) BY DEF Followed, TradesKnown
<1>6. closed.pnl \in Int BY <1>4, <1>5
<1> HIDE DEF closed
<1>7. newlyClosed' \ {closed} = newlyClosed /\ closed \in newlyClosed' /\ IsFiniteSet(newlyClosed')
  BY <1>1, <1>5, FS_AddElement DEF Money
<1>8. w \in [newlyClosed' \ {closed} -> Int] /\ v \in [newlyClosed' -> Int]
  BY <1>1, <1>6, <1>7 DEF Types, ClosedType
<1>9. v[closed] = closed.pnl /\ \A c \in newlyClosed' \ {closed} : w[c] = v[c] BY <1>7
<1>10. Unhandled = SumFunction(w) /\ Unhandled' = SumFunction(v) BY DEF Unhandled
<1> HIDE DEF w, v
<1>11. SumFunction(v) = v[closed] + SumFunction(w) BY <1>7, <1>8, <1>9, SumWithout
<1>12. Unhandled \in Int BY UnhandledType
<1>13. capital \in Int /\ fees \in Int /\ banked \in Int /\ InitialCapital \in Int
  BY BacktestConstants DEF Types
<1>14. capital = InitialCapital - fees + banked + Unhandled BY <1>2 DEF Money
<1>15. capital' = InitialCapital - fees' + banked' + Unhandled'
  BY <1>1, <1>4, <1>5, <1>6, <1>9, <1>10, <1>11, <1>12, <1>13, <1>14
<1> QED BY <1>1, <1>2, <1>7, <1>15 DEF Money

LEMMA HandleClosureMoney ==
  ASSUME Types, Followed, Money, NEW closed \in newlyClosed, HandleClosure(closed)
  PROVE  Money'
<1> DEFINE w == [c \in newlyClosed |-> c.pnl]
           v == [c \in newlyClosed' |-> c.pnl]
<1>1. /\ pc = "closures" /\ pc' = pc /\ newlyClosed' = newlyClosed \ {closed}
      /\ ReportClosed(closed.id, closed.pnl)
      /\ capital' = capital /\ fees' = fees /\ setup' = setup
  BY DEF HandleClosure, replayVars, moneyVars
<1>2. setup.stateful BY <1>1 DEF Types, SimplePlaces
<1>3. banked' = banked + closed.pnl BY <1>1, HandleClosureFollowed DEF ReportClosed, Bank
<1>4. closed.pnl \in Int BY DEF Types, ClosedType
<1>5. w \in [newlyClosed -> Int] /\ v \in [newlyClosed \ {closed} -> Int]
  BY <1>1 DEF Types, ClosedType
<1>6. w[closed] = closed.pnl /\ \A c \in newlyClosed \ {closed} : v[c] = w[c] BY <1>1
<1>7. Unhandled = SumFunction(w) /\ Unhandled' = SumFunction(v) BY DEF Unhandled
<1>8. IsFiniteSet(newlyClosed) BY DEF Money
<1> HIDE DEF w, v
<1>9. SumFunction(w) = w[closed] + SumFunction(v) BY <1>5, <1>6, <1>8, SumWithout
<1>10. SumFunction(v) \in Int
  <2>1. IsFiniteSet(newlyClosed \ {closed}) BY <1>8, FS_RemoveElement
  <2> QED BY <1>5, <2>1, SumIsInt
<1>11. capital \in Int /\ fees \in Int /\ banked \in Int /\ InitialCapital \in Int
  BY BacktestConstants DEF Types
<1>12. capital = InitialCapital - fees + banked + Unhandled BY <1>2 DEF Money
<1>13. capital' = InitialCapital - fees' + banked' + Unhandled'
  BY <1>1, <1>3, <1>4, <1>6, <1>7, <1>9, <1>10, <1>11, <1>12
<1>14. IsFiniteSet(newlyClosed') BY <1>1, <1>8, FS_RemoveElement
<1> QED BY <1>1, <1>2, <1>13, <1>14 DEF Money

\* Fills pay the commission and realize nothing; trades that end at the market are banked.
LEMMA FillsMoney ==
  ASSUME Types, Money, setup.stateful,
         \/ \E id \in DOMAIN pending, f \in Frictions : Enter(id, f)
         \/ \E id \in newlyFilled, f \in Frictions : HandlePairedFill(id, f)
         \/ \E key \in Keys, stopped \in BOOLEAN, f \in Frictions : PlaceMarket(key, stopped, f)
  PROVE  Money'
<1>1. /\ setup' = setup /\ pc' = pc /\ pc # "done" /\ newlyClosed' = newlyClosed /\ banked' = banked
      /\ fees' = fees + Commission
      /\ capital' = capital - Commission
           \/ capital' = capital - Commission + (position.realized - position.realized)
  BY DEF Enter, HandlePairedFill, PlaceMarket, FillMarket, Draining, Money, replayVars, tallyVars
<1>2. /\ capital \in Int /\ banked \in Int /\ fees \in Int /\ position.realized \in Int
      /\ Commission \in Int
  BY BacktestConstants DEF Types, PositionType
<1>3. capital' = capital - Commission + 0 /\ banked' = banked + 0 BY <1>1, <1>2
<1> QED BY <1>1, <1>2, <1>3, MoneyMoves

LEMMA ClosingMoney ==
  ASSUME Types, Money, setup.stateful, NEW id \in DOMAIN trades, NEW f \in Frictions,
         CloseAtMarket(id, f), Bank(Pnl(trades[id], FillPrice(Opposite(trades[id].side), f))),
         setup' = setup, pc' = pc, pc # "done", newlyClosed' = newlyClosed
  PROVE  Money'
<1> DEFINE price == FillPrice(Opposite(trades[id].side), f)
<1>1. price \in Int /\ CloseTrade(id, price) BY ClosesAtMarket
<1>2. Bank(Pnl(trades[id], price)) OBVIOUS
<1> HIDE DEF price
<1> DEFINE gain == Pnl(trades[id], price)
<1>3. gain \in Int /\ capital' = capital + gain /\ fees' = fees BY <1>1, Closes
<1>4. banked' = banked + gain BY <1>2 DEF Bank
<1> HIDE DEF gain
<1>5. capital \in Int /\ fees \in Int BY DEF Types
<1>6. capital' = capital - 0 + gain /\ fees' = fees + 0 BY <1>3, <1>5
<1> QED BY <1>3, <1>4, <1>6, MoneyMoves

\* A step that moves no money.
LEMMA QuietMoney ==
  ASSUME Types, Money,
         UNCHANGED <<setup, capital, fees, banked, position, newlyClosed>>,
         pc' = "done" /\ setup.stateful => DOMAIN trades' = {}
  PROVE  Money'
BY DEF Money, Unhandled

LEMMA TradeMoney ==
  ASSUME Types, Money, NEW side \in Directions, NEW stopped \in BOOLEAN,
         NEW qty \in 1 .. PositionSize,
         NEW f \in Frictions, Trade(side, stopped, qty, f)
  PROVE  Money'
<1> DEFINE price == FillPrice(side, f)
           after == UpdatePosition(side, qty, price)
           pnl == after.realized - position.realized
<1>1. /\ pc = "signal" /\ pc' = "record" /\ setup' = setup /\ newlyClosed' = newlyClosed
      /\ FillMarket(Fresh, None, side, qty, StopFor(side, bar.close, stopped), price)
      /\ IF pnl # 0 THEN Bank(pnl) ELSE UNCHANGED tallyVars
  BY DEF Trade, stepVars
<1>2. ~setup.stateful /\ ~setup.gridMode BY <1>1 DEF Types, GridPlaces, Money
<1>3. qty \in Nat \ {0} BY BacktestConstants
<1>4. price \in Int BY MarketPrice
<1> HIDE DEF price
<1>5. after \in PositionType BY <1>3, <1>4, UpdatePositionType DEF Types
<1>6. /\ position' = after /\ fees' = fees + Commission
      /\ capital' = capital - Commission + (after.realized - position.realized)
  BY <1>1, <1>2 DEF FillMarket
<1> HIDE DEF after
<1>7. /\ after.realized \in Int /\ position.realized \in Int /\ capital \in Int /\ fees \in Int
      /\ banked \in Int /\ Commission \in Int /\ InitialCapital \in Int
  BY <1>5, BacktestConstants DEF Types, PositionType
<1>8. banked' = banked + pnl BY <1>1, <1>7 DEF Bank, tallyVars
<1>9. capital = InitialCapital - fees + position.realized /\ banked = position.realized
  BY <1>2 DEF Money
<1>10. capital' = InitialCapital - fees' + position'.realized /\ banked' = position'.realized
  BY <1>6, <1>7, <1>8, <1>9
<1> QED BY <1>1, <1>2, <1>10 DEF Money

LEMMA StepKeepsMoney ==
  ASSUME Types, Follow, Money, [Next]_vars
  PROVE  Money'
<1>1. setup' = setup BY SetupStays
<1>2. CASE UNCHANGED vars
  BY <1>2, QuietMoney DEF Money, vars, moneyVars, tallyVars, stepVars, replayVars
<1>3. CASE \/ NextBar \/ Record \/ Exhausted \/ Hold \/ StopsDone \/ EntriesDone \/ FillsDone
           \/ ClosuresDone
  <2>1. /\ UNCHANGED <<setup, capital, fees, banked, position, newlyClosed>>
        /\ ~(pc' = "done" /\ setup.stateful)
    BY <1>3 DEF NextBar, Record, Exhausted, Hold, StopsDone, EntriesDone, FillsDone, ClosuresDone,
                moneyVars, tallyVars, stepVars
  <2> QED BY <2>1, QuietMoney
<1>10. CASE NoSignal \/ TrimsDone \/ BeginCloseAll \/ EndCloseAll \/ EndFlatten
  <2>1. /\ UNCHANGED <<setup, capital, fees, banked, position, newlyClosed>>
        /\ pc' = "done" => trades' = <<>>
    BY <1>10 DEF NoSignal, TrimsDone, BeginCloseAll, EndCloseAll, EndFlatten, moneyVars, tallyVars,
       stepVars
  <2> QED BY <2>1, QuietMoney
<1>11. CASE \/ \E id \in newlyFilled : HandleFill(id)
            \/ \E key \in Keys, other \in Keys \cup {None} : DropSignal(key, other)
            \/ \E key \in Keys : Retire(key) \/ TrimOrder(key)
            \/ \E key \in Keys, price \in Prices, other \in Keys \cup {None} :
                 PlaceResting(key, price, other)
  <2>1. UNCHANGED <<setup, capital, fees, banked, position, newlyClosed>> /\ pc' # "done"
    BY <1>11 DEF HandleFill, DropSignal, Retire, TrimOrder, PlaceResting, Draining, CapReached,
                 moneyVars, tallyVars, stepVars, replayVars
  <2> QED BY <2>1, QuietMoney
<1>4. ASSUME NEW side \in Directions, NEW stopped \in BOOLEAN, NEW qty \in 1 .. PositionSize,
             NEW f \in Frictions, Trade(side, stopped, qty, f)
      PROVE  Money'
  BY <1>4, TradeMoney
<1>5. CASE \E id \in DOMAIN trades, f \in Frictions : Flatten(id, f)
  <2>1. PICK id \in DOMAIN trades, f \in Frictions : Flatten(id, f) BY <1>5
  <2>2. /\ setup.stateful /\ pc = "end" /\ pc' = pc /\ newlyClosed' = newlyClosed
        /\ CloseAtMarket(id, f) /\ Bank(Pnl(trades[id], FillPrice(Opposite(trades[id].side), f)))
    BY <2>1 DEF Flatten, Types, SimplePlaces, replayVars, stepVars
  <2> QED BY <1>1, <2>2, ClosingMoney
<1>6. ASSUME NEW id \in DOMAIN trades, NEW f \in Frictions, CloseOne(id, f)
      PROVE  Money'
  <2>1. /\ pc = "closing" /\ pc' = pc /\ newlyClosed' = newlyClosed /\ CloseAtMarket(id, f)
        /\ ReportClosed(id, Pnl(trades[id], FillPrice(Opposite(trades[id].side), f)))
    BY <1>6 DEF CloseOne, replayVars, stepVars
  <2>2. setup.stateful /\ Followed BY <2>1 DEF Types, SimplePlaces, Follow
  <2>3. KeysOf(id) # {} BY <1>6, <2>2, CloseOneFollowed
  <2>4. Bank(Pnl(trades[id], FillPrice(Opposite(trades[id].side), f)))
    BY <2>1, <2>3 DEF ReportClosed
  <2> QED BY <1>1, <2>1, <2>2, <2>4, ClosingMoney
<1>7. ASSUME NEW key \in Keys, NEW f \in Frictions, TrimTrade(key, f)
      PROVE  Money'
  <2> DEFINE id == tradeMap[key]
  <2>1. /\ pc = "trim" /\ pc' = pc /\ newlyClosed' = newlyClosed /\ CloseAtMarket(id, f)
        /\ Bank(Pnl(trades[id], FillPrice(Opposite(trades[id].side), f)))
    BY <1>7 DEF TrimTrade, replayVars, stepVars
  <2>2. setup.stateful /\ Followed BY <2>1 DEF Types, SimplePlaces, Follow
  <2>3. id \in DOMAIN trades BY <1>7, <2>2, TrimTradeFollowed
  <2> HIDE DEF id
  <2> QED BY <1>1, <2>1, <2>2, <2>3, ClosingMoney
<1>8. CASE \/ \E id \in DOMAIN pending, f \in Frictions : Enter(id, f)
           \/ \E id \in newlyFilled, f \in Frictions : HandlePairedFill(id, f)
           \/ \E key \in Keys, stopped \in BOOLEAN, f \in Frictions : PlaceMarket(key, stopped, f)
  <2>1. setup.stateful
    BY <1>8 DEF Enter, HandlePairedFill, PlaceMarket, Draining, Types, SimplePlaces
  <2> QED BY <1>8, <2>1, FillsMoney
<1>9. CASE \/ \E id \in DOMAIN trades, f \in Frictions : StopOut(id, f)
           \/ \E closed \in newlyClosed : HandleClosure(closed)
  <2>1. Followed BY <1>9 DEF StopOut, HandleClosure, Types, SimplePlaces, Follow
  <2> QED BY <1>9, <2>1, StopOutMoney, HandleClosureMoney
<1> QED BY <1>2, <1>3, <1>4, <1>5, <1>6, <1>7, <1>8, <1>9, <1>10, <1>11
     DEF Next, GridStep, SimpleStep, Directions

LEMMA InitMoney ==
  ASSUME Setups \subseteq CommandLine, Init
  PROVE  Money
<1>1. newlyClosed = {} /\ DOMAIN [c \in newlyClosed |-> c.pnl] = {} BY DEF Init
<1>2. Unhandled = 0 BY <1>1, SumOfNone DEF Unhandled
<1>3. setup.stateful <=> setup.gridMode BY DEF Init, CommandLine
<1>4. IsFiniteSet(newlyClosed) BY <1>1, FS_EmptySet
<1>5. InitialCapital \in Int BY BacktestConstants
<1>6. capital = InitialCapital /\ fees = 0 /\ banked = 0 /\ position.realized = 0 /\ pc = "next"
  BY DEF Init, NoPosition
<1> QED BY <1>2, <1>3, <1>4, <1>5, <1>6 DEF Money

\* Nothing is unhandled when a step or the replay is over.
LEMMA MoneyAtRest ==
  ASSUME Types, Money, pc \in {"record", "done"}
  PROVE  /\ Reconciles /\ FlattenReconciles
<1>1. newlyClosed = {} BY DEF Types
<1>2. DOMAIN [c \in newlyClosed |-> c.pnl] = {} BY <1>1
<1>3. Unhandled = 0 BY <1>2, SumOfNone DEF Unhandled
<1>4. capital \in Int /\ fees \in Int /\ banked \in Int /\ InitialCapital \in Int
  BY BacktestConstants DEF Types
<1>5. capital = InitialCapital - fees + banked BY <1>3, <1>4 DEF Money
<1>6. Equity = capital + Unbanked BY DEF Equity, Unbanked, Money
<1>7. ASSUME pc = "done", setup.stateful PROVE Equity = capital
  <2>1. DOMAIN trades = {} BY <1>7 DEF Money
  <2>2. DOMAIN [i \in DOMAIN trades |-> Pnl(trades[i], bar.close)] = {} BY <2>1
  <2>3. Marks = 0 BY <2>2, SumOfNone DEF Marks
  <2> QED BY <1>4, <1>7, <2>3 DEF Equity, Money
<1>8. pc = "done" /\ setup.stateful => Equity - InitialCapital = banked - fees
  BY <1>4, <1>5, <1>7
<1> QED BY <1>5, <1>6, <1>8 DEF Reconciles, FlattenReconciles

\* In a replay set up as the command line, the sweep and the walk-forward do, every trade that
\* ends is banked, once: the equity of each bar is the initial capital, less commissions, with
\* the P&L the metrics count, that of the trades not handled yet and the open marks.
THEOREM ReconcilesCorrect ==
  ASSUME Setups \subseteq CommandLine
  PROVE  Spec => []Reconciles
<1>1. Types /\ Follow /\ Money /\ [Next]_vars => (Types /\ Follow /\ Money)'
  BY StepKeepsTypes, StepKeepsFollow, StepKeepsMoney
<1>2. Types /\ Money => Reconciles BY MoneyAtRest DEF Reconciles
<1> QED BY <1>1, <1>2, InitFollows, InitMoney, PTL DEF Spec

\* The flattening at the end of such a grid replay leaves as equity the initial capital, less
\* commissions, with the P&L the metrics count.  The replays of the web differ.
THEOREM FlattenReconcilesCorrect ==
  ASSUME Setups \subseteq CommandLine
  PROVE  Spec => []FlattenReconciles
<1>1. Types /\ Follow /\ Money /\ [Next]_vars => (Types /\ Follow /\ Money)'
  BY StepKeepsTypes, StepKeepsFollow, StepKeepsMoney
<1>2. Types /\ Money => FlattenReconciles BY MoneyAtRest DEF FlattenReconciles
<1> QED BY <1>1, <1>2, InitFollows, InitMoney, PTL DEF Spec

-----------------------------------------------------------------------------
(***************************************************************************)
(* The account is what its fills make of it.                               *)
(***************************************************************************)
MarketPrices == Prices \cup {b.high : b \in Bars}
Top == Max(MarketPrices)
Possible == -Max(Frictions) .. Top + StopGap + Max(Frictions)

\* A finite set of numbers has a greatest one.
LEMMA MaxOf ==
  ASSUME NEW S \in SUBSET Nat, IsFiniteSet(S), S # {}
  PROVE  Max(S) \in S /\ \A t \in S : t <= Max(S)
<1> DEFINE Great(s) == \E m \in s : \A t \in s : t <= m
           bad == {s \in SUBSET S : s # {} /\ ~Great(s)}
<1>1. bad = {}
  <2> SUFFICES ASSUME bad # {} PROVE FALSE OBVIOUS
  <2>1. bad \in SUBSET SUBSET S OBVIOUS
  <2> HIDE DEF bad
  <2>2. PICK s \in bad : \A x \in s : s \ {x} \notin bad BY <2>1, SmallestOf
  <2> USE DEF bad
  <2>3. PICK x \in s : TRUE OBVIOUS
  <2>4. CASE s = {x} BY <2>4
  <2>5. CASE s # {x}
    <3>1. PICK m \in s \ {x} : \A t \in s \ {x} : t <= m BY <2>2, <2>3, <2>5
    <3>2. m \in Nat /\ x \in Nat BY <2>3, <3>1
    <3>3. CASE m >= x
      <4>1. \A t \in s : t <= m BY <3>1, <3>3
      <4> QED BY <3>1, <4>1
    <3>4. CASE ~(m >= x)
      <4>1. \A t \in s : t <= x
        <5> TAKE t \in s
        <5>1. t \in Nat OBVIOUS
        <5> QED BY <3>1, <3>2, <3>4, <5>1
      <4> QED BY <2>3, <4>1
    <3> QED BY <3>3, <3>4
  <2> QED BY <2>4, <2>5
<1>2. \E m \in S : \A t \in S : t <= m BY <1>1
<1>3. PICK m \in S : \A t \in S : m >= t
  <2>1. PICK m \in S : \A t \in S : t <= m BY <1>2
  <2>2. \A t \in S : m >= t
    <3> TAKE t \in S
    <3>1. t \in Nat /\ m \in Nat OBVIOUS
    <3> QED BY <2>1, <3>1
  <2> QED BY <2>2
<1>4. Max(S) \in S /\ \A t \in S : Max(S) >= t BY <1>3 DEF Max
<1> QED BY <1>4

LEMMA PricesPossible ==
  ASSUME Types
  PROVE  /\ Top \in Nat /\ bar.high <= Top /\ \A p \in Prices : p <= Top
         /\ Min(Frictions) \in Nat /\ Max(Frictions) \in Nat
         /\ \A f \in Frictions : f \in Nat /\ Min(Frictions) <= f /\ f <= Max(Frictions)
<1>1. /\ Frictions \in SUBSET Nat /\ Frictions # {} /\ IsFiniteSet(Frictions)
      /\ Prices \in SUBSET Nat /\ IsFiniteSet(Prices) /\ IsFiniteSet(Bars) /\ bar \in Bars
      /\ Bars \subseteq [open : Nat, high : Nat, low : Nat, close : Nat]
  BY BacktestConstants DEF Types
<1>2. MarketPrices \in SUBSET Nat /\ MarketPrices # {} BY <1>1 DEF MarketPrices
<1>3. IsFiniteSet({b.high : b \in Bars})
  <2> DEFINE g == [b \in Bars |-> b.high]
  <2>1. g \in Surjection(Bars, {b.high : b \in Bars}) BY DEF Surjection
  <2> HIDE DEF g
  <2> QED BY <1>1, <2>1, FS_Surjection
<1>4. IsFiniteSet(MarketPrices) BY <1>1, <1>3, FS_Union DEF MarketPrices
<1>5. Top \in MarketPrices /\ \A p \in MarketPrices : p <= Top BY <1>2, <1>4, MaxOf DEF Top
<1>6. bar.high \in MarketPrices /\ \A p \in Prices : p \in MarketPrices BY <1>1 DEF MarketPrices
<1> QED BY <1>1, <1>2, <1>5, <1>6, MinOf, MaxOf

\* The orders and trades of a grid strategy are of one size, and no stop is above what is possible.
Ordinary ==
  setup.stateful =>
    /\ \A i \in DOMAIN pending :
         /\ pending[i].qty = PositionSize /\ pending[i].price \in Prices
         /\ pending[i].stop # None => pending[i].stop <= Top + StopGap
    /\ \A i \in DOMAIN trades :
         /\ trades[i].qty = PositionSize
         /\ trades[i].stop # None => trades[i].stop <= Top + StopGap

LEMMA StopIsOrdinary ==
  ASSUME Types, NEW side \in Directions, NEW price \in Nat, price <= Top, NEW stopped \in BOOLEAN
  PROVE  StopFor(side, price, stopped) # None => StopFor(side, price, stopped) <= Top + StopGap
<1>1. Top \in Nat /\ StopGap \in Nat BY PricesPossible, BacktestConstants
<1>2. Sign(side) \in {1, -1} BY DEF Sign
<1> QED BY <1>1, <1>2 DEF StopFor

LEMMA StepKeepsOrdinary ==
  ASSUME Types, Ordinary, [Next]_vars
  PROVE  Ordinary'
<1>1. setup' = setup /\ Top' = Top BY SetupStays DEF Top, MarketPrices
<1> SUFFICES ASSUME setup.stateful PROVE Ordinary' BY <1>1 DEF Ordinary
<1>2. ASSUME DOMAIN pending' \subseteq DOMAIN pending, DOMAIN trades' \subseteq DOMAIN trades,
             \A i \in DOMAIN pending' : pending'[i] = pending[i],
             \A i \in DOMAIN trades' : trades'[i] = trades[i]
      PROVE  Ordinary'
  BY <1>1, <1>2 DEF Ordinary
<1>3. CASE UNCHANGED <<pending, trades>> BY <1>2, <1>3
<1>4. CASE \/ UNCHANGED vars \/ NextBar \/ Record \/ Exhausted \/ Hold \/ StopsDone \/ EntriesDone
           \/ FillsDone
           \/ ClosuresDone \/ NoSignal \/ TrimsDone \/ EndCloseAll \/ EndFlatten
  BY <1>3, <1>4 DEF vars, NextBar, Record, Exhausted, Hold, StopsDone, EntriesDone, FillsDone,
     ClosuresDone, NoSignal, TrimsDone, EndCloseAll, EndFlatten
<1>5. CASE \/ \E id \in newlyFilled : HandleFill(id)
           \/ \E closed \in newlyClosed : HandleClosure(closed)
           \/ \E key \in Keys, other \in Keys \cup {None} : DropSignal(key, other)
           \/ \E key \in Keys : Retire(key)
  BY <1>3, <1>5 DEF HandleFill, HandleClosure, DropSignal, Retire
<1>6. CASE \/ \E id \in DOMAIN trades, f \in Frictions : StopOut(id, f)
           \/ \E id \in DOMAIN trades, f \in Frictions : CloseOne(id, f)
           \/ \E id \in DOMAIN trades, f \in Frictions : Flatten(id, f)
  <2>1. /\ DOMAIN trades' \subseteq DOMAIN trades
        /\ \A i \in DOMAIN trades' : trades'[i] = trades[i]
        /\ pending' = pending
    BY <1>6 DEF StopOut, CloseOne, Flatten, CloseAtMarket, CloseTrade, Without
  <2> QED BY <1>2, <2>1
<1>7. CASE \/ \E key \in Keys : TrimOrder(key)
           \/ \E key \in Keys, f \in Frictions : TrimTrade(key, f)
  <2>1. /\ DOMAIN trades' \subseteq DOMAIN trades
        /\ \A i \in DOMAIN trades' : trades'[i] = trades[i]
    BY <1>7 DEF TrimOrder, TrimTrade, CloseAtMarket, CloseTrade, Without
  <2>2. /\ DOMAIN pending' \subseteq DOMAIN pending
        /\ \A i \in DOMAIN pending' : pending'[i] = pending[i]
    BY <1>7 DEF TrimOrder, TrimTrade, CancelOrder, Without
  <2> QED BY <1>2, <2>1, <2>2
<1>8. CASE BeginCloseAll
  <2>1. DOMAIN pending' = {} /\ trades' = trades BY <1>8 DEF BeginCloseAll
  <2> QED BY <1>2, <2>1
<1>9. ASSUME NEW id \in DOMAIN pending, NEW f \in Frictions, Enter(id, f) PROVE Ordinary'
  <2>1. /\ DOMAIN pending' \subseteq DOMAIN pending
        /\ \A i \in DOMAIN pending' : pending'[i] = pending[i]
        /\ DOMAIN trades' = DOMAIN trades \cup {Fresh}
        /\ \A i \in DOMAIN trades : i # Fresh => trades'[i] = trades[i]
        /\ trades'[Fresh].qty = pending[id].qty /\ trades'[Fresh].stop = pending[id].stop
    BY <1>9 DEF Enter, With, Without
  <2> QED BY <1>1, <2>1 DEF Ordinary
<1>10. ASSUME NEW id \in newlyFilled, NEW f \in Frictions, HandlePairedFill(id, f) PROVE Ordinary'
  <2>1. /\ pending' = pending
        /\ DOMAIN trades' = DOMAIN trades \cup {Fresh}
        /\ \A i \in DOMAIN trades : i # Fresh => trades'[i] = trades[i]
        /\ trades'[Fresh].qty = trades[id].qty /\ trades'[Fresh].stop = None
    BY <1>10 DEF HandlePairedFill, FillMarket, With
  <2>2. id \in DOMAIN trades BY DEF Types
  <2> QED BY <1>1, <2>1, <2>2 DEF Ordinary
<1>11. ASSUME NEW key \in Keys, NEW stopped \in BOOLEAN, NEW f \in Frictions,
              PlaceMarket(key, stopped, f)
       PROVE  Ordinary'
  <2> DEFINE stop == StopFor(Side[key], bar.close, stopped)
  <2>1. /\ pending' = pending
        /\ DOMAIN trades' = DOMAIN trades \cup {Fresh}
        /\ \A i \in DOMAIN trades : i # Fresh => trades'[i] = trades[i]
        /\ trades'[Fresh].qty = PositionSize /\ trades'[Fresh].stop = stop
    BY <1>11 DEF PlaceMarket, FillMarket, With
  <2>2. Side[key] \in Directions /\ bar.close \in Nat /\ bar.close <= Top
    <3>1. /\ bar.close \in Nat /\ bar.high \in Nat /\ bar.close <= bar.high /\ bar.high <= Top
          /\ Top \in Nat
      BY BarType, PricesPossible
    <3> QED BY <3>1, BacktestConstants DEF Directions
  <2>3. stop # None => stop <= Top + StopGap BY <2>2, StopIsOrdinary
  <2> HIDE DEF stop
  <2> QED BY <1>1, <2>1, <2>3 DEF Ordinary
<1>12. ASSUME NEW key \in Keys, NEW price \in Prices, NEW other \in Keys \cup {None},
              PlaceResting(key, price, other)
       PROVE  Ordinary'
  <2> DEFINE stop == StopFor(Side[key], price, other = None)
  <2>1. /\ trades' = trades
        /\ DOMAIN pending' = DOMAIN pending \cup {Fresh}
        /\ \A i \in DOMAIN pending : i # Fresh => pending'[i] = pending[i]
        /\ pending'[Fresh].qty = PositionSize /\ pending'[Fresh].price = price
        /\ pending'[Fresh].stop = stop
    BY <1>12 DEF PlaceResting, PlacePending, With
  <2>2. Side[key] \in Directions /\ price \in Nat /\ price <= Top
    BY PricesPossible, BacktestConstants DEF Directions
  <2>3. stop # None => stop <= Top + StopGap BY <2>2, StopIsOrdinary
  <2> HIDE DEF stop
  <2> QED BY <1>1, <2>1, <2>3 DEF Ordinary
<1>13. CASE SimpleStep BY <1>13 DEF SimpleStep, Hold, Trade, Types, GridPlaces
<1> QED BY <1>4, <1>5, <1>6, <1>7, <1>8, <1>9, <1>10, <1>11, <1>12, <1>13 DEF Next, GridStep

-----------------------------------------------------------------------------
(***************************************************************************)
(* Of a grid replay: what the trades have cost and hold.                   *)
(***************************************************************************)
CostOf(trade) == Sign(trade.side) * trade.qty * trade.open
HeldOf(trade) == Sign(trade.side) * trade.qty

CostSum(ts) == SumFunction([i \in DOMAIN ts |-> CostOf(ts[i])])
HeldSum(ts) == SumFunction([i \in DOMAIN ts |-> HeldOf(ts[i])])

LEMMA CostType ==
  ASSUME NEW trade \in TradeType
  PROVE  CostOf(trade) \in Int /\ HeldOf(trade) \in Int
<1>1. Sign(trade.side) \in {1, -1} /\ trade.qty \in Int /\ trade.open \in Int
  BY DEF TradeType, Sign
<1>2. \A s \in Int, q \in Int, p \in Int : s * q * p \in Int /\ s * q \in Int OBVIOUS
<1> QED BY <1>1, <1>2 DEF CostOf, HeldOf

LEMMA SumsType ==
  ASSUME NEW S, IsFiniteSet(S), NEW ts \in [S -> TradeType]
  PROVE  CostSum(ts) \in Int /\ HeldSum(ts) \in Int
<1> DEFINE w == [i \in DOMAIN ts |-> CostOf(ts[i])]
           v == [i \in DOMAIN ts |-> HeldOf(ts[i])]
<1>1. \A i \in S : CostOf(ts[i]) \in Int /\ HeldOf(ts[i]) \in Int BY CostType
<1>2. w \in [S -> Int] /\ v \in [S -> Int] BY <1>1
<1>3. CostSum(ts) = SumFunction(w) /\ HeldSum(ts) = SumFunction(v) BY DEF CostSum, HeldSum
<1> HIDE DEF w, v
<1> QED BY <1>2, <1>3, SumIsInt

\* The totals with and without one trade.
LEMMA SumsOfOneMore ==
  ASSUME NEW S, IsFiniteSet(S), NEW old \in [S -> TradeType], NEW x \in S, NEW new,
         DOMAIN new = S \ {x}, \A i \in S \ {x} : new[i] = old[i]
  PROVE  /\ CostSum(old) = CostOf(old[x]) + CostSum(new)
         /\ HeldSum(old) = HeldOf(old[x]) + HeldSum(new)
<1>1. \A i \in S : CostOf(old[i]) \in Int /\ HeldOf(old[i]) \in Int BY CostType
<1>2. CostSum(old) = CostOf(old[x]) + CostSum(new)
  <2> DEFINE w == [i \in DOMAIN old |-> CostOf(old[i])]
             v == [i \in DOMAIN new |-> CostOf(new[i])]
  <2>1. w \in [S -> Int] /\ v \in [S \ {x} -> Int] BY <1>1
  <2>2. \A y \in S \ {x} : v[y] = w[y] OBVIOUS
  <2>3. w[x] = CostOf(old[x]) OBVIOUS
  <2> HIDE DEF w, v
  <2>4. SumFunction(w) = w[x] + SumFunction(v) BY <2>1, <2>2, <2>3, SumWithout
  <2> QED BY <2>3, <2>4 DEF CostSum, w, v
<1>3. HeldSum(old) = HeldOf(old[x]) + HeldSum(new)
  <2> DEFINE w == [i \in DOMAIN old |-> HeldOf(old[i])]
             v == [i \in DOMAIN new |-> HeldOf(new[i])]
  <2>1. w \in [S -> Int] /\ v \in [S \ {x} -> Int] BY <1>1
  <2>2. \A y \in S \ {x} : v[y] = w[y] OBVIOUS
  <2>3. w[x] = HeldOf(old[x]) OBVIOUS
  <2> HIDE DEF w, v
  <2>4. SumFunction(w) = w[x] + SumFunction(v) BY <2>1, <2>2, <2>3, SumWithout
  <2> QED BY <2>3, <2>4 DEF HeldSum, w, v
<1> QED BY <1>2, <1>3

LEMMA TradesAreFinite ==
  ASSUME Types
  PROVE  IsFiniteSet(DOMAIN trades) /\ trades \in [DOMAIN trades -> TradeType]
<1>1. DOMAIN trades \in SUBSET Used BY DEF Used
<1> QED BY <1>1, FS_Subset DEF Types

LEMMA SumsOpen ==
  ASSUME Types, NEW x, x \notin DOMAIN trades,
         DOMAIN trades' = DOMAIN trades \cup {x}, trades' \in [DOMAIN trades' -> TradeType],
         \A i \in DOMAIN trades : trades'[i] = trades[i]
  PROVE  /\ CostSum(trades)' = CostSum(trades) + CostOf(trades'[x]) /\ CostSum(trades) \in Int
         /\ HeldSum(trades)' = HeldSum(trades) + HeldOf(trades'[x]) /\ HeldSum(trades) \in Int
<1> DEFINE S == DOMAIN trades'
           now == trades'
           before == trades
<1>1. CostSum(before) \in Int /\ HeldSum(before) \in Int BY TradesAreFinite, SumsType
<1>2. IsFiniteSet(S) BY TradesAreFinite, FS_AddElement
<1>3. /\ now \in [S -> TradeType] /\ x \in S /\ DOMAIN before = S \ {x}
      /\ \A i \in S \ {x} : before[i] = now[i]
  OBVIOUS
<1>4. now[x] \in TradeType BY <1>3
<1> HIDE DEF S, now, before
<1>5. CostOf(now[x]) \in Int /\ HeldOf(now[x]) \in Int BY <1>4, CostType
<1>6. /\ CostSum(now) = CostOf(now[x]) + CostSum(before)
      /\ HeldSum(now) = HeldOf(now[x]) + HeldSum(before)
  BY <1>2, <1>3, SumsOfOneMore
<1>7. CostSum(trades)' = CostSum(now) /\ HeldSum(trades)' = HeldSum(now)
  BY DEF now, CostSum, HeldSum, CostOf, HeldOf, Sign
<1> QED BY <1>1, <1>5, <1>6, <1>7 DEF now, before

LEMMA SumsClose ==
  ASSUME Types, NEW id \in DOMAIN trades, DOMAIN trades' = DOMAIN trades \ {id},
         \A i \in DOMAIN trades' : trades'[i] = trades[i]
  PROVE  /\ CostSum(trades)' = CostSum(trades) - CostOf(trades[id]) /\ CostSum(trades) \in Int
         /\ HeldSum(trades)' = HeldSum(trades) - HeldOf(trades[id]) /\ HeldSum(trades) \in Int
<1> DEFINE S == DOMAIN trades
           now == trades'
           before == trades
<1>1. IsFiniteSet(S) /\ before \in [S -> TradeType] BY TradesAreFinite
<1>2. DOMAIN now = S \ {id} /\ \A i \in S \ {id} : now[i] = before[i] OBVIOUS
<1>3. before[id] \in TradeType /\ id \in S BY <1>1
<1> HIDE DEF S, now, before
<1>4. CostSum(before) \in Int /\ HeldSum(before) \in Int BY <1>1, SumsType
<1>5. CostOf(before[id]) \in Int /\ HeldOf(before[id]) \in Int BY <1>3, CostType
<1>6. /\ CostSum(before) = CostOf(before[id]) + CostSum(now)
      /\ HeldSum(before) = HeldOf(before[id]) + HeldSum(now)
  BY <1>1, <1>2, <1>3, SumsOfOneMore
<1>7. CostSum(trades)' = CostSum(now) /\ HeldSum(trades)' = HeldSum(now)
  BY DEF now, CostSum, HeldSum, CostOf, HeldOf, Sign
<1>8. \A a, b, c : a \in Int /\ b \in Int /\ a = b + c /\ c \in Int => c = a - b OBVIOUS
<1>9. CostSum(now) \in Int /\ HeldSum(now) \in Int
  <2>1. IsFiniteSet(S \ {id}) BY <1>1, FS_RemoveElement
  <2> DEFINE rest == [i \in S \ {id} |-> before[i]]
  <2>2. rest \in [S \ {id} -> TradeType] BY <1>1
  <2>3. /\ CostSum(now) = CostSum(rest) /\ HeldSum(now) = HeldSum(rest)
    <3>1. DOMAIN rest = S \ {id} /\ \A i \in S \ {id} : rest[i] = before[i] OBVIOUS
    <3> HIDE DEF rest
    <3>2. [i \in DOMAIN now |-> CostOf(now[i])] = [i \in DOMAIN rest |-> CostOf(rest[i])]
      BY <1>2, <3>1
    <3>3. [i \in DOMAIN now |-> HeldOf(now[i])] = [i \in DOMAIN rest |-> HeldOf(rest[i])]
      BY <1>2, <3>1
    <3> QED BY <3>2, <3>3 DEF CostSum, HeldSum
  <2> HIDE DEF rest
  <2>4. CostSum(rest) \in Int /\ HeldSum(rest) \in Int BY <2>1, <2>2, SumsType
  <2> QED BY <2>3, <2>4
<1>10. /\ CostSum(now) = CostSum(before) - CostOf(before[id])
       /\ HeldSum(now) = HeldSum(before) - HeldOf(before[id])
  BY <1>4, <1>5, <1>6, <1>9
<1> QED BY <1>4, <1>7, <1>10 DEF before

LEMMA PossibleAreInt ==
  ASSUME NEW price \in Possible
  PROVE  price \in Int
BY DEF Possible

\* A fill at a price the bar allows is one the account knows.
LEMMA FillIsPromised ==
  ASSUME NEW side \in Directions, NEW units \in 1 .. PositionSize, NEW price \in Possible,
         NEW fee \in {0, Commission},
         side = "BUY" => price >= bar.low + Min(Frictions),
         side = "SELL" => price <= bar.high - Min(Frictions),
         bar' = bar, Cash \in Int, Net \in Int,
         Net' = Net + Sign(side) * units,
         Cash' = Cash - Sign(side) * units * price - fee
  PROVE  Promised!Next
<1> DEFINE cost == units * price
<1>1. PositionSize \in Nat /\ Commission \in Nat BY BacktestConstants
<1>2. units \in Int BY <1>1
<1>3. fee \in Int BY <1>1
<1>4. CASE side = "BUY"
  <2>1. Net' = Net + units /\ Cash' = Cash - units * price - fee
    <3>1. Sign(side) = 1 BY <1>4 DEF Sign
    <3>2. 1 * units = units BY <1>2
    <3> QED BY <3>1, <3>2
  <2>2. Promised!Buy(units, price, fee) BY <1>4, <2>1 DEF Promised!Buy
  <2> QED BY <2>2 DEF Promised!Next, Possible, Top, MarketPrices
<1>5. CASE side = "SELL"
  <2>1. Net' = Net - units /\ Cash' = Cash + units * price - fee
    <3>1. Sign(side) = -1 BY <1>5 DEF Sign
    <3>2. (-1) * units = -units BY <1>2
    <3>3. (-units) * price = -(units * price) /\ price \in Int /\ units * price \in Int
      <4>1. price \in Int BY PossibleAreInt
      <4> QED BY <1>2, <4>1
    <3>4. Net' = Net + (-units) BY <3>1, <3>2
    <3>5. Cash' = Cash - (-(units * price)) - fee BY <3>1, <3>2, <3>3
    <3> HIDE DEF cost
    <3> QED BY <1>2, <1>3, <3>3, <3>4, <3>5
  <2>2. Promised!Sell(units, price, fee) BY <1>5, <2>1 DEF Promised!Sell
  <2> QED BY <2>2 DEF Promised!Next, Possible, Top, MarketPrices
<1> QED BY <1>4, <1>5 DEF Directions

\* The fills of a bar are not better than it, and possible.
LEMMA MarketFill ==
  ASSUME Types, NEW side \in Directions, NEW base \in Nat, base <= Top + StopGap,
         NEW f \in Frictions,
         side = "BUY" => base >= bar.low, side = "SELL" => base <= bar.high
  PROVE  /\ ApplyFriction(side, base, f) \in Possible
         /\ side = "BUY" => ApplyFriction(side, base, f) >= bar.low + Min(Frictions)
         /\ side = "SELL" => ApplyFriction(side, base, f) <= bar.high - Min(Frictions)
<1>1. /\ Top \in Nat /\ Min(Frictions) \in Nat /\ Max(Frictions) \in Nat /\ f \in Nat
      /\ Min(Frictions) <= f /\ f <= Max(Frictions) /\ StopGap \in Nat
      /\ bar.low \in Nat /\ bar.high \in Nat
  BY PricesPossible, BarType, BacktestConstants
<1>2. CASE side = "BUY"
  <2>1. ApplyFriction(side, base, f) = base + f BY <1>1, <1>2 DEF ApplyFriction, Sign
  <2> QED BY <1>1, <1>2, <2>1 DEF Possible
<1>3. CASE side = "SELL"
  <2>1. ApplyFriction(side, base, f) = base - f BY <1>1, <1>3 DEF ApplyFriction, Sign
  <2> QED BY <1>1, <1>3, <2>1 DEF Possible
<1> QED BY <1>2, <1>3 DEF Directions

\* A trade that opens in a grid replay, and one that ends.
LEMMA OpeningIsPromised ==
  ASSUME Types, setup.gridMode, setup' = setup, bar' = bar,
         NEW x, x \notin DOMAIN trades,
         DOMAIN trades' = DOMAIN trades \cup {x}, trades' \in [DOMAIN trades' -> TradeType],
         \A i \in DOMAIN trades : trades'[i] = trades[i],
         NEW side \in Directions, NEW base \in Nat, NEW f \in Frictions,
         base <= Top + StopGap, side = "BUY" => base >= bar.low, side = "SELL" => base <= bar.high,
         trades'[x].side = side, trades'[x].qty = PositionSize,
         trades'[x].open = ApplyFriction(side, base, f),
         capital' = capital - Commission
  PROVE  Promised!Next
<1> DEFINE price == ApplyFriction(side, base, f)
           worth == CostOf(trades'[x])
<1>1. /\ price \in Possible
      /\ side = "BUY" => price >= bar.low + Min(Frictions)
      /\ side = "SELL" => price <= bar.high - Min(Frictions)
  BY MarketFill
<1>2. /\ CostSum(trades)' = CostSum(trades) + worth /\ CostSum(trades) \in Int
      /\ HeldSum(trades)' = HeldSum(trades) + HeldOf(trades'[x]) /\ HeldSum(trades) \in Int
  BY SumsOpen
<1>3. worth = Sign(side) * PositionSize * price /\ HeldOf(trades'[x]) = Sign(side) * PositionSize
  BY DEF CostOf, HeldOf
<1>4. worth \in Int
  <2>1. trades'[x] \in TradeType OBVIOUS
  <2> QED BY <2>1, CostType
<1>5. /\ Cash = capital - CostSum(trades) /\ Net = HeldSum(trades)
      /\ Cash' = capital' - CostSum(trades)' /\ Net' = HeldSum(trades)'
  BY DEF Cash, Net, CostSum, HeldSum, CostOf, HeldOf
<1> HIDE DEF price, worth
<1>6. /\ capital \in Int /\ Commission \in Int /\ PositionSize \in 1 .. PositionSize
      /\ Commission \in {0, Commission}
  BY BacktestConstants DEF Types
<1>7. Cash \in Int /\ Net \in Int BY <1>2, <1>5, <1>6
<1>8. Cash' = Cash - worth - Commission BY <1>2, <1>4, <1>5, <1>6
<1>9. Cash' = Cash - Sign(side) * PositionSize * price - Commission BY <1>3, <1>8
<1>10. Net' = Net + Sign(side) * PositionSize BY <1>2, <1>3, <1>5
<1> QED BY <1>1, <1>6, <1>7, <1>9, <1>10, FillIsPromised

LEMMA ClosingIsPromised ==
  ASSUME Types, setup.gridMode, setup' = setup, bar' = bar,
         NEW id \in DOMAIN trades, trades[id].qty = PositionSize,
         NEW base \in Nat, NEW f \in Frictions, base <= Top + StopGap,
         trades[id].side = "SELL" => base >= bar.low, trades[id].side = "BUY" => base <= bar.high,
         CloseTrade(id, ApplyFriction(Opposite(trades[id].side), base, f))
  PROVE  Promised!Next
<1> DEFINE side == Opposite(trades[id].side)
           price == ApplyFriction(side, base, f)
           worth == CostOf(trades[id])
<1>1. trades[id] \in TradeType /\ trades[id].side \in Directions BY DEF Types, TradeType
<1>2. /\ side \in Directions /\ Sign(side) = -Sign(trades[id].side)
      /\ Sign(trades[id].side) \in {1, -1}
      /\ side = "BUY" <=> trades[id].side = "SELL"
      /\ side = "SELL" <=> trades[id].side = "BUY"
  BY <1>1 DEF Opposite, Directions, Sign
<1>3. /\ price \in Possible
      /\ side = "BUY" => price >= bar.low + Min(Frictions)
      /\ side = "SELL" => price <= bar.high - Min(Frictions)
  <2> HIDE DEF side
  <2> QED BY <1>2, MarketFill
<1>4. price \in Int BY <1>3, PossibleAreInt
<1>5. CloseTrade(id, price) OBVIOUS
<1> HIDE DEF price, side
<1>6. /\ DOMAIN trades' = DOMAIN trades \ {id} /\ \A i \in DOMAIN trades' : trades'[i] = trades[i]
      /\ Pnl(trades[id], price) \in Int /\ capital' = capital + Pnl(trades[id], price)
  BY <1>4, <1>5, Closes
<1>7. /\ CostSum(trades)' = CostSum(trades) - worth /\ CostSum(trades) \in Int
      /\ HeldSum(trades)' = HeldSum(trades) - HeldOf(trades[id]) /\ HeldSum(trades) \in Int
  BY <1>6, SumsClose
<1>8. worth \in Int /\ trades[id].open \in Int /\ PositionSize \in Int /\ capital \in Int
  BY <1>1, CostType, BacktestConstants DEF Types, TradeType
<1> DEFINE s == Sign(trades[id].side)
           open == trades[id].open
           moved == s * PositionSize * price
<1>9. worth = s * PositionSize * open /\ HeldOf(trades[id]) = s * PositionSize
  BY DEF CostOf, HeldOf
<1>10. Pnl(trades[id], price) = s * PositionSize * (price - open) BY DEF Pnl
<1>11. s * PositionSize * (price - open) = moved - s * PositionSize * open /\ moved \in Int
  <2>1. s \in Int BY <1>2
  <2> HIDE DEF s, open
  <2>2. s * PositionSize \in Int BY <1>8, <2>1
  <2>3. \A a, b, c \in Int : a * (b - c) = a * b - a * c /\ a * b \in Int OBVIOUS
  <2>4. open \in Int BY <1>8 DEF open
  <2> QED BY <1>4, <2>2, <2>3, <2>4
<1>12. Pnl(trades[id], price) = moved - worth BY <1>9, <1>10, <1>11
<1>13. /\ Cash = capital - CostSum(trades) /\ Net = HeldSum(trades)
       /\ Cash' = capital' - CostSum(trades)' /\ Net' = HeldSum(trades)'
  BY DEF Cash, Net, CostSum, HeldSum, CostOf, HeldOf
<1>14. Cash \in Int /\ Net \in Int BY <1>7, <1>8, <1>13
<1>15. Sign(side) * PositionSize = -(s * PositionSize) /\ Sign(side) * PositionSize * price = -moved
  <2>1. s \in {1, -1} /\ Sign(side) = -s BY <1>2
  <2> HIDE DEF s
  <2>2. s * PositionSize \in Int BY <1>8, <2>1
  <2>3. (-s) * PositionSize = -(s * PositionSize) BY <1>8, <2>1
  <2>4. \A a, b \in Int : (-a) * b = -(a * b) OBVIOUS
  <2> QED BY <1>4, <2>1, <2>2, <2>3, <2>4
<1>16. s * PositionSize \in Int
  <2>1. s \in Int BY <1>2
  <2> HIDE DEF s
  <2> QED BY <1>8, <2>1
<1>17. 0 \in {0, Commission} /\ PositionSize \in 1 .. PositionSize BY BacktestConstants
<1> HIDE DEF moved, worth, s, open
<1>18. Cash' = Cash - Sign(side) * PositionSize * price - 0
  BY <1>6, <1>7, <1>8, <1>11, <1>12, <1>13, <1>15
<1>19. Net' = Net + Sign(side) * PositionSize BY <1>7, <1>9, <1>13, <1>15, <1>16
<1> QED BY <1>2, <1>3, <1>14, <1>17, <1>18, <1>19, FillIsPromised

-----------------------------------------------------------------------------
(***************************************************************************)
(* Of a simple replay: the net position, and its average cost.             *)
(***************************************************************************)
\* The model's prices are fine enough for the averages it comes to: those of the code are
\* not rounded to whole prices.
WholeAverages ==
  \A side \in Directions, stopped \in BOOLEAN, qty \in 1 .. PositionSize, f \in Frictions :
    LET held == Sign(side) * position.qty IN
    Trade(side, stopped, qty, f) /\ held >= 0 =>
      (held + qty) * position'.cost = held * position.cost + qty * FillPrice(side, f)

\* What a fill realizes and what it leaves at cost make up its price: of a buy, and of a sell.
LEMMA AveragingBuy ==
  ASSUME position \in PositionType, NEW qty \in Nat \ {0}, NEW price \in Int, NEW cost \in Int,
         cost = UpdatePosition("BUY", qty, price).cost,
         position.qty >= 0
             => (position.qty + qty) * cost = position.qty * position.cost + qty * price
  PROVE  UpdatePosition("BUY", qty, price).realized - position.realized
           = (position.qty + qty) * cost - position.qty * position.cost - qty * price
<1> DEFINE p == position.qty
           c == position.cost
           closes == IF p >= 0 THEN 0 ELSE Min({qty, -p})
<1>1. p \in Int /\ c \in Int /\ position.realized \in Int BY DEF PositionType
<1>2. 1 * p = p /\ Sign("BUY") = 1 BY <1>1 DEF Sign
<1>3. closes \in Int /\ closes = IF p >= 0 THEN 0 ELSE IF qty <= -p THEN qty ELSE -p
  <2>1. -p \in Int BY <1>1
  <2> HIDE DEF p
  <2> QED BY <1>1, <2>1, MinOfTwo
<1>4. UpdatePosition("BUY", qty, price).realized = position.realized - closes * (price - c)
  <2>1. UpdatePosition("BUY", qty, price).realized = position.realized - 1 * closes * (price - c)
    BY <1>2 DEF UpdatePosition
  <2>2. 1 * closes = closes BY <1>3
  <2> QED BY <2>1, <2>2
<1>5. p < 0 => cost = IF p + qty > 0 THEN price ELSE IF p + qty < 0 THEN c ELSE 0
  <2>1. cost = IF Sign("BUY") * p >= 0
               THEN (Sign("BUY") * p * c + qty * price) \div (Sign("BUY") * p + qty)
               ELSE IF Sign("BUY") * p + qty > 0 THEN price
               ELSE IF Sign("BUY") * p + qty < 0 THEN c ELSE 0
    BY DEF UpdatePosition
  <2> HIDE DEF p, c
  <2> QED BY <1>1, <1>2, <2>1
<1>6. p >= 0 => (p + qty) * cost = p * c + qty * price OBVIOUS
<1> HIDE DEF p, c, closes
<1>7. position.realized - closes * (price - c) - position.realized = -(closes * (price - c))
  <2>1. closes * (price - c) \in Int BY <1>1, <1>3
  <2> QED BY <1>1, <2>1
<1>8. -(closes * (price - c)) = (p + qty) * cost - p * c - qty * price
  <2>1. CASE p >= 0 BY <1>1, <1>3, <1>6, <2>1
  <2>2. CASE p < 0 /\ p + qty > 0
    <3>1. closes = -p /\ cost = price BY <1>1, <1>3, <1>5, <2>2
    <3> QED BY <1>1, <3>1
  <2>3. CASE p < 0 /\ p + qty < 0
    <3>1. closes = qty /\ cost = c BY <1>1, <1>3, <1>5, <2>3
    <3> QED BY <1>1, <3>1
  <2>4. CASE p < 0 /\ p + qty = 0
    <3>1. closes = qty /\ cost = 0 /\ p = -qty BY <1>1, <1>3, <1>5, <2>4
    <3> QED BY <1>1, <3>1
  <2> QED BY <1>1, <2>1, <2>2, <2>3, <2>4
<1> QED BY <1>4, <1>7, <1>8 DEF p, c

LEMMA AveragingSell ==
  ASSUME position \in PositionType, NEW qty \in Nat \ {0}, NEW price \in Int, NEW cost \in Int,
         cost = UpdatePosition("SELL", qty, price).cost,
         -position.qty >= 0
             => (-position.qty + qty) * cost = (-position.qty) * position.cost + qty * price
  PROVE  UpdatePosition("SELL", qty, price).realized - position.realized
           = (position.qty - qty) * cost - position.qty * position.cost + qty * price
<1> DEFINE p == -position.qty
           c == position.cost
           closes == IF p >= 0 THEN 0 ELSE Min({qty, -p})
<1>1. p \in Int /\ c \in Int /\ position.realized \in Int /\ position.qty = -p
  BY DEF PositionType
<1>2. (-1) * position.qty = p /\ Sign("SELL") = -1 BY <1>1 DEF Sign
<1>3. closes \in Int /\ closes = IF p >= 0 THEN 0 ELSE IF qty <= -p THEN qty ELSE -p
  <2>1. -p \in Int BY <1>1
  <2> HIDE DEF p
  <2> QED BY <1>1, <2>1, MinOfTwo
<1>4. UpdatePosition("SELL", qty, price).realized = position.realized - (-1) * closes * (price - c)
  BY <1>2 DEF UpdatePosition
<1>5. p < 0 => cost = IF p + qty > 0 THEN price ELSE IF p + qty < 0 THEN c ELSE 0
  <2> DEFINE held == Sign("SELL") * position.qty
  <2>1. cost = IF held >= 0
               THEN (held * c + qty * price) \div (held + qty)
               ELSE IF held + qty > 0 THEN price
               ELSE IF held + qty < 0 THEN c ELSE 0
    BY DEF UpdatePosition
  <2>2. held = p BY <1>2
  <2> HIDE DEF p, c, held
  <2> QED BY <1>1, <2>1, <2>2
<1>6. p >= 0 => (p + qty) * cost = p * c + qty * price OBVIOUS
<1> HIDE DEF p, c, closes
<1>7. position.realized - (-1) * closes * (price - c) - position.realized = closes * (price - c)
  <2>1. closes * (price - c) \in Int /\ (-1) * closes = -closes BY <1>1, <1>3
  <2>2. (-closes) * (price - c) = -(closes * (price - c)) BY <1>1, <1>3
  <2> QED BY <1>1, <2>1, <2>2
<1>8. closes * (price - c) = (-p - qty) * cost - (-p) * c + qty * price
  <2>1. CASE p >= 0 BY <1>1, <1>3, <1>6, <2>1
  <2>2. CASE p < 0 /\ p + qty > 0
    <3>1. closes = -p /\ cost = price BY <1>1, <1>3, <1>5, <2>2
    <3> QED BY <1>1, <3>1
  <2>3. CASE p < 0 /\ p + qty < 0
    <3>1. closes = qty /\ cost = c BY <1>1, <1>3, <1>5, <2>3
    <3> QED BY <1>1, <3>1
  <2>4. CASE p < 0 /\ p + qty = 0
    <3>1. closes = qty /\ cost = 0 /\ p = -qty BY <1>1, <1>3, <1>5, <2>4
    <3> QED BY <1>1, <3>1
  <2> QED BY <1>1, <2>1, <2>2, <2>3, <2>4
<1> QED BY <1>1, <1>4, <1>7, <1>8 DEF c

LEMMA TradeIsPromised ==
  ASSUME Types, ~setup.gridMode, NEW side \in Directions, NEW stopped \in BOOLEAN,
         NEW qty \in 1 .. PositionSize, NEW f \in Frictions, Trade(side, stopped, qty, f),
         WholeAverages
  PROVE  Promised!Next
<1> DEFINE price == FillPrice(side, f)
           after == UpdatePosition(side, qty, price)
           p == position.qty
           c == position.cost
<1>1. /\ FillMarket(Fresh, None, side, qty, StopFor(side, bar.close, stopped), price)
      /\ bar' = bar /\ setup' = setup
  BY DEF Trade
<1>2. position' = after /\ capital' = capital - Commission + (after.realized - position.realized)
  BY <1>1 DEF FillMarket
<1>3. /\ Sign(side) * p >= 0 =>
           (Sign(side) * p + qty) * after.cost = Sign(side) * p * c + qty * price
  BY <1>2 DEF WholeAverages
<1>4. qty \in Nat \ {0} /\ Commission \in Int /\ capital \in Int /\ position \in PositionType
  BY BacktestConstants DEF Types
<1>5. price \in Int BY MarketPrice
<1>6. /\ price \in Possible
      /\ side = "BUY" => price >= bar.low + Min(Frictions)
      /\ side = "SELL" => price <= bar.high - Min(Frictions)
  <2>1. /\ bar.close \in Nat /\ bar.low \in Nat /\ bar.high \in Nat /\ bar.low <= bar.close
        /\ bar.close <= bar.high /\ bar.high <= Top /\ Top \in Nat /\ StopGap \in Nat
    BY BarType, PricesPossible, BacktestConstants
  <2>2. bar.close <= Top + StopGap BY <2>1
  <2> QED BY <2>1, <2>2, MarketFill DEF FillPrice
<1> HIDE DEF price
<1>7. after \in PositionType /\ after.qty = p + Sign(side) * qty BY <1>4, <1>5, UpdatePositionType
<1>8. p \in Int /\ c \in Int /\ position.realized \in Int /\ after.qty \in Int /\ after.cost \in Int
      /\ after.realized \in Int
  BY <1>4, <1>7 DEF PositionType
<1>9. after.realized - position.realized
        = after.qty * after.cost - p * c - Sign(side) * qty * price
  <2>1. CASE side = "BUY"
    <3>1. Sign(side) = 1 /\ 1 * p = p /\ 1 * qty = qty BY <1>4, <1>8, <2>1 DEF Sign
    <3>2. p >= 0 => (p + qty) * after.cost = p * c + qty * price BY <1>3, <3>1
    <3>3. /\ after.cost = UpdatePosition("BUY", qty, price).cost
          /\ after = UpdatePosition("BUY", qty, price)
      BY <2>1
    <3> HIDE DEF after
    <3>4. UpdatePosition("BUY", qty, price).realized - position.realized
            = (p + qty) * after.cost - p * c - qty * price
      BY <1>4, <1>5, <1>8, <3>2, <3>3, AveragingBuy
    <3> QED BY <1>7, <3>1, <3>3, <3>4
  <2>2. CASE side = "SELL"
    <3>1. /\ Sign(side) = -1 /\ (-1) * p = -p /\ (-1) * qty = -qty
          /\ (-qty) * price = -(qty * price) /\ qty * price \in Int
      BY <1>4, <1>5, <1>8, <2>2 DEF Sign
    <3>2. -p >= 0 => (-p + qty) * after.cost = (-p) * c + qty * price BY <1>3, <3>1
    <3>3. /\ after.cost = UpdatePosition("SELL", qty, price).cost
          /\ after = UpdatePosition("SELL", qty, price)
      BY <2>2
    <3> HIDE DEF after
    <3>4. UpdatePosition("SELL", qty, price).realized - position.realized
            = (p - qty) * after.cost - p * c + qty * price
      BY <1>4, <1>5, <1>8, <3>2, <3>3, AveragingSell
    <3>5. after.qty = p - qty BY <1>4, <1>7, <1>8, <3>1
    <3>6. Sign(side) * qty * price = -(qty * price) BY <3>1
    <3>7. p * c \in Int /\ after.qty * after.cost \in Int BY <1>8
    <3> HIDE DEF p, c
    <3> QED BY <3>1, <3>3, <3>4, <3>5, <3>6, <3>7
  <2> QED BY <2>1, <2>2 DEF Directions
<1>10. /\ Cash = capital - p * c /\ Net = p
       /\ Cash' = capital' - after.qty * after.cost /\ Net' = after.qty
  BY <1>1, <1>2 DEF Cash, Net
<1>11. p * c \in Int /\ after.qty * after.cost \in Int /\ Sign(side) * qty * price \in Int
  <2>1. Sign(side) \in Int BY DEF Sign
  <2>2. Sign(side) * qty \in Int BY <1>4, <2>1
  <2> QED BY <1>5, <1>8, <2>2
<1> HIDE DEF after, p, c
<1>12. Cash \in Int /\ Net \in Int BY <1>4, <1>8, <1>10, <1>11
<1>13. Cash' = Cash - Sign(side) * qty * price - Commission
  BY <1>2, <1>4, <1>8, <1>9, <1>10, <1>11
<1>14. Net' = Net + Sign(side) * qty BY <1>7, <1>10
<1> QED BY <1>1, <1>6, <1>12, <1>13, <1>14, FillIsPromised

LEMMA StepIsPromised ==
  ASSUME Types, Follow, Ordinary, setup.stateful <=> setup.gridMode, [Next]_vars,
         [WholeAverages]_vars
  PROVE  [Promised!Next]_(Promised!vars)
<1>1. /\ Top \in Nat /\ StopGap \in Nat /\ bar.open \in Nat /\ bar.high \in Nat /\ bar.low \in Nat
      /\ bar.close \in Nat /\ bar.low <= bar.open /\ bar.low <= bar.close
      /\ bar.open <= bar.high /\ bar.close <= bar.high /\ bar.high <= Top
      /\ \A p \in Prices : p <= Top /\ p \in Nat
  BY BarType, PricesPossible, BacktestConstants
<1>2. CASE UNCHANGED <<setup, bar, capital, position, trades>>
  BY <1>2 DEF Promised!vars, Cash, Net
<1>3. CASE \/ UNCHANGED vars \/ Record \/ Exhausted \/ StopsDone \/ EntriesDone \/ FillsDone
           \/ ClosuresDone \/ NoSignal \/ TrimsDone \/ BeginCloseAll \/ EndCloseAll \/ EndFlatten
           \/ Hold
  BY <1>2, <1>3 DEF vars, Record, Exhausted, Hold, StopsDone, EntriesDone, FillsDone,
       ClosuresDone, NoSignal, TrimsDone, BeginCloseAll, EndCloseAll, EndFlatten, moneyVars,
       replayVars
<1>4. CASE \/ \E id \in newlyFilled : HandleFill(id)
           \/ \E closed \in newlyClosed : HandleClosure(closed)
           \/ \E key \in Keys, price \in Prices, other \in Keys \cup {None} :
                PlaceResting(key, price, other)
           \/ \E key \in Keys, other \in Keys \cup {None} : DropSignal(key, other)
           \/ \E key \in Keys : Retire(key)
           \/ \E key \in Keys : TrimOrder(key)
  BY <1>2, <1>4 DEF HandleFill, HandleClosure, PlaceResting, DropSignal, Retire, TrimOrder,
       moneyVars, replayVars
<1>5. CASE NextBar
  <2>1. bar' \in Bars /\ UNCHANGED <<setup, capital, position, trades>>
    BY <1>5 DEF NextBar, moneyVars
  <2>2. Promised!Market BY <2>1 DEF Promised!Market, Cash, Net
  <2> QED BY <2>2 DEF Promised!Next
\* an exit at the market
<1>6. ASSUME NEW id \in DOMAIN trades, NEW f \in Frictions, setup.stateful, CloseAtMarket(id, f),
             setup' = setup, bar' = bar
      PROVE  Promised!Next
  <2>1. trades[id].qty = PositionSize BY <1>6 DEF Ordinary
  <2>2. CloseTrade(id, ApplyFriction(Opposite(trades[id].side), bar.close, f))
    BY <1>6 DEF CloseAtMarket, FillPrice
  <2>3. bar.close <= Top + StopGap BY <1>1
  <2> QED BY <1>1, <1>6, <2>1, <2>2, <2>3, ClosingIsPromised
<1>7. ASSUME NEW id \in DOMAIN trades, NEW f \in Frictions, CloseOne(id, f) \/ Flatten(id, f)
      PROVE  Promised!Next
  <2>1. CloseAtMarket(id, f) /\ setup' = setup /\ bar' = bar /\ pc \in {"closing", "end"}
    BY <1>7 DEF CloseOne, Flatten, replayVars
  <2>2. setup.stateful BY <2>1 DEF Types, SimplePlaces
  <2> QED BY <1>6, <2>1, <2>2
<1>8. ASSUME NEW key \in Keys, NEW f \in Frictions, TrimTrade(key, f) PROVE Promised!Next
  <2> DEFINE id == tradeMap[key]
  <2>1. CloseAtMarket(id, f) /\ setup' = setup /\ bar' = bar /\ pc = "trim"
    BY <1>8 DEF TrimTrade, replayVars
  <2>2. setup.stateful /\ Followed BY <2>1 DEF Types, SimplePlaces, Follow
  <2>3. id \in DOMAIN trades BY <1>8, <2>2, TrimTradeFollowed
  <2> HIDE DEF id
  <2> QED BY <1>6, <2>1, <2>2, <2>3
<1>9. ASSUME NEW id \in DOMAIN trades, NEW f \in Frictions, StopOut(id, f) PROVE Promised!Next
  <2> DEFINE base == StopBase(trades[id])
             stop == trades[id].stop
  <2>1. /\ pc = "stops" /\ StopTouched(trades[id]) /\ setup' = setup /\ bar' = bar
        /\ CloseTrade(id, ApplyFriction(Opposite(trades[id].side), base, f))
    BY <1>9 DEF StopOut, replayVars
  <2>2. setup.stateful BY <2>1 DEF Types, SimplePlaces
  <2>3. trades[id] \in TradeType /\ trades[id].side \in Directions BY DEF Types, TradeType
  <2>4. /\ stop \in Int
        /\ base = IF trades[id].side = "BUY" THEN (IF stop <= bar.open THEN stop ELSE bar.open)
                  ELSE (IF stop >= bar.open THEN stop ELSE bar.open)
    <3>1. stop \in Int BY <2>1, <2>3, StopBaseType
    <3> QED BY <1>1, <3>1, MinOfTwo, MaxOfTwo DEF StopBase
  <2>5. /\ stop # None
        /\ trades[id].side = "BUY" => bar.low <= stop
        /\ trades[id].side = "SELL" => bar.high >= stop
    BY <2>1 DEF StopTouched
  <2>6. trades[id].qty = PositionSize /\ stop <= Top + StopGap BY <2>2, <2>5 DEF Ordinary
  <2> HIDE DEF base, stop
  <2>7. base \in Nat /\ base <= Top + StopGap
    <3>1. CASE trades[id].side = "BUY" BY <1>1, <2>4, <2>5, <2>6, <3>1
    <3>2. CASE trades[id].side = "SELL" BY <1>1, <2>4, <2>5, <2>6, <3>2
    <3> QED BY <2>3, <3>1, <3>2 DEF Directions
  <2>8. /\ trades[id].side = "SELL" => base >= bar.low
        /\ trades[id].side = "BUY" => base <= bar.high
    <3>1. CASE trades[id].side = "BUY" BY <1>1, <2>4, <2>5, <2>6, <3>1
    <3>2. CASE trades[id].side = "SELL" BY <1>1, <2>4, <2>5, <2>6, <3>2
    <3> QED BY <2>3, <3>1, <3>2 DEF Directions
  <2> QED BY <2>1, <2>2, <2>6, <2>7, <2>8, ClosingIsPromised
\* an entry, resting and at the market
<1>10. ASSUME NEW id \in DOMAIN pending, NEW f \in Frictions, Enter(id, f) PROVE Promised!Next
  <2> DEFINE order == pending[id]
             base == EntryBase(order)
  <2>1. /\ pc = "entries" /\ Triggered(order) /\ setup' = setup /\ bar' = bar
        /\ trades' = With(trades, Fresh, [key |-> order.key, side |-> order.side, qty |-> order.qty,
                                          open |-> ApplyFriction(order.side, base, f),
                                          stop |-> order.stop])
        /\ capital' = capital - Commission
    BY <1>10 DEF Enter, replayVars
  <2>2. setup.stateful BY <2>1 DEF Types, SimplePlaces
  <2>3. order \in OrderType /\ order.side \in Directions /\ order.isStop \in BOOLEAN
    BY DEF Types, OrderType
  <2>4. order.qty = PositionSize /\ order.price \in Prices BY <2>2 DEF Ordinary
  <2>5. base = IF ~order.isStop THEN order.price
               ELSE IF order.side = "BUY"
               THEN (IF order.price >= bar.open THEN order.price ELSE bar.open)
               ELSE (IF order.price <= bar.open THEN order.price ELSE bar.open)
    <3>1. order.price \in Int /\ bar.open \in Int BY <1>1, <2>4
    <3> QED BY <3>1, MinOfTwo, MaxOfTwo DEF EntryBase
  <2>6. IF (order.side = "BUY") = order.isStop
        THEN bar.high >= order.price ELSE bar.low <= order.price
    BY <2>1 DEF Triggered
  <2>7. /\ Fresh \notin DOMAIN trades
        /\ DOMAIN trades' = DOMAIN trades \cup {Fresh}
        /\ \A i \in DOMAIN trades : trades'[i] = trades[i]
        /\ trades' \in [DOMAIN trades' -> TradeType]
        /\ trades'[Fresh].side = order.side /\ trades'[Fresh].qty = order.qty
        /\ trades'[Fresh].open = ApplyFriction(order.side, base, f)
    <3> DEFINE fill == [key |-> order.key, side |-> order.side, qty |-> order.qty,
                        open |-> ApplyFriction(order.side, base, f), stop |-> order.stop]
    <3>1. Fresh \notin DOMAIN trades BY FreshIsUnused DEF Types, Used
    <3>2. base \in Int BY <2>3, EntryBaseType
    <3>3. ApplyFriction(order.side, base, f) \in Int
      <4> HIDE DEF base, order
      <4> QED BY <2>3, <3>2, FillPriceType
    <3>4. fill \in TradeType BY <2>3, <3>3 DEF OrderType, TradeType
    <3>5. /\ fill.side = order.side /\ fill.qty = order.qty
          /\ fill.open = ApplyFriction(order.side, base, f)
      OBVIOUS
    <3>6. trades' = With(trades, Fresh, fill) /\ trades \in [DOMAIN trades -> TradeType]
      BY <2>1 DEF Types
    <3> HIDE DEF fill, base, order
    <3>7. DOMAIN trades' = DOMAIN trades \cup {Fresh} /\ trades'[Fresh] = fill
      BY <3>6 DEF With
    <3>8. \A i \in DOMAIN trades : trades'[i] = trades[i] BY <3>1, <3>6 DEF With
    <3>9. trades' \in [DOMAIN trades' -> TradeType] BY <3>4, <3>6 DEF With
    <3> QED BY <3>1, <3>5, <3>7, <3>8, <3>9
  <2> HIDE DEF base, order
  <2>8. /\ base \in Nat /\ base <= Top + StopGap
        /\ order.side = "BUY" => base >= bar.low
        /\ order.side = "SELL" => base <= bar.high
    <3>1. order.price \in Nat /\ order.price <= Top BY <1>1, <2>4
    <3>2. CASE order.isStop /\ order.side = "BUY" BY <1>1, <2>5, <2>6, <3>1, <3>2
    <3>3. CASE order.isStop /\ order.side = "SELL" BY <1>1, <2>5, <2>6, <3>1, <3>3
    <3>4. CASE ~order.isStop /\ order.side = "BUY"
      <4>1. bar.low <= order.price BY <2>3, <2>6, <3>4
      <4> QED BY <1>1, <2>5, <3>1, <3>4, <4>1
    <3>5. CASE ~order.isStop /\ order.side = "SELL"
      <4>1. bar.high >= order.price BY <2>3, <2>6, <3>5
      <4> QED BY <1>1, <2>5, <3>1, <3>5, <4>1
    <3> QED BY <2>3, <3>2, <3>3, <3>4, <3>5 DEF Directions
  <2> QED BY <2>1, <2>2, <2>3, <2>4, <2>7, <2>8, OpeningIsPromised
<1>11. ASSUME NEW key \in Keys \cup {None}, NEW side \in Directions, NEW qty \in Nat \ {0},
              NEW stop \in Int \cup {None},
              NEW f \in Frictions, setup.stateful, qty = PositionSize,
              FillMarket(Fresh, key, side, qty, stop, FillPrice(side, f)),
              setup' = setup, bar' = bar
       PROVE  Promised!Next
  <2> DEFINE price == FillPrice(side, f)
  <2>1. price \in Int BY MarketPrice
  <2>2. FillMarket(Fresh, key, side, qty, stop, price) BY <1>11
  <2>3. price = ApplyFriction(side, bar.close, f) BY DEF FillPrice
  <2> HIDE DEF price
  <2>4. /\ Fresh \notin DOMAIN trades
        /\ DOMAIN trades' = DOMAIN trades \cup {Fresh}
        /\ \A i \in DOMAIN trades : trades'[i] = trades[i]
        /\ trades' \in [DOMAIN trades' -> TradeType]
        /\ trades'[Fresh] = [key |-> key, side |-> side, qty |-> qty, open |-> price, stop |-> stop]
    BY <2>1, <2>2, Opens DEF Used
  <2>5. trades'[Fresh].side = side /\ trades'[Fresh].qty = PositionSize
        /\ trades'[Fresh].open = ApplyFriction(side, bar.close, f)
    BY <1>11, <2>3, <2>4
  <2>6. capital' = capital - Commission
    <3>1. capital' = capital - Commission + (position.realized - position.realized)
      BY <1>11, <2>2 DEF FillMarket
    <3>2. position.realized \in Int /\ capital \in Int /\ Commission \in Int
      BY BacktestConstants DEF Types, PositionType
    <3> QED BY <3>1, <3>2
  <2>7. bar.close <= Top + StopGap BY <1>1
  <2> QED BY <1>1, <1>11, <2>4, <2>5, <2>6, <2>7, OpeningIsPromised
<1>12. ASSUME NEW id \in newlyFilled, NEW f \in Frictions, HandlePairedFill(id, f)
       PROVE  Promised!Next
  <2>1. /\ pc = "fills" /\ setup' = setup /\ bar' = bar /\ meta[trades[id].key] # None
        /\ FillMarket(Fresh, meta[trades[id].key], Opposite(trades[id].side), trades[id].qty, None,
                      FillPrice(Opposite(trades[id].side), f))
    BY <1>12 DEF HandlePairedFill, replayVars
  <2>2. setup.stateful /\ id \in DOMAIN trades BY <2>1 DEF Types, SimplePlaces
  <2>3. /\ trades[id].qty = PositionSize /\ trades[id].qty \in Nat \ {0}
        /\ trades[id].side \in Directions /\ trades[id].key \in Keys
    BY <2>2 DEF Ordinary, Types, TradeType
  <2>4. meta[trades[id].key] \in Keys \cup {None} /\ Opposite(trades[id].side) \in Directions
    BY <2>3 DEF Types, Opposite, Directions
  <2> QED BY <1>11, <2>1, <2>2, <2>3, <2>4
<1>13. ASSUME NEW key \in Keys, NEW stopped \in BOOLEAN, NEW f \in Frictions,
              PlaceMarket(key, stopped, f)
       PROVE  Promised!Next
  <2>1. /\ pc = "drain" /\ setup' = setup /\ bar' = bar
        /\ FillMarket(Fresh, key, Side[key], PositionSize, StopFor(Side[key], bar.close, stopped),
                      FillPrice(Side[key], f))
    BY <1>13 DEF PlaceMarket, Draining, replayVars
  <2>2. setup.stateful BY <2>1 DEF Types, SimplePlaces
  <2>3. Side[key] \in Directions /\ PositionSize \in Nat \ {0} BY BacktestConstants DEF Directions
  <2>4. StopFor(Side[key], bar.close, stopped) \in Int \cup {None} BY <1>1, <2>3, StopForType
  <2> QED BY <1>11, <2>1, <2>2, <2>3, <2>4
<1>14. ASSUME NEW side \in Directions, NEW stopped \in BOOLEAN, NEW qty \in 1 .. PositionSize,
              NEW f \in Frictions, Trade(side, stopped, qty, f)
       PROVE  Promised!Next
  <2>1. pc = "signal" /\ pc' = "record" BY <1>14 DEF Trade
  <2>2. ~setup.gridMode BY <2>1 DEF Types, GridPlaces
  <2>3. WholeAverages BY <2>1 DEF vars, replayVars
  <2> QED BY <1>14, <2>2, <2>3, TradeIsPromised
<1> QED BY <1>3, <1>4, <1>5, <1>7, <1>8, <1>9, <1>10, <1>12, <1>13, <1>14
     DEF Next, GridStep, SimpleStep, Directions

LEMMA InitIsPromised ==
  ASSUME Init
  PROVE  Promised!Init /\ Ordinary
<1>1. DOMAIN trades = {} /\ DOMAIN pending = {} BY DEF Init
<1>2. /\ DOMAIN [i \in DOMAIN trades |-> Sign(trades[i].side) * trades[i].qty * trades[i].open] = {}
      /\ DOMAIN [i \in DOMAIN trades |-> Sign(trades[i].side) * trades[i].qty] = {}
  BY <1>1
<1>3. /\ SumFunction([i \in DOMAIN trades |->
                        Sign(trades[i].side) * trades[i].qty * trades[i].open]) = 0
      /\ SumFunction([i \in DOMAIN trades |-> Sign(trades[i].side) * trades[i].qty]) = 0
  BY <1>2, SumOfNone
<1>4. position.qty = 0 /\ position.cost = 0 /\ capital = InitialCapital /\ InitialCapital \in Int
      /\ bar \in Bars
  BY BacktestConstants DEF Init, NoPosition
<1>5. position.qty * position.cost = 0 BY <1>4
<1>6. Cash = InitialCapital /\ Net = 0 BY <1>3, <1>4, <1>5 DEF Cash, Net
<1>7. Ordinary BY <1>1 DEF Ordinary
<1> QED BY <1>4, <1>6, <1>7 DEF Promised!Init

\* The replays of the command line show an account that knows only fills, each paid once and in
\* full at a price the bar could have offered: for every strategy, any bars, prices and frictions
\* among which the averages of a simple replay are whole.
THEOREM ImplementsAccountCorrect ==
  ASSUME Setups \subseteq CommandLine
  PROVE  Spec /\ [][WholeAverages]_vars => ImplementsAccount
<1> DEFINE SameMode == setup.stateful <=> setup.gridMode
<1>1. Init => Types /\ Follow /\ Ordinary /\ SameMode /\ Promised!Init
  <2>1. Init => SameMode BY DEF Init, CommandLine
  <2> QED BY <2>1, InitFollows, InitIsPromised
<1>2. Types /\ Follow /\ Ordinary /\ SameMode /\ [Next]_vars
          => (Types /\ Follow /\ Ordinary /\ SameMode)'
  BY StepKeepsTypes, StepKeepsFollow, StepKeepsOrdinary, SetupStays
<1>3. Types /\ Follow /\ Ordinary /\ SameMode /\ [Next]_vars /\ [WholeAverages]_vars
        => [Promised!Next]_(Promised!vars)
  BY StepIsPromised
<1> HIDE DEF SameMode
<1> QED BY <1>1, <1>2, <1>3, PTL DEF Spec, ImplementsAccount, Promised!Spec

-----------------------------------------------------------------------------
(***************************************************************************)
(* Walk-forward validation: windows, ranking and chained curves.           *)
(***************************************************************************)
LEMMA OffsetsAreApart ==
  ASSUME NEW train \in Nat, NEW test \in Nat, NEW i \in Nat, NEW j \in Nat, i < j
  PROVE  Offset(i, train, test) + WindowSize(train, test) <= Offset(j, train, test)
<1> DEFINE size == WindowSize(train, test)
<1>1. size \in Nat BY DEF WindowSize
<1>2. j = (i + 1) + (j - i - 1) /\ j - i - 1 \in Nat OBVIOUS
<1> DEFINE d == j - i - 1
<1>3. j * size = (i + 1) * size + d * size
  <2>1. d \in Nat /\ j = (i + 1) + d BY <1>2
  <2> HIDE DEF d, size
  <2> QED BY <2>1, <1>1
<1>4. d * size >= 0
  <2>1. d \in Nat BY <1>2
  <2> HIDE DEF d, size
  <2> QED BY <2>1, <1>1
<1>5. (i + 1) * size = i * size + size
  <2> HIDE DEF size
  <2> QED BY <1>1
<1>6. i * size \in Int /\ j * size \in Int /\ d * size \in Int
  <2>1. d \in Nat BY <1>2
  <2> HIDE DEF d, size
  <2> QED BY <2>1, <1>1
<1> HIDE DEF d, size
<1>7. i * size + size <= j * size BY <1>1, <1>3, <1>4, <1>5, <1>6
<1> QED BY <1>7 DEF Offset, size

\* Parameters are tested "on unseen test data" (the module's docstring): no bar a
\* window is tested on is among those its parameters, or those of a window before,
\* were chosen on, and no two windows are tested on one bar.
THEOREM TestsAreUnseen ==
  ASSUME NEW bars \in Nat, NEW train \in Nat, NEW test \in Nat \ {0},
         NEW i \in Windows(bars, train, test), NEW j \in Windows(bars, train, test)
  PROVE  /\ i <= j => TrainSlice(i, train, test) \cap TestSlice(j, train, test) = {}
         /\ i # j => TestSlice(i, train, test) \cap TestSlice(j, train, test) = {}
<1>1. i \in Nat /\ j \in Nat BY DEF Windows
<1>2. Offset(i, train, test) \in Int /\ Offset(j, train, test) \in Int
  <2>1. WindowSize(train, test) \in Nat BY DEF WindowSize
  <2> QED BY <1>1, <2>1 DEF Offset
<1>3. i < j => Offset(i, train, test) + WindowSize(train, test) <= Offset(j, train, test)
  BY <1>1, OffsetsAreApart
<1>4. j < i => Offset(j, train, test) + WindowSize(train, test) <= Offset(i, train, test)
  BY <1>1, OffsetsAreApart
<1>5. CASE i = j BY <1>5, <1>2 DEF TrainSlice, TestSlice, WindowSize
<1>6. CASE i < j BY <1>6, <1>1, <1>2, <1>3 DEF TrainSlice, TestSlice, WindowSize
<1>7. CASE j < i BY <1>7, <1>1, <1>2, <1>4 DEF TrainSlice, TestSlice, WindowSize
<1> QED BY <1>1, <1>5, <1>6, <1>7

\* "Such combos are kept (for inspection) but ranked below all qualifying ones"
\* (ParameterSweep.run): parameters that made few trades, or never lost, are tested
\* only if no combination qualifies; and the winner has the best metric of its kind.
THEOREM WinnersQualify ==
  ASSUME NEW results, NEW minTrades \in Nat,
         results \subseteq [trades : Nat, finite : BOOLEAN, metric : Int],
         NEW r \in Winners(results, minTrades), NEW s \in results,
         Qualifies(s, minTrades)
  PROVE  Qualifies(r, minTrades) /\ s.metric <= r.metric
<1>1. r \in results /\ ~RanksBelow(r, s, minTrades) BY DEF Winners
<1>2. Qualifies(r, minTrades) BY <1>1 DEF RanksBelow
<1>3. ~(r.metric < s.metric) BY <1>1, <1>2 DEF RanksBelow, Qualifies
<1>4. r.metric \in Int /\ s.metric \in Int BY <1>1
<1> QED BY <1>2, <1>3, <1>4

\* "each scaled to start where the prior left off" (_aggregate_test_metrics): the
\* chained curve is continuous at the end of a window exactly if that window made
\* nothing, or those before it made nothing together.  So it is at the first one, and
\* has a jump at the end of any other that moves an account already moved.
THEOREM CurveIsContinuousExactlyIf ==
  ASSUME NEW initial \in Nat \ {0}, NEW running \in Int, NEW pnl \in Int
  PROVE  Meets(initial, running, pnl) <=> pnl = 0 \/ running = initial
<1>1. ScaledEnd(initial, running, pnl) = running * initial + running * pnl
  BY DEF ScaledEnd
<1>2. NextRunning(running, pnl) * initial = running * initial + initial * pnl
  BY DEF NextRunning
<1>3. Meets(initial, running, pnl) <=> running * pnl = initial * pnl
  <2>1. running * initial \in Int /\ running * pnl \in Int /\ initial * pnl \in Int OBVIOUS
  <2> QED BY <1>1, <1>2, <2>1 DEF Meets
<1>4. running * pnl = initial * pnl <=> (running - initial) * pnl = 0
  <2>1. (running - initial) * pnl = running * pnl - initial * pnl OBVIOUS
  <2>2. running * pnl \in Int /\ initial * pnl \in Int OBVIOUS
  <2> QED BY <2>1, <2>2
<1>5. (running - initial) * pnl = 0 <=> running - initial = 0 \/ pnl = 0 OBVIOUS
<1> QED BY <1>3, <1>4, <1>5
=============================================================================

--------------------------- MODULE CloseAll_proof ---------------------------
(***************************************************************************)
(* Theorems about the close-all protocol, for every set of entries and     *)
(* every retry and balance-failure limit.                                  *)
(***************************************************************************)
EXTENDS CloseAll, TLAPS

USE DEF brokerVars, strategyVars, retryVars, attemptVars

(***************************************************************************)
(* The failure count stays within its type only because no attempt starts  *)
(* at the limit, so the type invariant and the circuit breaker are one     *)
(* induction.                                                              *)
(***************************************************************************)
TypeInv == TypeOK /\ BreakerHolds

LEMMA TypeInit == Init => TypeInv
  <1> SUFFICES ASSUME Init PROVE TypeInv
    OBVIOUS
  <1>1. CountersOK
    BY CloseAllConstants DEF CloseAllConstants, Init, CountersOK
  <1>2. QED
    BY <1>1 DEF Init, TypeInv, TypeOK, BreakerHolds, Attempting

LEMMA TypeStep == TypeInv /\ [Next]_vars => TypeInv'
  <1> SUFFICES ASSUME TypeInv, [Next]_vars PROVE TypeInv'
    OBVIOUS
  <1> USE DEF TypeInv, TypeOK, CountersOK, BreakerHolds, Attempting
  <1>1. ASSUME NEW e \in Entry, BrokerFill(e) PROVE TypeInv'
    BY <1>1 DEF BrokerFill
  <1>2. ASSUME NEW e \in Entry, BrokerStopOut(e) PROVE TypeInv'
    BY <1>2 DEF BrokerStopOut
  <1>3. CASE LoopTop
    BY <1>3 DEF LoopTop
  <1>4. CASE NoCycle
    BY <1>4 DEF NoCycle
  <1>5. CASE BalanceReadFails
    <2>1. CountersOK'
      BY <1>5, CloseAllConstants DEF BalanceReadFails, CancelAll, CloseAllConstants, CountersOK
    <2>2. QED
      BY <1>5, <2>1 DEF BalanceReadFails, CancelAll
  <1>6. CASE ReEmitFlat
    <2>1. CountersOK'
      BY <1>6, CloseAllConstants DEF ReEmitFlat, RollOver, CloseAllConstants, CountersOK
    <2>2. QED
      BY <1>6, <2>1 DEF ReEmitFlat, RollOver
  <1>7. CASE Paused
    <2>1. CountersOK'
      BY <1>7, CloseAllConstants DEF Paused, CloseAllConstants, CountersOK
    <2>2. QED
      BY <1>7, <2>1 DEF Paused
  <1>8. CASE PauseFlat
    <2>1. CountersOK'
      BY <1>8, CloseAllConstants DEF PauseFlat, CloseAllConstants, CountersOK
    <2>2. QED
      BY <1>8, <2>1 DEF PauseFlat
  <1>9. CASE Generate
    <2>1. CountersOK'
      BY <1>9, CloseAllConstants DEF Generate, CloseAllConstants, CountersOK
    <2>2. QED
      BY <1>9, <2>1 DEF Generate
  <1>10. ASSUME NEW e \in Entry, ProcessEntry(e) PROVE TypeInv'
    BY <1>10 DEF ProcessEntry
  <1>11. CASE CycleError
    BY <1>11 DEF CycleError
  <1>12. CASE CycleDone
    BY <1>12 DEF CycleDone
  <1>13. CASE CircuitBreaker
    BY <1>13 DEF CircuitBreaker, AtFlatSignal
  <1>14. CASE BackOff
    BY <1>14 DEF BackOff, AtFlatSignal
  <1>15. CASE CancelOrders
    BY <1>15 DEF CancelOrders, AtFlatSignal, CancelAll
  <1>16. CASE FetchNone
    <2>1. CountersOK'
      BY <1>16, CloseAllConstants DEF FetchNone, Complete, CloseAllConstants, CountersOK
    <2>2. QED
      BY <1>16, <2>1 DEF FetchNone, Complete
  <1>17. CASE FetchSome
    BY <1>17 DEF FetchSome
  <1>18. CASE FetchRaises
    BY <1>18 DEF FetchRaises
  <1>19. ASSUME NEW e \in Entry, CloseOne(e) PROVE TypeInv'
    BY <1>19 DEF CloseOne
  <1>20. ASSUME NEW e \in Entry, CloseOneFails(e) PROVE TypeInv'
    BY <1>20 DEF CloseOneFails
  <1>21. CASE AttemptFails
    BY <1>21, CloseAllConstants DEF AttemptFails, CloseAllConstants
  <1>22. CASE AttemptCloses
    BY <1>22 DEF AttemptCloses
  <1>23. CASE VerifyFlat
    BY <1>23 DEF VerifyFlat
  <1>24. CASE VerifyResidual
    BY <1>24, CloseAllConstants DEF VerifyResidual, CloseAllConstants
  <1>25. CASE VerifyRaises
    BY <1>25 DEF VerifyRaises
  <1>26. CASE Notify
    <2>1. CountersOK'
      BY <1>26, CloseAllConstants DEF Notify, Complete, CloseAllConstants, CountersOK
    <2>2. QED
      BY <1>26, <2>1 DEF Notify, Complete
  <1>27. CASE RetryDue
    BY <1>27 DEF RetryDue
  <1>28. CASE StopFlag
    BY <1>28 DEF StopFlag
  <1>29. CASE StopCancel
    BY <1>29 DEF StopCancel, CancelAll
  <1>30. CASE UNCHANGED vars
    BY <1>30 DEF vars
  <1>31. QED
    BY <1>1, <1>2, <1>3, <1>4, <1>5, <1>6, <1>7, <1>8, <1>9, <1>10,
       <1>11, <1>12, <1>13, <1>14, <1>15, <1>16, <1>17, <1>18, <1>19,
       <1>20, <1>21, <1>22, <1>23, <1>24, <1>25, <1>26, <1>27, <1>28,
       <1>29, <1>30
    DEF Next, BrokerNext, CycleNext, CloseAllNext, StopNext

\* Every reachable state is well typed.
THEOREM TypeCorrect == Spec => []TypeOK
  <1>1. TypeInv => TypeOK
    BY DEF TypeInv
  <1>2. QED
    BY <1>1, TypeInit, TypeStep, PTL DEF Spec

\* The circuit breaker: whatever the broker answers, no liquidation is
\* attempted after MaxRetries failures in a row.
THEOREM BreakerCorrect == Spec => []BreakerHolds
  <1>1. TypeInv => BreakerHolds
    BY DEF TypeInv
  <1>2. QED
    BY <1>1, TypeInit, TypeStep, PTL DEF Spec
-----------------------------------------------------------------------------
(***************************************************************************)
(* The hand-over is flat.  The argument follows one attempt.  Once the     *)
(* cancel has succeeded nothing rests, so nothing can fill; the snapshot   *)
(* then bounds the open trades, the closes shrink it, and a clean pass     *)
(* leaves none.  Entry signals are in flight only inside a session.        *)
(***************************************************************************)
SignalsInSession ==
  /\ pc # "signals" => signals = {}
  /\ signals # {} => anchored /\ (sessionActive \/ closing)

LiquidationHasGrid == (Attempting => closing) /\ (closing => anchored)

AttemptShrinks ==
  cancelsWork =>
    /\ Attempting => orders = {}
    /\ pc = "close" /\ ~anyFailed => trades \subseteq toClose
    /\ pc = "notify" => trades = {}

FlatInv ==
  /\ SignalsInSession
  /\ LiquidationHasGrid
  /\ AttemptShrinks
  /\ FlatWithoutSession

LEMMA FlatInit == Init => FlatInv
  BY DEF Init, FlatInv, SignalsInSession, LiquidationHasGrid, AttemptShrinks,
         FlatWithoutSession, Attempting, Exposure

LEMMA FlatStep == TypeOK /\ FlatInv /\ [Next]_vars => FlatInv'
  <1> SUFFICES ASSUME TypeOK, FlatInv, [Next]_vars PROVE FlatInv'
    OBVIOUS
  <1> USE DEF TypeOK, CountersOK, FlatInv, SignalsInSession, LiquidationHasGrid,
          AttemptShrinks, FlatWithoutSession, Attempting, Exposure
  <1>1. ASSUME NEW e \in Entry, BrokerFill(e) PROVE FlatInv'
    BY <1>1 DEF BrokerFill
  <1>2. ASSUME NEW e \in Entry, BrokerStopOut(e) PROVE FlatInv'
    BY <1>2 DEF BrokerStopOut
  <1>3. CASE LoopTop
    BY <1>3 DEF LoopTop
  <1>4. CASE NoCycle
    BY <1>4 DEF NoCycle
  <1>5. CASE BalanceReadFails
    BY <1>5 DEF BalanceReadFails, CancelAll
  <1>6. CASE ReEmitFlat
    BY <1>6 DEF ReEmitFlat, RollOver
  <1>7. CASE Paused
    BY <1>7 DEF Paused
  <1>8. CASE PauseFlat
    BY <1>8 DEF PauseFlat
  <1>9. CASE Generate
    BY <1>9 DEF Generate
  <1>10. ASSUME NEW e \in Entry, ProcessEntry(e) PROVE FlatInv'
    BY <1>10 DEF ProcessEntry
  <1>11. CASE CycleError
    BY <1>11 DEF CycleError
  <1>12. CASE CycleDone
    BY <1>12 DEF CycleDone
  <1>13. CASE CircuitBreaker
    BY <1>13 DEF CircuitBreaker, AtFlatSignal
  <1>14. CASE BackOff
    BY <1>14 DEF BackOff, AtFlatSignal
  <1>15. CASE CancelOrders
    BY <1>15 DEF CancelOrders, AtFlatSignal, CancelAll
  <1>16. CASE FetchNone
    BY <1>16 DEF FetchNone, Complete
  <1>17. CASE FetchSome
    BY <1>17 DEF FetchSome
  <1>18. CASE FetchRaises
    BY <1>18 DEF FetchRaises
  <1>19. ASSUME NEW e \in Entry, CloseOne(e) PROVE FlatInv'
    BY <1>19 DEF CloseOne
  <1>20. ASSUME NEW e \in Entry, CloseOneFails(e) PROVE FlatInv'
    BY <1>20 DEF CloseOneFails
  <1>21. CASE AttemptFails
    BY <1>21 DEF AttemptFails
  <1>22. CASE AttemptCloses
    BY <1>22 DEF AttemptCloses
  <1>23. CASE VerifyFlat
    BY <1>23 DEF VerifyFlat
  <1>24. CASE VerifyResidual
    BY <1>24 DEF VerifyResidual
  <1>25. CASE VerifyRaises
    BY <1>25 DEF VerifyRaises
  <1>26. CASE Notify
    BY <1>26 DEF Notify, Complete
  <1>27. CASE RetryDue
    BY <1>27 DEF RetryDue
  <1>28. CASE StopFlag
    BY <1>28 DEF StopFlag
  <1>29. CASE StopCancel
    BY <1>29 DEF StopCancel, CancelAll
  <1>30. CASE UNCHANGED vars
    BY <1>30 DEF vars
  <1>31. QED
    BY <1>1, <1>2, <1>3, <1>4, <1>5, <1>6, <1>7, <1>8, <1>9, <1>10,
       <1>11, <1>12, <1>13, <1>14, <1>15, <1>16, <1>17, <1>18, <1>19,
       <1>20, <1>21, <1>22, <1>23, <1>24, <1>25, <1>26, <1>27, <1>28,
       <1>29, <1>30
    DEF Next, BrokerNext, CycleNext, CloseAllNext, StopNext

LEMMA FlatInvariant == Spec => []FlatInv
  BY FlatInit, FlatStep, TypeCorrect, PTL DEF Spec

\* When cancel_all_orders does cancel everything, no order and no trade of the
\* bot outlives its session, whatever closes, reads and stop() do.
THEOREM FlatCorrect == Spec => []FlatWithoutSession
  <1>1. FlatInv => FlatWithoutSession
    BY DEF FlatInv
  <1>2. QED
    BY <1>1, FlatInvariant, PTL
-----------------------------------------------------------------------------
(***************************************************************************)
(* The refinement.  While the abstract mode is "trading" any change of the *)
(* exposure is allowed, so only the liquidating steps carry the argument.  *)
(***************************************************************************)
LEMMA ImplInit == Init => Abstract!Init
  BY DEF Init, Abstract!Init, mode, exposure, Exposure

LEMMA ImplStep ==
  TypeOK /\ FlatInv /\ [Next]_vars => [Abstract!Next]_(Abstract!vars)
  <1> SUFFICES ASSUME TypeOK, FlatInv, [Next]_vars
               PROVE  [Abstract!Next]_(Abstract!vars)
    OBVIOUS
  <1> USE DEF TypeOK, FlatInv, SignalsInSession, LiquidationHasGrid,
          AttemptShrinks, Attempting, Exposure, exposure, mode, Abstract!vars,
          Abstract!Next, Abstract!Trade, Abstract!Shrink, Abstract!HandOver
  <1>1. ASSUME NEW e \in Entry, BrokerFill(e) PROVE [Abstract!Next]_(Abstract!vars)
    BY <1>1 DEF BrokerFill
  <1>2. ASSUME NEW e \in Entry, BrokerStopOut(e) PROVE [Abstract!Next]_(Abstract!vars)
    BY <1>2 DEF BrokerStopOut
  <1>3. CASE LoopTop
    BY <1>3 DEF LoopTop
  <1>4. CASE NoCycle
    BY <1>4 DEF NoCycle
  <1>5. CASE BalanceReadFails
    BY <1>5 DEF BalanceReadFails, CancelAll
  <1>6. CASE ReEmitFlat
    BY <1>6 DEF ReEmitFlat, RollOver
  <1>7. CASE Paused
    BY <1>7 DEF Paused
  <1>8. CASE PauseFlat
    BY <1>8 DEF PauseFlat
  <1>9. CASE Generate
    BY <1>9 DEF Generate
  <1>10. ASSUME NEW e \in Entry, ProcessEntry(e) PROVE [Abstract!Next]_(Abstract!vars)
    BY <1>10 DEF ProcessEntry
  <1>11. CASE CycleError
    BY <1>11 DEF CycleError
  <1>12. CASE CycleDone
    BY <1>12 DEF CycleDone
  <1>13. CASE CircuitBreaker
    BY <1>13 DEF CircuitBreaker, AtFlatSignal
  <1>14. CASE BackOff
    BY <1>14 DEF BackOff, AtFlatSignal
  <1>15. CASE CancelOrders
    BY <1>15 DEF CancelOrders, AtFlatSignal, CancelAll
  <1>16. CASE FetchNone
    BY <1>16 DEF FetchNone, Complete
  <1>17. CASE FetchSome
    BY <1>17 DEF FetchSome
  <1>18. CASE FetchRaises
    BY <1>18 DEF FetchRaises
  <1>19. ASSUME NEW e \in Entry, CloseOne(e) PROVE [Abstract!Next]_(Abstract!vars)
    BY <1>19 DEF CloseOne
  <1>20. ASSUME NEW e \in Entry, CloseOneFails(e) PROVE [Abstract!Next]_(Abstract!vars)
    BY <1>20 DEF CloseOneFails
  <1>21. CASE AttemptFails
    BY <1>21 DEF AttemptFails
  <1>22. CASE AttemptCloses
    BY <1>22 DEF AttemptCloses
  <1>23. CASE VerifyFlat
    BY <1>23 DEF VerifyFlat
  <1>24. CASE VerifyResidual
    BY <1>24 DEF VerifyResidual
  <1>25. CASE VerifyRaises
    BY <1>25 DEF VerifyRaises
  <1>26. CASE Notify
    BY <1>26 DEF Notify, Complete
  <1>27. CASE RetryDue
    BY <1>27 DEF RetryDue
  <1>28. CASE StopFlag
    BY <1>28 DEF StopFlag
  <1>29. CASE StopCancel
    BY <1>29 DEF StopCancel, CancelAll
  <1>30. CASE UNCHANGED vars
    BY <1>30 DEF vars
  <1>31. QED
    BY <1>1, <1>2, <1>3, <1>4, <1>5, <1>6, <1>7, <1>8, <1>9, <1>10,
       <1>11, <1>12, <1>13, <1>14, <1>15, <1>16, <1>17, <1>18, <1>19,
       <1>20, <1>21, <1>22, <1>23, <1>24, <1>25, <1>26, <1>27, <1>28,
       <1>29, <1>30
    DEF Next, BrokerNext, CycleNext, CloseAllNext, StopNext

\* When cancel_all_orders does cancel everything, the engine's close-all
\* implements the abstract liquidation: the holdings only shrink until they are
\* empty, and only then is the session handed over.
THEOREM LiquidationRefined == Spec => ImplementsLiquidation
  BY ImplInit, ImplStep, TypeCorrect, FlatInvariant, PTL
  DEF Spec, ImplementsLiquidation, Abstract!Spec
=============================================================================

------------------------- MODULE BotLifecycle_proof -------------------------
(***************************************************************************)
(* For any number of users, request threads and workers: no registered     *)
(* session is left without a runner, and no broker connection is leaked.   *)
(***************************************************************************)
EXTENDS BotLifecycle, TLAPS

\* The parts of TypeOK a step may disturb.
RegistryTyped == sessions \in [Users -> 0 .. MaxSessions] /\ created \in 0 .. MaxSessions
EnginesTyped ==
  /\ connected \subseteq Sessions /\ running \subseteq Sessions
  /\ cycles \in [Sessions -> 0 .. SummaryInterval - 1]
LocalsTyped ==
  /\ pc \in [Threads -> RequestSteps \cup WorkerSteps]
  /\ who \in [Threads -> Users \cup {0}]
  /\ mine \in [Threads -> 0 .. MaxSessions]
  /\ popped \in [Threads -> 0 .. MaxSessions]

\* What a thread's local variables say about where it is.
ThreadsOK ==
  /\ \A r \in Requests : pc[r] \in RequestSteps
  /\ \A w \in Workers : pc[w] \in WorkerSteps
  /\ \A t \in Requests \cup Workers : pc[t] # "idle" => who[t] \in Users
  /\ \A w \in Workers : pc[w] \in {"start", "seed", "loop", "finally", "cleanup"}
       => mine[w] # 0

IInv == TypeOK /\ ThreadsOK

\* The steps, one disjunct per action.
LEMMA NextCases ==
  ASSUME Next
  PROVE  \/ \E r \in Requests, u \in Users : CreateEngine(r, u)
         \/ \E r \in Requests, u \in Users : RequestStop(r, u)
         \/ \E r \in Requests : Register(r)
         \/ \E r \in Requests : Submit(r)
         \/ \E t \in Threads : SignalStop(t)
         \/ \E t \in Threads : Disconnect(t)
         \/ \E w \in Workers : Take(w)
         \/ \E w \in Workers : GetSession(w)
         \/ \E w \in Workers : RunStart(w)
         \/ \E w \in Workers : Seed(w)
         \/ \E w \in Workers : LoopCycle(w)
         \/ \E w \in Workers : LoopSummary(w)
         \/ \E w \in Workers : LoopHalt(w)
         \/ \E w \in Workers : LoopExit(w)
         \/ \E w \in Workers : CheckCurrent(w)
         \/ \E w \in Workers : CleanUp(w)
         \/ BeginShutdown
         \/ \E u \in Users : StopNext(u)
         \/ AllStopped
         \/ PoolDown
  BY DEF Next, RequestStep, RunnerStep, MainStep, StopStep, Threads

LEMMA InvInit == Init => IInv
  BY BotLifecycleConstants
     DEF BotLifecycleConstants, Init, IInv, TypeOK, ThreadsOK, Sessions, Threads,
         RequestSteps, WorkerSteps

\* A thread that finishes keeps the types of the threads' variables.
LEMMA FinishTyped ==
  ASSUME TypeOK, NEW t \in Threads, Finish(t)
  PROVE  LocalsTyped'
  <1>1. 0 \in 0 .. MaxSessions
    BY BotLifecycleConstants DEF BotLifecycleConstants
  <1>2. (pc \in [Threads -> RequestSteps \cup WorkerSteps])'
    BY DEF Finish, TypeOK, RequestSteps
  <1>3. QED
    BY <1>1, <1>2 DEF Finish, TypeOK, LocalsTyped

\* ... and so does one that pops a session.
LEMMA PopTyped ==
  ASSUME TypeOK, NEW t \in Threads, NEW u \in Users, Pop(t, u), UNCHANGED who
  PROVE  LocalsTyped'
  <1>1. sessions[u] \in 0 .. MaxSessions
    BY DEF TypeOK
  <1>2. (pc \in [Threads -> RequestSteps \cup WorkerSteps])'
    BY DEF Pop, TypeOK, RequestSteps
  <1>3. QED
    BY <1>1, <1>2 DEF Pop, TypeOK, LocalsTyped

LEMMA InvStep ==
  ASSUME IInv, [Next]_vars
  PROVE  IInv'
  <1> USE BotLifecycleConstants DEF BotLifecycleConstants, IInv, managerVars, engineVars, appVars,
        localVars, threadVars, Goto, Finish, RequestSteps, WorkerSteps, Sessions,
        RegistryTyped, EnginesTyped, LocalsTyped
  <1>1. ASSUME NEW r \in Requests, NEW u \in Users, CreateEngine(r, u) PROVE IInv'
    <2>1. r \in Threads
      BY DEF Threads
    <2>2. RegistryTyped'
      BY <1>1, <2>1 DEF CreateEngine, TypeOK
    <2>3. EnginesTyped'
      BY <1>1, <2>1 DEF CreateEngine, TypeOK
    <2>4. LocalsTyped'
      BY <1>1, <2>1 DEF CreateEngine, TypeOK
    <2>5. TypeOK'
      BY <1>1, <2>2, <2>3, <2>4 DEF CreateEngine, TypeOK
    <2>6. ThreadsOK'
      BY <1>1, <2>1 DEF CreateEngine, TypeOK, ThreadsOK, Threads
    <2>7. QED
      BY <2>5, <2>6
  <1>2. ASSUME NEW r \in Requests, NEW u \in Users, RequestStop(r, u) PROVE IInv'
    <2>1. r \in Threads
      BY DEF Threads
    <2>2. RegistryTyped'
      BY <1>2, <2>1 DEF RequestStop, Pop, TypeOK
    <2>3. LocalsTyped'
      BY <1>2, <2>1 DEF RequestStop, Pop, TypeOK
    <2>4. TypeOK'
      BY <1>2, <2>2, <2>3 DEF RequestStop, Pop, TypeOK
    <2>5. ThreadsOK'
      BY <1>2, <2>1 DEF RequestStop, Pop, TypeOK, ThreadsOK, Threads
    <2>6. QED
      BY <2>4, <2>5
  <1>3. ASSUME NEW r \in Requests, Register(r) PROVE IInv'
    <2>1. r \in Threads /\ who[r] \in Users \cup {0} /\ (pc[r] # "idle" => who[r] \in Users)
      BY DEF Threads, TypeOK, ThreadsOK
    <2>2. RegistryTyped'
      BY <1>3, <2>1 DEF Register, TypeOK
    <2>3. EnginesTyped'
      BY <1>3, <2>1 DEF Register, TypeOK
    <2>4. LocalsTyped'
      <3>1. CASE sessions[who[r]] = 0
        BY <1>3, <2>1, <3>1 DEF Register, TypeOK
      <3>2. CASE ~ (sessions[who[r]] = 0)
          <4>1. Finish(r)
            BY <1>3, <2>1, <3>2 DEF Register
          <4>2. QED
            BY <2>1, <4>1, FinishTyped
      <3>3. QED
        BY <3>1, <3>2
    <2>5. TypeOK'
      BY <1>3, <2>2, <2>3, <2>4 DEF Register, TypeOK
    <2>6. ThreadsOK'
      BY <1>3, <2>1 DEF Register, TypeOK, ThreadsOK, Threads
    <2>7. QED
      BY <2>5, <2>6
  <1>4. ASSUME NEW r \in Requests, Submit(r) PROVE IInv'
    <2>1. r \in Threads /\ who[r] \in Users \cup {0} /\ (pc[r] # "idle" => who[r] \in Users)
      BY DEF Threads, TypeOK, ThreadsOK
    <2>2. (queue \in Seq(Users))'
      BY <1>4, <2>1 DEF Submit, TypeOK
    <2>3. LocalsTyped'
      BY <1>4, <2>1 DEF Submit, TypeOK
    <2>4. TypeOK'
      BY <1>4, <2>2, <2>3 DEF Submit, TypeOK
    <2>5. ThreadsOK'
      BY <1>4, <2>1 DEF Submit, TypeOK, ThreadsOK, Threads
    <2>6. QED
      BY <2>4, <2>5
  <1>5. ASSUME NEW t \in Threads, SignalStop(t) PROVE IInv'
    <2>1. t \in Threads
      BY DEF Threads
    <2>2. EnginesTyped'
      BY <1>5, <2>1 DEF SignalStop, TypeOK
    <2>3. LocalsTyped'
      BY <1>5, <2>1 DEF SignalStop, TypeOK
    <2>4. TypeOK'
      BY <1>5, <2>2, <2>3 DEF SignalStop, TypeOK
    <2>5. ThreadsOK'
      BY <1>5, <2>1 DEF SignalStop, TypeOK, ThreadsOK, Threads
    <2>6. QED
      BY <2>4, <2>5
  <1>6. ASSUME NEW t \in Threads, Disconnect(t) PROVE IInv'
    <2>1. t \in Threads
      BY DEF Threads
    <2>2. EnginesTyped'
      BY <1>6, <2>1 DEF Disconnect, TypeOK
    <2>3. LocalsTyped'
      BY <1>6, <2>1 DEF Disconnect, TypeOK
    <2>4. TypeOK'
      BY <1>6, <2>2, <2>3 DEF Disconnect, TypeOK
    <2>5. ThreadsOK'
      BY <1>6, <2>1 DEF Disconnect, TypeOK, ThreadsOK, Threads
    <2>6. QED
      BY <2>4, <2>5
  <1>7. ASSUME NEW w \in Workers, Take(w) PROVE IInv'
    <2>1. w \in Threads /\ who[w] \in Users \cup {0} /\ (pc[w] # "idle" => who[w] \in Users)
      BY DEF Threads, TypeOK, ThreadsOK
    <2>2. (queue \in Seq(Users))'
      BY <1>7, <2>1 DEF Take, TypeOK
    <2>3. LocalsTyped'
      BY <1>7, <2>1 DEF Take, TypeOK
    <2>4. TypeOK'
      BY <1>7, <2>2, <2>3 DEF Take, TypeOK
    <2>5. ThreadsOK'
      BY <1>7, <2>1 DEF Take, TypeOK, ThreadsOK, Threads
    <2>6. QED
      BY <2>4, <2>5
  <1>8. ASSUME NEW w \in Workers, GetSession(w) PROVE IInv'
    <2>1. w \in Threads /\ who[w] \in Users \cup {0} /\ (pc[w] # "idle" => who[w] \in Users)
      BY DEF Threads, TypeOK, ThreadsOK
    <2>2. LocalsTyped'
      <3>1. CASE sessions[who[w]] = 0
          <4>1. Finish(w)
            BY <1>8, <2>1, <3>1 DEF GetSession
          <4>2. QED
            BY <2>1, <4>1, FinishTyped
      <3>2. CASE ~ (sessions[who[w]] = 0)
        BY <1>8, <2>1, <3>2 DEF GetSession, TypeOK
      <3>3. QED
        BY <3>1, <3>2
    <2>3. TypeOK'
      BY <1>8, <2>2 DEF GetSession, TypeOK
    <2>4. ThreadsOK'
      BY <1>8, <2>1 DEF GetSession, TypeOK, ThreadsOK, Threads
    <2>5. QED
      BY <2>3, <2>4
  <1>9. ASSUME NEW w \in Workers, RunStart(w) PROVE IInv'
    <2>1. w \in Threads /\ who[w] \in Users \cup {0} /\ (pc[w] # "idle" => who[w] \in Users)
      BY DEF Threads, TypeOK, ThreadsOK
    <2>2. EnginesTyped'
      <3>1. mine[w] \in Sessions
        BY <1>9, <2>1 DEF RunStart, TypeOK, ThreadsOK
      <3>2. (/\ connected \subseteq Sessions /\ running \subseteq Sessions)'
        BY <1>9, <2>1, <3>1 DEF RunStart, TypeOK
      <3>3. cycles' \in [Sessions -> 0 .. SummaryInterval - 1]
        BY <1>9, <2>1, <3>1 DEF RunStart, TypeOK
      <3>4. QED
        BY <3>2, <3>3
    <2>3. LocalsTyped'
      BY <1>9, <2>1 DEF RunStart, TypeOK, ThreadsOK
    <2>4. TypeOK'
      BY <1>9, <2>2, <2>3 DEF RunStart, TypeOK
    <2>5. ThreadsOK'
      BY <1>9, <2>1 DEF RunStart, TypeOK, ThreadsOK, Threads
    <2>6. QED
      BY <2>4, <2>5
  <1>10. ASSUME NEW w \in Workers, Seed(w) PROVE IInv'
    <2>1. w \in Threads /\ who[w] \in Users \cup {0} /\ (pc[w] # "idle" => who[w] \in Users)
      BY DEF Threads, TypeOK, ThreadsOK
    <2>2. EnginesTyped'
      BY <1>10, <2>1 DEF Seed, TypeOK
    <2>3. LocalsTyped'
      BY <1>10, <2>1 DEF Seed, TypeOK
    <2>4. TypeOK'
      BY <1>10, <2>2, <2>3 DEF Seed, TypeOK
    <2>5. ThreadsOK'
      BY <1>10, <2>1 DEF Seed, TypeOK, ThreadsOK, Threads
    <2>6. QED
      BY <2>4, <2>5
  <1>11. ASSUME NEW w \in Workers, LoopCycle(w) PROVE IInv'
    <2>1. w \in Threads /\ who[w] \in Users \cup {0} /\ (pc[w] # "idle" => who[w] \in Users)
      BY DEF Threads, TypeOK, ThreadsOK
    <2>2. EnginesTyped'
      <3>1. mine[w] \in Sessions
        BY <1>11, <2>1 DEF LoopCycle, TypeOK, ThreadsOK
      <3>2. (/\ connected \subseteq Sessions /\ running \subseteq Sessions)'
        BY <1>11, <2>1, <3>1 DEF LoopCycle, TypeOK
      <3>3. cycles' \in [Sessions -> 0 .. SummaryInterval - 1]
        BY <1>11, <2>1, <3>1 DEF LoopCycle, TypeOK
      <3>4. QED
        BY <3>2, <3>3
    <2>3. TypeOK'
      BY <1>11, <2>2 DEF LoopCycle, TypeOK
    <2>4. ThreadsOK'
      BY <1>11, <2>1 DEF LoopCycle, TypeOK, ThreadsOK, Threads
    <2>5. QED
      BY <2>3, <2>4
  <1>12. ASSUME NEW w \in Workers, LoopSummary(w) PROVE IInv'
    <2>1. w \in Threads /\ who[w] \in Users \cup {0} /\ (pc[w] # "idle" => who[w] \in Users)
      BY DEF Threads, TypeOK, ThreadsOK
    <2>2. EnginesTyped'
      BY <1>12, <2>1 DEF LoopSummary, TypeOK
    <2>3. LocalsTyped'
      BY <1>12, <2>1 DEF LoopSummary, TypeOK
    <2>4. TypeOK'
      BY <1>12, <2>2, <2>3 DEF LoopSummary, TypeOK
    <2>5. ThreadsOK'
      BY <1>12, <2>1 DEF LoopSummary, TypeOK, ThreadsOK, Threads
    <2>6. QED
      BY <2>4, <2>5
  <1>13. ASSUME NEW w \in Workers, LoopHalt(w) PROVE IInv'
    <2>1. w \in Threads /\ who[w] \in Users \cup {0} /\ (pc[w] # "idle" => who[w] \in Users)
      BY DEF Threads, TypeOK, ThreadsOK
    <2>2. EnginesTyped'
      BY <1>13, <2>1 DEF LoopHalt, TypeOK
    <2>3. TypeOK'
      BY <1>13, <2>2 DEF LoopHalt, TypeOK
    <2>4. ThreadsOK'
      BY <1>13, <2>1 DEF LoopHalt, TypeOK, ThreadsOK, Threads
    <2>5. QED
      BY <2>3, <2>4
  <1>14. ASSUME NEW w \in Workers, LoopExit(w) PROVE IInv'
    <2>1. w \in Threads /\ who[w] \in Users \cup {0} /\ (pc[w] # "idle" => who[w] \in Users)
      BY DEF Threads, TypeOK, ThreadsOK
    <2>2. LocalsTyped'
      BY <1>14, <2>1 DEF LoopExit, TypeOK
    <2>3. TypeOK'
      BY <1>14, <2>2 DEF LoopExit, TypeOK
    <2>4. ThreadsOK'
      BY <1>14, <2>1 DEF LoopExit, TypeOK, ThreadsOK, Threads
    <2>5. QED
      BY <2>3, <2>4
  <1>15. ASSUME NEW w \in Workers, CheckCurrent(w) PROVE IInv'
    <2>1. w \in Threads /\ who[w] \in Users \cup {0} /\ (pc[w] # "idle" => who[w] \in Users)
      BY DEF Threads, TypeOK, ThreadsOK
    <2>2. LocalsTyped'
      <3>1. CASE sessions[who[w]] = mine[w]
        BY <1>15, <2>1, <3>1 DEF CheckCurrent, TypeOK
      <3>2. CASE ~ (sessions[who[w]] = mine[w])
          <4>1. Finish(w)
            BY <1>15, <2>1, <3>2 DEF CheckCurrent
          <4>2. QED
            BY <2>1, <4>1, FinishTyped
      <3>3. QED
        BY <3>1, <3>2
    <2>3. TypeOK'
      BY <1>15, <2>2 DEF CheckCurrent, TypeOK
    <2>4. ThreadsOK'
      BY <1>15, <2>1 DEF CheckCurrent, TypeOK, ThreadsOK, Threads
    <2>5. QED
      BY <2>3, <2>4
  <1>16. ASSUME NEW w \in Workers, CleanUp(w) PROVE IInv'
    <2>1. w \in Threads /\ who[w] \in Users \cup {0} /\ (pc[w] # "idle" => who[w] \in Users)
      BY DEF Threads, TypeOK, ThreadsOK
    <2>2. RegistryTyped'
      BY <1>16, <2>1 DEF CleanUp, Pop, TypeOK
    <2>3. LocalsTyped'
      <3>1. CASE Finish(w)
          <4>1. Finish(w)
            BY <1>16, <2>1, <3>1 DEF CleanUp, Pop
          <4>2. QED
            BY <2>1, <4>1, FinishTyped
      <3>2. CASE ~ (Finish(w))
          <4>1. Pop(w, who[w]) /\ UNCHANGED who /\ who[w] \in Users
            BY <1>16, <2>1, <3>2 DEF CleanUp
          <4>2. QED
            BY <2>1, <4>1, PopTyped
      <3>3. QED
        BY <3>1, <3>2
    <2>4. TypeOK'
      BY <1>16, <2>2, <2>3 DEF CleanUp, Pop, TypeOK
    <2>5. ThreadsOK'
      BY <1>16, <2>1 DEF CleanUp, Pop, TypeOK, ThreadsOK, Threads
    <2>6. QED
      BY <2>4, <2>5
  <1>17. ASSUME BeginShutdown PROVE IInv'
    <2>1. (/\ phase \in {"up", "stopping", "waiting", "down"}
                /\ toStop \subseteq Users)'
      BY <1>17 DEF BeginShutdown, TypeOK
    <2>2. TypeOK'
      BY <1>17, <2>1 DEF BeginShutdown, TypeOK
    <2>3. ThreadsOK'
      BY <1>17 DEF BeginShutdown, TypeOK, ThreadsOK, Threads
    <2>4. QED
      BY <2>2, <2>3
  <1>18. ASSUME NEW u \in Users, StopNext(u) PROVE IInv'
    <2>1. Main \in Threads
      BY DEF Threads
    <2>2. RegistryTyped'
      <3>1. CASE sessions' = sessions
        BY <1>18, <2>1, <3>1 DEF StopNext, Pop, TypeOK
      <3>2. CASE ~ (sessions' = sessions)
        BY <1>18, <2>1, <3>2 DEF StopNext, Pop, TypeOK
      <3>3. QED
        BY <3>1, <3>2
    <2>3. LocalsTyped'
      BY <1>18, <2>1 DEF StopNext, Pop, TypeOK
    <2>4. (/\ phase \in {"up", "stopping", "waiting", "down"}
                /\ toStop \subseteq Users)'
      BY <1>18, <2>1 DEF StopNext, Pop, TypeOK
    <2>5. TypeOK'
      BY <1>18, <2>2, <2>3, <2>4 DEF StopNext, Pop, TypeOK
    <2>6. ThreadsOK'
      BY <1>18, <2>1 DEF StopNext, Pop, TypeOK, ThreadsOK, Threads
    <2>7. QED
      BY <2>5, <2>6
  <1>19. ASSUME AllStopped PROVE IInv'
    <2>1. (/\ phase \in {"up", "stopping", "waiting", "down"}
                /\ toStop \subseteq Users)'
      BY <1>19 DEF AllStopped, TypeOK
    <2>2. TypeOK'
      BY <1>19, <2>1 DEF AllStopped, TypeOK
    <2>3. ThreadsOK'
      BY <1>19 DEF AllStopped, TypeOK, ThreadsOK, Threads
    <2>4. QED
      BY <2>2, <2>3
  <1>20. ASSUME PoolDown PROVE IInv'
    <2>1. (/\ phase \in {"up", "stopping", "waiting", "down"}
                /\ toStop \subseteq Users)'
      BY <1>20 DEF PoolDown, TypeOK
    <2>2. TypeOK'
      BY <1>20, <2>1 DEF PoolDown, TypeOK
    <2>3. ThreadsOK'
      BY <1>20 DEF PoolDown, TypeOK, ThreadsOK, Threads
    <2>4. QED
      BY <2>2, <2>3
  <1>21. CASE UNCHANGED vars
    BY <1>21 DEF vars, TypeOK, ThreadsOK
  <1>22. QED
    BY NextCases, <1>1, <1>2, <1>3, <1>4, <1>5, <1>6, <1>7, <1>8, <1>9, <1>10, <1>11, <1>12, <1>13, <1>14, <1>15, <1>16, <1>17, <1>18, <1>19, <1>20, <1>21

\* The model's types are what they should be.
THEOREM TypeCorrect == Spec => []TypeOK
  <1>1. Init => IInv
    BY InvInit
  <1>2. IInv /\ [Next]_vars => IInv'
    BY InvStep
  <1>3. IInv => TypeOK
    BY DEF IInv
  <1>4. QED
    BY <1>1, <1>2, <1>3, PTL DEF Spec

\* A session keeps its runner in a step that moves no runner out of the queue.
LEMMA RunnerKept ==
  ASSUME NEW x \in Users, HasRunner(x, sessions[x]), sessions'[x] = sessions[x],
         queue' = queue,
         \A r \in Requests : pc[r] = "submit" => pc'[r] = "submit" /\ who'[r] = who[r],
         \A w \in Workers : BoundTo(w, x, sessions[x]) => BoundTo(w, x, sessions[x])'
  PROVE  HasRunner(x, sessions[x])'
  <1>1. CASE \E r \in Requests : pc[r] = "submit" /\ who[r] = x
    BY <1>1 DEF HasRunner
  <1>2. CASE \E i \in 1 .. Len(queue) : queue[i] = x
    BY <1>2 DEF HasRunner
  <1>3. CASE \E w \in Workers : BoundTo(w, x, sessions[x])
    BY <1>3 DEF HasRunner, BoundTo
  <1>4. QED
    BY <1>1, <1>2, <1>3 DEF HasRunner

LEMMA HasRunnerStep ==
  ASSUME IInv, SessionHasRunner, [Next]_vars
  PROVE  SessionHasRunner'
  <1> SUFFICES ASSUME NEW x \in Users, sessions'[x] # 0
               PROVE  HasRunner(x, sessions[x])'
    BY DEF SessionHasRunner
  <1>a. sessions[x] # 0 => HasRunner(x, sessions[x])
    BY DEF SessionHasRunner
  <1>b. /\ sessions \in [Users -> 0 .. MaxSessions] /\ queue \in Seq(Users)
        /\ DOMAIN pc = Threads /\ DOMAIN who = Threads /\ DOMAIN mine = Threads
        /\ Requests \subseteq Threads /\ Workers \subseteq Threads
        /\ Main \notin Requests \cup Workers /\ Main \in Threads
        /\ Requests \cap Workers = {}
        /\ pc = [t \in Threads |-> pc[t]] /\ who = [t \in Threads |-> who[t]]
        /\ mine = [t \in Threads |-> mine[t]]
    BY BotLifecycleConstants DEF BotLifecycleConstants, IInv, TypeOK, Threads
  <1> USE DEF managerVars, engineVars, appVars, localVars, threadVars
  <1>1. ASSUME NEW r \in Requests, NEW u \in Users, CreateEngine(r, u) PROVE HasRunner(x, sessions[x])'
    <2>1. sessions'[x] = sessions[x] /\ sessions[x] # 0 /\ queue' = queue
      BY <1>1, <1>b DEF CreateEngine, Goto, Finish
    <2>2. \A q \in Requests : pc[q] = "submit" => pc'[q] = "submit" /\ who'[q] = who[q]
      BY <1>1, <1>b DEF CreateEngine, Goto, Finish
    <2>3. \A v \in Workers : BoundTo(v, x, sessions[x]) => BoundTo(v, x, sessions[x])'
      BY <1>1, <1>b, <2>1 DEF CreateEngine, Goto, Finish, BoundTo
    <2>4. QED
      BY <1>a, <2>1, <2>2, <2>3, RunnerKept
  <1>2. ASSUME NEW r \in Requests, NEW u \in Users, RequestStop(r, u) PROVE HasRunner(x, sessions[x])'
    <2>1. sessions'[x] = sessions[x] /\ sessions[x] # 0 /\ queue' = queue
      BY <1>2, <1>b DEF RequestStop, Pop, Goto, Finish
    <2>2. \A q \in Requests : pc[q] = "submit" => pc'[q] = "submit" /\ who'[q] = who[q]
      BY <1>2, <1>b DEF RequestStop, Pop, Goto, Finish
    <2>3. \A v \in Workers : BoundTo(v, x, sessions[x]) => BoundTo(v, x, sessions[x])'
      BY <1>2, <1>b, <2>1 DEF RequestStop, Pop, Goto, Finish, BoundTo
    <2>4. QED
      BY <1>a, <2>1, <2>2, <2>3, RunnerKept
  <1>3. ASSUME NEW r \in Requests, Register(r) PROVE HasRunner(x, sessions[x])'
    <2>1. CASE sessions[who[r]] = 0 /\ x = who[r]
      <3>1. pc'[r] = "submit" /\ who'[r] = x
        BY <1>3, <1>b, <2>1 DEF Register, Goto
      <3>2. QED
        BY <3>1 DEF HasRunner
    <2>2. CASE ~ (sessions[who[r]] = 0 /\ x = who[r])
      <3>1. sessions'[x] = sessions[x] /\ queue' = queue
        BY <1>3, <1>b, <2>2 DEF Register
      <3>2. \A q \in Requests : pc[q] = "submit" => pc'[q] = "submit" /\ who'[q] = who[q]
        BY <1>3, <1>b DEF Register, Goto, Finish
      <3>3. \A w \in Workers : BoundTo(w, x, sessions[x]) => BoundTo(w, x, sessions[x])'
        BY <1>3, <1>b, <3>1 DEF Register, Goto, Finish, BoundTo
      <3>4. QED
        BY <1>a, <3>1, <3>2, <3>3, RunnerKept
    <2>3. QED
      BY <2>1, <2>2
  <1>4. ASSUME NEW r \in Requests, Submit(r) PROVE HasRunner(x, sessions[x])'
    <2>1. sessions'[x] = sessions[x] /\ HasRunner(x, sessions[x])
      BY <1>4, <1>a DEF Submit
    <2>2. who[r] \in Users
      BY <1>4 DEF Submit, IInv, ThreadsOK
    <2>3. CASE \E q \in Requests : pc[q] = "submit" /\ who[q] = x
      <3>1. PICK q \in Requests : pc[q] = "submit" /\ who[q] = x
        BY <2>3
      <3>2. CASE q = r
        <4>1. /\ Len(queue') = Len(queue) + 1 /\ queue'[Len(queue) + 1] = x
              /\ Len(queue) \in Nat
          BY <1>4, <1>b, <2>2, <3>1, <3>2 DEF Submit
        <4>2. QED
          BY <4>1 DEF HasRunner
      <3>3. CASE q # r
        BY <1>4, <1>b, <3>1, <3>3 DEF Submit, Finish, HasRunner
      <3>4. QED
        BY <3>2, <3>3
    <2>4. CASE \E i \in 1 .. Len(queue) : queue[i] = x
      <3>1. PICK i \in 1 .. Len(queue) : queue[i] = x
        BY <2>4
      <3>2. i \in 1 .. Len(queue') /\ queue'[i] = x
        BY <1>4, <1>b, <2>2, <3>1 DEF Submit
      <3>3. QED
        BY <3>2 DEF HasRunner
    <2>5. CASE \E w \in Workers : BoundTo(w, x, sessions[x])
      BY <1>4, <1>b, <2>1, <2>5 DEF Submit, Finish, HasRunner, BoundTo
    <2>6. QED
      BY <2>1, <2>3, <2>4, <2>5 DEF HasRunner
  <1>5. ASSUME NEW t \in Threads, SignalStop(t) PROVE HasRunner(x, sessions[x])'
    <2>1. sessions'[x] = sessions[x] /\ sessions[x] # 0 /\ queue' = queue
      BY <1>5, <1>b DEF SignalStop, Goto, Finish
    <2>2. \A q \in Requests : pc[q] = "submit" => pc'[q] = "submit" /\ who'[q] = who[q]
      BY <1>5, <1>b DEF SignalStop, Goto, Finish
    <2>3. \A v \in Workers : BoundTo(v, x, sessions[x]) => BoundTo(v, x, sessions[x])'
      BY <1>5, <1>b, <2>1 DEF SignalStop, Goto, Finish, BoundTo
    <2>4. QED
      BY <1>a, <2>1, <2>2, <2>3, RunnerKept
  <1>6. ASSUME NEW t \in Threads, Disconnect(t) PROVE HasRunner(x, sessions[x])'
    <2>1. sessions'[x] = sessions[x] /\ sessions[x] # 0 /\ queue' = queue
      BY <1>6, <1>b DEF Disconnect, Goto, Finish
    <2>2. \A q \in Requests : pc[q] = "submit" => pc'[q] = "submit" /\ who'[q] = who[q]
      BY <1>6, <1>b DEF Disconnect, Goto, Finish
    <2>3. \A v \in Workers : BoundTo(v, x, sessions[x]) => BoundTo(v, x, sessions[x])'
      BY <1>6, <1>b, <2>1 DEF Disconnect, Goto, Finish, BoundTo
    <2>4. QED
      BY <1>a, <2>1, <2>2, <2>3, RunnerKept
  <1>7. ASSUME NEW w \in Workers, Take(w) PROVE HasRunner(x, sessions[x])'
    <2>1. sessions'[x] = sessions[x] /\ HasRunner(x, sessions[x])
      BY <1>7, <1>a DEF Take
    <2>2. CASE \E q \in Requests : pc[q] = "submit" /\ who[q] = x
      BY <1>7, <1>b, <2>2 DEF Take, HasRunner
    <2>3. CASE \E i \in 1 .. Len(queue) : queue[i] = x
      <3>1. PICK i \in 1 .. Len(queue) : queue[i] = x
        BY <2>3
      <3>2. CASE i = 1
        <4>1. pc'[w] = "get" /\ who'[w] = x
          BY <1>7, <1>b, <3>1, <3>2 DEF Take
        <4>2. QED
          BY <4>1 DEF HasRunner, BoundTo
      <3>3. CASE i # 1
        <4>1. i - 1 \in 1 .. Len(queue') /\ queue'[i - 1] = x
          BY <1>7, <1>b, <3>1, <3>3 DEF Take
        <4>2. QED
          BY <4>1 DEF HasRunner
      <3>4. QED
        BY <3>2, <3>3
    <2>4. CASE \E v \in Workers : BoundTo(v, x, sessions[x])
      <3>1. PICK v \in Workers : BoundTo(v, x, sessions[x])
        BY <2>4
      <3>2. v # w
        BY <1>7, <3>1 DEF Take, BoundTo
      <3>3. BoundTo(v, x, sessions[x])'
        BY <1>7, <1>b, <2>1, <3>1, <3>2 DEF Take, BoundTo
      <3>4. QED
        BY <3>3 DEF HasRunner
    <2>5. QED
      BY <2>1, <2>2, <2>3, <2>4 DEF HasRunner
  <1>8. ASSUME NEW w \in Workers, GetSession(w) PROVE HasRunner(x, sessions[x])'
    <2>1. sessions'[x] = sessions[x] /\ sessions[x] # 0 /\ queue' = queue
      BY <1>8, <1>b DEF GetSession, Goto, Finish
    <2>2. \A q \in Requests : pc[q] = "submit" => pc'[q] = "submit" /\ who'[q] = who[q]
      BY <1>8, <1>b DEF GetSession, Goto, Finish
    <2>3. \A v \in Workers : BoundTo(v, x, sessions[x]) => BoundTo(v, x, sessions[x])'
      BY <1>8, <1>b, <2>1 DEF GetSession, Goto, Finish, BoundTo
    <2>4. QED
      BY <1>a, <2>1, <2>2, <2>3, RunnerKept
  <1>9. ASSUME NEW w \in Workers, RunStart(w) PROVE HasRunner(x, sessions[x])'
    <2>1. sessions'[x] = sessions[x] /\ sessions[x] # 0 /\ queue' = queue
      BY <1>9, <1>b DEF RunStart, Goto, Finish
    <2>2. \A q \in Requests : pc[q] = "submit" => pc'[q] = "submit" /\ who'[q] = who[q]
      BY <1>9, <1>b DEF RunStart, Goto, Finish
    <2>3. \A v \in Workers : BoundTo(v, x, sessions[x]) => BoundTo(v, x, sessions[x])'
      BY <1>9, <1>b, <2>1 DEF RunStart, Goto, Finish, BoundTo
    <2>4. QED
      BY <1>a, <2>1, <2>2, <2>3, RunnerKept
  <1>10. ASSUME NEW w \in Workers, Seed(w) PROVE HasRunner(x, sessions[x])'
    <2>1. sessions'[x] = sessions[x] /\ sessions[x] # 0 /\ queue' = queue
      BY <1>10, <1>b DEF Seed, Goto, Finish
    <2>2. \A q \in Requests : pc[q] = "submit" => pc'[q] = "submit" /\ who'[q] = who[q]
      BY <1>10, <1>b DEF Seed, Goto, Finish
    <2>3. \A v \in Workers : BoundTo(v, x, sessions[x]) => BoundTo(v, x, sessions[x])'
      BY <1>10, <1>b, <2>1 DEF Seed, Goto, Finish, BoundTo
    <2>4. QED
      BY <1>a, <2>1, <2>2, <2>3, RunnerKept
  <1>11. ASSUME NEW w \in Workers, LoopCycle(w) PROVE HasRunner(x, sessions[x])'
    <2>1. sessions'[x] = sessions[x] /\ sessions[x] # 0 /\ queue' = queue
      BY <1>11, <1>b DEF LoopCycle, Goto, Finish
    <2>2. \A q \in Requests : pc[q] = "submit" => pc'[q] = "submit" /\ who'[q] = who[q]
      BY <1>11, <1>b DEF LoopCycle, Goto, Finish
    <2>3. \A v \in Workers : BoundTo(v, x, sessions[x]) => BoundTo(v, x, sessions[x])'
      BY <1>11, <1>b, <2>1 DEF LoopCycle, Goto, Finish, BoundTo
    <2>4. QED
      BY <1>a, <2>1, <2>2, <2>3, RunnerKept
  <1>12. ASSUME NEW w \in Workers, LoopSummary(w) PROVE HasRunner(x, sessions[x])'
    <2>1. sessions'[x] = sessions[x] /\ sessions[x] # 0 /\ queue' = queue
      BY <1>12, <1>b DEF LoopSummary, Goto, Finish
    <2>2. \A q \in Requests : pc[q] = "submit" => pc'[q] = "submit" /\ who'[q] = who[q]
      BY <1>12, <1>b DEF LoopSummary, Goto, Finish
    <2>3. \A v \in Workers : BoundTo(v, x, sessions[x]) => BoundTo(v, x, sessions[x])'
      BY <1>12, <1>b, <2>1 DEF LoopSummary, Goto, Finish, BoundTo
    <2>4. QED
      BY <1>a, <2>1, <2>2, <2>3, RunnerKept
  <1>13. ASSUME NEW w \in Workers, LoopHalt(w) PROVE HasRunner(x, sessions[x])'
    <2>1. sessions'[x] = sessions[x] /\ sessions[x] # 0 /\ queue' = queue
      BY <1>13, <1>b DEF LoopHalt, Goto, Finish
    <2>2. \A q \in Requests : pc[q] = "submit" => pc'[q] = "submit" /\ who'[q] = who[q]
      BY <1>13, <1>b DEF LoopHalt, Goto, Finish
    <2>3. \A v \in Workers : BoundTo(v, x, sessions[x]) => BoundTo(v, x, sessions[x])'
      BY <1>13, <1>b, <2>1 DEF LoopHalt, Goto, Finish, BoundTo
    <2>4. QED
      BY <1>a, <2>1, <2>2, <2>3, RunnerKept
  <1>14. ASSUME NEW w \in Workers, LoopExit(w) PROVE HasRunner(x, sessions[x])'
    <2>1. sessions'[x] = sessions[x] /\ sessions[x] # 0 /\ queue' = queue
      BY <1>14, <1>b DEF LoopExit, Goto, Finish
    <2>2. \A q \in Requests : pc[q] = "submit" => pc'[q] = "submit" /\ who'[q] = who[q]
      BY <1>14, <1>b DEF LoopExit, Goto, Finish
    <2>3. \A v \in Workers : BoundTo(v, x, sessions[x]) => BoundTo(v, x, sessions[x])'
      BY <1>14, <1>b, <2>1 DEF LoopExit, Goto, Finish, BoundTo
    <2>4. QED
      BY <1>a, <2>1, <2>2, <2>3, RunnerKept
  <1>15. ASSUME NEW w \in Workers, CheckCurrent(w) PROVE HasRunner(x, sessions[x])'
    <2>1. sessions'[x] = sessions[x] /\ sessions[x] # 0 /\ queue' = queue
      BY <1>15, <1>b DEF CheckCurrent, Goto, Finish
    <2>2. \A q \in Requests : pc[q] = "submit" => pc'[q] = "submit" /\ who'[q] = who[q]
      BY <1>15, <1>b DEF CheckCurrent, Goto, Finish
    <2>3. \A v \in Workers : BoundTo(v, x, sessions[x]) => BoundTo(v, x, sessions[x])'
      BY <1>15, <1>b, <2>1 DEF CheckCurrent, Goto, Finish, BoundTo
    <2>4. QED
      BY <1>a, <2>1, <2>2, <2>3, RunnerKept
  <1>16. ASSUME NEW w \in Workers, CleanUp(w) PROVE HasRunner(x, sessions[x])'
    <2>1. sessions'[x] = sessions[x] /\ sessions[x] # 0 /\ queue' = queue
      BY <1>16, <1>b DEF CleanUp, Pop, Goto, Finish
    <2>2. \A q \in Requests : pc[q] = "submit" => pc'[q] = "submit" /\ who'[q] = who[q]
      BY <1>16, <1>b DEF CleanUp, Pop, Goto, Finish
    <2>3. \A v \in Workers : BoundTo(v, x, sessions[x]) => BoundTo(v, x, sessions[x])'
      BY <1>16, <1>b, <2>1 DEF CleanUp, Pop, Goto, Finish, BoundTo
    <2>4. QED
      BY <1>a, <2>1, <2>2, <2>3, RunnerKept
  <1>17. ASSUME BeginShutdown PROVE HasRunner(x, sessions[x])'
    <2>1. sessions'[x] = sessions[x] /\ sessions[x] # 0 /\ queue' = queue
      BY <1>17, <1>b DEF BeginShutdown, Goto, Finish
    <2>2. \A q \in Requests : pc[q] = "submit" => pc'[q] = "submit" /\ who'[q] = who[q]
      BY <1>17, <1>b DEF BeginShutdown, Goto, Finish
    <2>3. \A v \in Workers : BoundTo(v, x, sessions[x]) => BoundTo(v, x, sessions[x])'
      BY <1>17, <1>b, <2>1 DEF BeginShutdown, Goto, Finish, BoundTo
    <2>4. QED
      BY <1>a, <2>1, <2>2, <2>3, RunnerKept
  <1>18. ASSUME NEW u \in Users, StopNext(u) PROVE HasRunner(x, sessions[x])'
    <2>1. sessions'[x] = sessions[x] /\ sessions[x] # 0 /\ queue' = queue
      BY <1>18, <1>b DEF StopNext, Pop, Goto, Finish
    <2>2. \A q \in Requests : pc[q] = "submit" => pc'[q] = "submit" /\ who'[q] = who[q]
      BY <1>18, <1>b DEF StopNext, Pop, Goto, Finish
    <2>3. \A v \in Workers : BoundTo(v, x, sessions[x]) => BoundTo(v, x, sessions[x])'
      BY <1>18, <1>b, <2>1 DEF StopNext, Pop, Goto, Finish, BoundTo
    <2>4. QED
      BY <1>a, <2>1, <2>2, <2>3, RunnerKept
  <1>19. ASSUME AllStopped PROVE HasRunner(x, sessions[x])'
    <2>1. sessions'[x] = sessions[x] /\ sessions[x] # 0 /\ queue' = queue
      BY <1>19, <1>b DEF AllStopped, Goto, Finish
    <2>2. \A q \in Requests : pc[q] = "submit" => pc'[q] = "submit" /\ who'[q] = who[q]
      BY <1>19, <1>b DEF AllStopped, Goto, Finish
    <2>3. \A v \in Workers : BoundTo(v, x, sessions[x]) => BoundTo(v, x, sessions[x])'
      BY <1>19, <1>b, <2>1 DEF AllStopped, Goto, Finish, BoundTo
    <2>4. QED
      BY <1>a, <2>1, <2>2, <2>3, RunnerKept
  <1>20. ASSUME PoolDown PROVE HasRunner(x, sessions[x])'
    <2>1. sessions'[x] = sessions[x] /\ sessions[x] # 0 /\ queue' = queue
      BY <1>20, <1>b DEF PoolDown, Goto, Finish
    <2>2. \A q \in Requests : pc[q] = "submit" => pc'[q] = "submit" /\ who'[q] = who[q]
      BY <1>20, <1>b DEF PoolDown, Goto, Finish
    <2>3. \A v \in Workers : BoundTo(v, x, sessions[x]) => BoundTo(v, x, sessions[x])'
      BY <1>20, <1>b, <2>1 DEF PoolDown, Goto, Finish, BoundTo
    <2>4. QED
      BY <1>a, <2>1, <2>2, <2>3, RunnerKept
  <1>21. CASE UNCHANGED vars
    BY <1>21, <1>a DEF vars, HasRunner, BoundTo
  <1>22. QED
    BY NextCases, <1>1, <1>2, <1>3, <1>4, <1>5, <1>6, <1>7, <1>8, <1>9, <1>10, <1>11, <1>12, <1>13, <1>14, <1>15, <1>16, <1>17, <1>18, <1>19, <1>20, <1>21

\* No registered session is orphaned: some runner will run it or remove it.
THEOREM RunnerCorrect == Spec => []SessionHasRunner
  <1>1. Init => IInv /\ SessionHasRunner
    BY InvInit DEF Init, SessionHasRunner
  <1>2. IInv /\ SessionHasRunner /\ [Next]_vars => (IInv /\ SessionHasRunner)'
    BY InvStep, HasRunnerStep
  <1>3. QED
    BY <1>1, <1>2, PTL DEF Spec

\* In a step that opens no connection, moves no request out of "register" and
\* takes a session out of the registry only to stop it, nothing is leaked.
LEMMA LeakKept ==
  ASSUME NoLeakedConnection, connected' \subseteq connected,
         \A u \in Users : \/ sessions'[u] = sessions[u]
                          \/ sessions[u] = 0
                          \/ \E t \in Threads : pc'[t] = "signal" /\ popped'[t] = sessions[u],
         \A r \in Requests : pc[r] = "register" => pc'[r] = "register" /\ mine'[r] = mine[r],
         \A t \in Threads : pc[t] \in {"signal", "disconnect"} =>
           pc'[t] \in {"signal", "disconnect"} /\ popped'[t] = popped[t],
         0 \notin connected
  PROVE  NoLeakedConnection'
  <1> SUFFICES ASSUME NEW s \in connected'
               PROVE  \/ \E u \in Users : sessions'[u] = s
                      \/ \E r \in Requests : pc'[r] = "register" /\ mine'[r] = s
                      \/ \E t \in Threads : pc'[t] \in {"signal", "disconnect"} /\ popped'[t] = s
    BY DEF NoLeakedConnection
  <1>1. s \in connected
    OBVIOUS
  <1>2. CASE \E u \in Users : sessions[u] = s
    BY <1>1, <1>2
  <1>3. CASE \E r \in Requests : pc[r] = "register" /\ mine[r] = s
    BY <1>3
  <1>4. CASE \E t \in Threads : pc[t] \in {"signal", "disconnect"} /\ popped[t] = s
    BY <1>4
  <1>5. QED
    BY <1>1, <1>2, <1>3, <1>4 DEF NoLeakedConnection

LEMMA LeakStep ==
  ASSUME IInv, NoLeakedConnection, [Next]_vars
  PROVE  NoLeakedConnection'
  <1>b. /\ sessions \in [Users -> 0 .. MaxSessions]
        /\ Requests \subseteq Threads /\ Workers \subseteq Threads
        /\ Main \notin Requests \cup Workers /\ Main \in Threads
        /\ Requests \cap Workers = {} /\ 0 \notin connected
        /\ pc = [t \in Threads |-> pc[t]] /\ popped = [t \in Threads |-> popped[t]]
        /\ mine = [t \in Threads |-> mine[t]]
        /\ \A r \in Requests : pc[r] \in RequestSteps /\ (pc[r] # "idle" => who[r] \in Users)
    BY BotLifecycleConstants
       DEF BotLifecycleConstants, IInv, TypeOK, ThreadsOK, Threads, Sessions
  <1> USE DEF managerVars, engineVars, appVars, localVars, threadVars
  <1>1. ASSUME NEW r \in Requests, NEW u \in Users, CreateEngine(r, u) PROVE NoLeakedConnection'
    <2> SUFFICES ASSUME NEW s \in connected'
                 PROVE  \/ \E v \in Users : sessions'[v] = s
                        \/ \E q \in Requests : pc'[q] = "register" /\ mine'[q] = s
                        \/ \E t \in Threads : pc'[t] \in {"signal", "disconnect"} /\ popped'[t] = s
      BY DEF NoLeakedConnection
    <2>1. CASE s = created + 1
      BY <1>1, <1>b, <2>1 DEF CreateEngine
    <2>2. CASE s # created + 1
      <3>1. s \in connected
        BY <1>1, <2>2 DEF CreateEngine
      <3>2. \A t \in Threads : t # r => pc'[t] = pc[t] /\ mine'[t] = mine[t] /\ popped'[t] = popped[t]
        BY <1>1, <1>b DEF CreateEngine
      <3>3. pc[r] = "idle" /\ sessions' = sessions
        BY <1>1 DEF CreateEngine
      <3>4. QED
        BY <1>b, <3>1, <3>2, <3>3 DEF NoLeakedConnection
    <2>3. QED
      BY <2>1, <2>2
  <1>2. ASSUME NEW r \in Requests, NEW u \in Users, RequestStop(r, u) PROVE NoLeakedConnection'
    <2>1. connected' = connected
      BY <1>2 DEF RequestStop
    <2>2. \A y \in Users : \/ sessions'[y] = sessions[y]
                          \/ sessions[y] = 0
                          \/ \E z \in Threads : pc'[z] = "signal" /\ popped'[z] = sessions[y]
      BY <1>2, <1>b DEF RequestStop, Pop, Goto, Finish
    <2>3. \A z \in Requests : pc[z] = "register" => pc'[z] = "register" /\ mine'[z] = mine[z]
      BY <1>2, <1>b DEF RequestStop, Pop, Goto, Finish
    <2>4. \A z \in Threads : pc[z] \in {"signal", "disconnect"} =>
            pc'[z] \in {"signal", "disconnect"} /\ popped'[z] = popped[z]
      BY <1>2, <1>b DEF RequestStop, Pop, Goto, Finish
    <2>5. QED
      BY <1>b, <2>1, <2>2, <2>3, <2>4, LeakKept
  <1>3. ASSUME NEW r \in Requests, Register(r) PROVE NoLeakedConnection'
    <2> SUFFICES ASSUME NEW s \in connected'
                 PROVE  \/ \E v \in Users : sessions'[v] = s
                        \/ \E q \in Requests : pc'[q] = "register" /\ mine'[q] = s
                        \/ \E t \in Threads : pc'[t] \in {"signal", "disconnect"} /\ popped'[t] = s
      BY DEF NoLeakedConnection
    <2>1. /\ s \in connected /\ s # 0 /\ pc[r] = "register" /\ who[r] \in Users
          /\ \A t \in Threads : t # r => pc'[t] = pc[t] /\ mine'[t] = mine[t] /\ popped'[t] = popped[t]
      BY <1>3, <1>b DEF Register, Goto, Finish, RequestSteps
    <2>2. CASE \E v \in Users : sessions[v] = s
      BY <1>3, <1>b, <2>1, <2>2 DEF Register
    <2>3. CASE \E q \in Requests : pc[q] = "register" /\ mine[q] = s
      <3>1. PICK q \in Requests : pc[q] = "register" /\ mine[q] = s
        BY <2>3
      <3>2. CASE q = r
        <4>1. sessions'[who[r]] = s
          BY <1>3, <1>b, <2>1, <3>1, <3>2 DEF Register
        <4>2. QED
          BY <2>1, <4>1
      <3>3. CASE q # r
        BY <1>b, <2>1, <3>1, <3>3
      <3>4. QED
        BY <3>2, <3>3
    <2>4. CASE \E t \in Threads : pc[t] \in {"signal", "disconnect"} /\ popped[t] = s
      BY <2>1, <2>4
    <2>5. QED
      BY <2>1, <2>2, <2>3, <2>4 DEF NoLeakedConnection
  <1>4. ASSUME NEW r \in Requests, Submit(r) PROVE NoLeakedConnection'
    <2>1. connected' = connected
      BY <1>4 DEF Submit
    <2>2. sessions' = sessions
      BY <1>4 DEF Submit
    <2>3. \A z \in Requests : pc[z] = "register" => pc'[z] = "register" /\ mine'[z] = mine[z]
      BY <1>4, <1>b DEF Submit, Goto, Finish
    <2>4. \A z \in Threads : pc[z] \in {"signal", "disconnect"} =>
            pc'[z] \in {"signal", "disconnect"} /\ popped'[z] = popped[z]
      BY <1>4, <1>b DEF Submit, Goto, Finish
    <2>5. QED
      BY <1>b, <2>1, <2>2, <2>3, <2>4, LeakKept
  <1>5. ASSUME NEW t \in Threads, SignalStop(t) PROVE NoLeakedConnection'
    <2>1. connected' = connected
      BY <1>5 DEF SignalStop
    <2>2. sessions' = sessions
      BY <1>5 DEF SignalStop
    <2>3. \A z \in Requests : pc[z] = "register" => pc'[z] = "register" /\ mine'[z] = mine[z]
      BY <1>5, <1>b DEF SignalStop, Goto, Finish
    <2>4. \A z \in Threads : pc[z] \in {"signal", "disconnect"} =>
            pc'[z] \in {"signal", "disconnect"} /\ popped'[z] = popped[z]
      BY <1>5, <1>b DEF SignalStop, Goto, Finish
    <2>5. QED
      BY <1>b, <2>1, <2>2, <2>3, <2>4, LeakKept
  <1>6. ASSUME NEW t \in Threads, Disconnect(t) PROVE NoLeakedConnection'
    <2> SUFFICES ASSUME NEW s \in connected'
                 PROVE  \/ \E v \in Users : sessions'[v] = s
                        \/ \E q \in Requests : pc'[q] = "register" /\ mine'[q] = s
                        \/ \E q \in Threads : pc'[q] \in {"signal", "disconnect"} /\ popped'[q] = s
      BY DEF NoLeakedConnection
    <2>1. /\ s \in connected /\ s # popped[t] /\ sessions' = sessions /\ pc[t] = "disconnect"
          /\ \A q \in Threads : q # t => pc'[q] = pc[q] /\ mine'[q] = mine[q] /\ popped'[q] = popped[q]
      BY <1>6, <1>b DEF Disconnect, Finish
    <2>2. QED
      BY <1>b, <2>1 DEF NoLeakedConnection
  <1>7. ASSUME NEW w \in Workers, Take(w) PROVE NoLeakedConnection'
    <2>1. connected' = connected
      BY <1>7 DEF Take
    <2>2. sessions' = sessions
      BY <1>7 DEF Take
    <2>3. \A z \in Requests : pc[z] = "register" => pc'[z] = "register" /\ mine'[z] = mine[z]
      BY <1>7, <1>b DEF Take, Goto, Finish
    <2>4. \A z \in Threads : pc[z] \in {"signal", "disconnect"} =>
            pc'[z] \in {"signal", "disconnect"} /\ popped'[z] = popped[z]
      BY <1>7, <1>b DEF Take, Goto, Finish
    <2>5. QED
      BY <1>b, <2>1, <2>2, <2>3, <2>4, LeakKept
  <1>8. ASSUME NEW w \in Workers, GetSession(w) PROVE NoLeakedConnection'
    <2>1. connected' = connected
      BY <1>8 DEF GetSession
    <2>2. sessions' = sessions
      BY <1>8 DEF GetSession
    <2>3. \A z \in Requests : pc[z] = "register" => pc'[z] = "register" /\ mine'[z] = mine[z]
      BY <1>8, <1>b DEF GetSession, Goto, Finish
    <2>4. \A z \in Threads : pc[z] \in {"signal", "disconnect"} =>
            pc'[z] \in {"signal", "disconnect"} /\ popped'[z] = popped[z]
      BY <1>8, <1>b DEF GetSession, Goto, Finish
    <2>5. QED
      BY <1>b, <2>1, <2>2, <2>3, <2>4, LeakKept
  <1>9. ASSUME NEW w \in Workers, RunStart(w) PROVE NoLeakedConnection'
    <2>1. connected' = connected
      BY <1>9 DEF RunStart
    <2>2. sessions' = sessions
      BY <1>9 DEF RunStart
    <2>3. \A z \in Requests : pc[z] = "register" => pc'[z] = "register" /\ mine'[z] = mine[z]
      BY <1>9, <1>b DEF RunStart, Goto, Finish
    <2>4. \A z \in Threads : pc[z] \in {"signal", "disconnect"} =>
            pc'[z] \in {"signal", "disconnect"} /\ popped'[z] = popped[z]
      BY <1>9, <1>b DEF RunStart, Goto, Finish
    <2>5. QED
      BY <1>b, <2>1, <2>2, <2>3, <2>4, LeakKept
  <1>10. ASSUME NEW w \in Workers, Seed(w) PROVE NoLeakedConnection'
    <2>1. connected' = connected
      BY <1>10 DEF Seed
    <2>2. sessions' = sessions
      BY <1>10 DEF Seed
    <2>3. \A z \in Requests : pc[z] = "register" => pc'[z] = "register" /\ mine'[z] = mine[z]
      BY <1>10, <1>b DEF Seed, Goto, Finish
    <2>4. \A z \in Threads : pc[z] \in {"signal", "disconnect"} =>
            pc'[z] \in {"signal", "disconnect"} /\ popped'[z] = popped[z]
      BY <1>10, <1>b DEF Seed, Goto, Finish
    <2>5. QED
      BY <1>b, <2>1, <2>2, <2>3, <2>4, LeakKept
  <1>11. ASSUME NEW w \in Workers, LoopCycle(w) PROVE NoLeakedConnection'
    <2>1. connected' = connected
      BY <1>11 DEF LoopCycle
    <2>2. sessions' = sessions
      BY <1>11 DEF LoopCycle
    <2>3. \A z \in Requests : pc[z] = "register" => pc'[z] = "register" /\ mine'[z] = mine[z]
      BY <1>11, <1>b DEF LoopCycle, Goto, Finish
    <2>4. \A z \in Threads : pc[z] \in {"signal", "disconnect"} =>
            pc'[z] \in {"signal", "disconnect"} /\ popped'[z] = popped[z]
      BY <1>11, <1>b DEF LoopCycle, Goto, Finish
    <2>5. QED
      BY <1>b, <2>1, <2>2, <2>3, <2>4, LeakKept
  <1>12. ASSUME NEW w \in Workers, LoopSummary(w) PROVE NoLeakedConnection'
    <2>1. connected' = connected
      BY <1>12 DEF LoopSummary
    <2>2. sessions' = sessions
      BY <1>12 DEF LoopSummary
    <2>3. \A z \in Requests : pc[z] = "register" => pc'[z] = "register" /\ mine'[z] = mine[z]
      BY <1>12, <1>b DEF LoopSummary, Goto, Finish
    <2>4. \A z \in Threads : pc[z] \in {"signal", "disconnect"} =>
            pc'[z] \in {"signal", "disconnect"} /\ popped'[z] = popped[z]
      BY <1>12, <1>b DEF LoopSummary, Goto, Finish
    <2>5. QED
      BY <1>b, <2>1, <2>2, <2>3, <2>4, LeakKept
  <1>13. ASSUME NEW w \in Workers, LoopHalt(w) PROVE NoLeakedConnection'
    <2>1. connected' = connected
      BY <1>13 DEF LoopHalt
    <2>2. sessions' = sessions
      BY <1>13 DEF LoopHalt
    <2>3. \A z \in Requests : pc[z] = "register" => pc'[z] = "register" /\ mine'[z] = mine[z]
      BY <1>13, <1>b DEF LoopHalt, Goto, Finish
    <2>4. \A z \in Threads : pc[z] \in {"signal", "disconnect"} =>
            pc'[z] \in {"signal", "disconnect"} /\ popped'[z] = popped[z]
      BY <1>13, <1>b DEF LoopHalt, Goto, Finish
    <2>5. QED
      BY <1>b, <2>1, <2>2, <2>3, <2>4, LeakKept
  <1>14. ASSUME NEW w \in Workers, LoopExit(w) PROVE NoLeakedConnection'
    <2>1. connected' = connected
      BY <1>14 DEF LoopExit
    <2>2. sessions' = sessions
      BY <1>14 DEF LoopExit
    <2>3. \A z \in Requests : pc[z] = "register" => pc'[z] = "register" /\ mine'[z] = mine[z]
      BY <1>14, <1>b DEF LoopExit, Goto, Finish
    <2>4. \A z \in Threads : pc[z] \in {"signal", "disconnect"} =>
            pc'[z] \in {"signal", "disconnect"} /\ popped'[z] = popped[z]
      BY <1>14, <1>b DEF LoopExit, Goto, Finish
    <2>5. QED
      BY <1>b, <2>1, <2>2, <2>3, <2>4, LeakKept
  <1>15. ASSUME NEW w \in Workers, CheckCurrent(w) PROVE NoLeakedConnection'
    <2>1. connected' = connected
      BY <1>15 DEF CheckCurrent
    <2>2. sessions' = sessions
      BY <1>15 DEF CheckCurrent
    <2>3. \A z \in Requests : pc[z] = "register" => pc'[z] = "register" /\ mine'[z] = mine[z]
      BY <1>15, <1>b DEF CheckCurrent, Goto, Finish
    <2>4. \A z \in Threads : pc[z] \in {"signal", "disconnect"} =>
            pc'[z] \in {"signal", "disconnect"} /\ popped'[z] = popped[z]
      BY <1>15, <1>b DEF CheckCurrent, Goto, Finish
    <2>5. QED
      BY <1>b, <2>1, <2>2, <2>3, <2>4, LeakKept
  <1>16. ASSUME NEW w \in Workers, CleanUp(w) PROVE NoLeakedConnection'
    <2>1. connected' = connected
      BY <1>16 DEF CleanUp
    <2>2. \A y \in Users : \/ sessions'[y] = sessions[y]
                          \/ sessions[y] = 0
                          \/ \E z \in Threads : pc'[z] = "signal" /\ popped'[z] = sessions[y]
      BY <1>16, <1>b DEF CleanUp, Pop, Goto, Finish
    <2>3. \A z \in Requests : pc[z] = "register" => pc'[z] = "register" /\ mine'[z] = mine[z]
      BY <1>16, <1>b DEF CleanUp, Pop, Goto, Finish
    <2>4. \A z \in Threads : pc[z] \in {"signal", "disconnect"} =>
            pc'[z] \in {"signal", "disconnect"} /\ popped'[z] = popped[z]
      BY <1>16, <1>b DEF CleanUp, Pop, Goto, Finish
    <2>5. QED
      BY <1>b, <2>1, <2>2, <2>3, <2>4, LeakKept
  <1>17. ASSUME BeginShutdown PROVE NoLeakedConnection'
    <2>1. connected' = connected
      BY <1>17 DEF BeginShutdown
    <2>2. sessions' = sessions
      BY <1>17 DEF BeginShutdown
    <2>3. \A z \in Requests : pc[z] = "register" => pc'[z] = "register" /\ mine'[z] = mine[z]
      BY <1>17, <1>b DEF BeginShutdown, Goto, Finish
    <2>4. \A z \in Threads : pc[z] \in {"signal", "disconnect"} =>
            pc'[z] \in {"signal", "disconnect"} /\ popped'[z] = popped[z]
      BY <1>17, <1>b DEF BeginShutdown, Goto, Finish
    <2>5. QED
      BY <1>b, <2>1, <2>2, <2>3, <2>4, LeakKept
  <1>18. ASSUME NEW u \in Users, StopNext(u) PROVE NoLeakedConnection'
    <2>1. connected' = connected
      BY <1>18 DEF StopNext
    <2>2. \A y \in Users : \/ sessions'[y] = sessions[y]
                          \/ sessions[y] = 0
                          \/ \E z \in Threads : pc'[z] = "signal" /\ popped'[z] = sessions[y]
      BY <1>18, <1>b DEF StopNext, Pop, Goto, Finish
    <2>3. \A z \in Requests : pc[z] = "register" => pc'[z] = "register" /\ mine'[z] = mine[z]
      BY <1>18, <1>b DEF StopNext, Pop, Goto, Finish
    <2>4. \A z \in Threads : pc[z] \in {"signal", "disconnect"} =>
            pc'[z] \in {"signal", "disconnect"} /\ popped'[z] = popped[z]
      BY <1>18, <1>b DEF StopNext, Pop, Goto, Finish
    <2>5. QED
      BY <1>b, <2>1, <2>2, <2>3, <2>4, LeakKept
  <1>19. ASSUME AllStopped PROVE NoLeakedConnection'
    <2>1. connected' = connected
      BY <1>19 DEF AllStopped
    <2>2. sessions' = sessions
      BY <1>19 DEF AllStopped
    <2>3. \A z \in Requests : pc[z] = "register" => pc'[z] = "register" /\ mine'[z] = mine[z]
      BY <1>19, <1>b DEF AllStopped, Goto, Finish
    <2>4. \A z \in Threads : pc[z] \in {"signal", "disconnect"} =>
            pc'[z] \in {"signal", "disconnect"} /\ popped'[z] = popped[z]
      BY <1>19, <1>b DEF AllStopped, Goto, Finish
    <2>5. QED
      BY <1>b, <2>1, <2>2, <2>3, <2>4, LeakKept
  <1>20. ASSUME PoolDown PROVE NoLeakedConnection'
    <2>1. connected' = connected
      BY <1>20 DEF PoolDown
    <2>2. sessions' = sessions
      BY <1>20 DEF PoolDown
    <2>3. \A z \in Requests : pc[z] = "register" => pc'[z] = "register" /\ mine'[z] = mine[z]
      BY <1>20, <1>b DEF PoolDown, Goto, Finish
    <2>4. \A z \in Threads : pc[z] \in {"signal", "disconnect"} =>
            pc'[z] \in {"signal", "disconnect"} /\ popped'[z] = popped[z]
      BY <1>20, <1>b DEF PoolDown, Goto, Finish
    <2>5. QED
      BY <1>b, <2>1, <2>2, <2>3, <2>4, LeakKept
  <1>21. CASE UNCHANGED vars
    BY <1>21 DEF vars, NoLeakedConnection
  <1>22. QED
    BY NextCases, <1>1, <1>2, <1>3, <1>4, <1>5, <1>6, <1>7, <1>8, <1>9, <1>10, <1>11, <1>12, <1>13, <1>14, <1>15, <1>16, <1>17, <1>18, <1>19, <1>20, <1>21

\* No broker connection is left open by the interleavings of starts and stops.
THEOREM LeakCorrect == Spec => []NoLeakedConnection
  <1>1. Init => IInv /\ NoLeakedConnection
    BY InvInit DEF Init, NoLeakedConnection
  <1>2. IInv /\ NoLeakedConnection /\ [Next]_vars => (IInv /\ NoLeakedConnection)'
    BY InvStep, LeakStep
  <1>3. QED
    BY <1>1, <1>2, PTL DEF Spec
=============================================================================

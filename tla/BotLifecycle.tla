---------------------------- MODULE BotLifecycle ----------------------------
(***************************************************************************)
(* The life of a bot in the web application: the request threads that      *)
(* start and stop it, the registry of sessions (BotSessionManager), the    *)
(* worker pool that runs the engines (TaskRegistry), and the shutdown of   *)
(* the application.  Every step below is one lock-protected section, or    *)
(* the code between two points where another thread can run.               *)
(*                                                                         *)
(* A session is a number, in the order in which engines are created; the   *)
(* engine, its connection and its ActiveBotSession share that number.      *)
(* What an engine does in a cycle is left to CloseAll; here a cycle only   *)
(* advances the counter that triggers the periodic summary.                *)
(***************************************************************************)
EXTENDS Naturals, Sequences

CONSTANTS
  Users,            \* users, one slot of the registry each
  Requests,         \* threads that serve HTTP requests
  Workers,          \* threads of the TaskRegistry's pool
  Main,             \* the thread that runs the lifespan handler
  MaxSessions,      \* bound of the model: engines ever created
  SummaryInterval   \* strategy cycles between two session summaries

ASSUME BotLifecycleConstants ==
  /\ MaxSessions \in Nat \ {0}
  /\ SummaryInterval \in Nat \ {0}
  /\ Main \notin Requests \cup Workers
  /\ Requests \cap Workers = {}

VARIABLES
  sessions,   \* BotSessionManager._sessions: the session of a user, 0 if none
  created,    \* engines created so far
  connected,  \* sessions whose broker connection is open
  running,    \* engines whose _running flag is set
  cycles,     \* _cycle_count of an engine, modulo SummaryInterval
  queue,      \* runners submitted to the pool and not yet taken: their users
  pc,         \* what each thread is doing
  who,        \* thread-local: the user it serves, 0 if none
  mine,       \* thread-local: the session it has created or runs, 0 if none
  popped,     \* thread-local: the session manager.stop popped for it, 0 if none
  phase,      \* of the application: "up", "stopping", "waiting", "down"
  toStop      \* stop_all's snapshot: users it has still to stop

managerVars == <<sessions, created>>
engineVars  == <<connected, running, cycles>>
localVars   == <<who, mine, popped>>
threadVars  == <<pc, localVars>>
appVars     == <<phase, toStop>>
vars == <<sessions, created, connected, running, cycles, queue, pc, who,
          mine, popped, phase, toStop>>

Sessions == 1 .. MaxSessions
Threads  == Requests \cup Workers \cup {Main}

\* The steps of a thread.  "signal" and "disconnect" are the two halves of
\* BotSessionManager.stop after it has popped the session.
RequestSteps == {"idle", "register", "submit", "signal", "disconnect"}
WorkerSteps  == {"idle", "get", "start", "seed", "loop", "finally", "cleanup",
                 "signal", "disconnect"}

\* Thread t moves on; at the end of its work its local variables are gone.
Goto(t, step) == pc' = [pc EXCEPT ![t] = step] /\ UNCHANGED localVars
Finish(t) ==
  /\ pc' = [pc EXCEPT ![t] = "idle"]
  /\ who' = [who EXCEPT ![t] = 0]
  /\ mine' = [mine EXCEPT ![t] = 0]
  /\ popped' = [popped EXCEPT ![t] = 0]

Init ==
  /\ sessions = [u \in Users |-> 0]
  /\ created = 0
  /\ connected = {} /\ running = {}
  /\ cycles = [s \in Sessions |-> 0]
  /\ queue = <<>>
  /\ pc = [t \in Threads |-> "idle"]
  /\ who = [t \in Threads |-> 0]
  /\ mine = [t \in Threads |-> 0]
  /\ popped = [t \in Threads |-> 0]
  /\ phase = "up" /\ toStop = {}

-----------------------------------------------------------------------------
\* Starting a bot: create_bot_engine, manager.start, registry.submit.

\* create_bot_engine connects before the registry is asked for the slot.
CreateEngine(r, u) ==
  /\ phase = "up" /\ pc[r] = "idle" /\ created < MaxSessions
  /\ created' = created + 1
  /\ connected' = connected \cup {created + 1}
  /\ pc' = [pc EXCEPT ![r] = "register"]
  /\ who' = [who EXCEPT ![r] = u]
  /\ mine' = [mine EXCEPT ![r] = created + 1]
  /\ UNCHANGED popped
  /\ UNCHANGED <<sessions, running, cycles, queue, appVars>>

\* Mutant: the connection of a refused start is not closed.
RegisterForgetsConnection(r) ==
  LET u == who[r]  s == mine[r] IN
  /\ pc[r] = "register"
  /\ IF sessions[u] = 0
       THEN sessions' = [sessions EXCEPT ![u] = s] /\ Goto(r, "submit")
       ELSE Finish(r) /\ UNCHANGED sessions
  /\ UNCHANGED <<created, engineVars, queue, appVars>>

\* manager.start: the slot is taken under the lock, or BotAlreadyRunningError.
Register(r) ==
  LET u == who[r]  s == mine[r] IN
  /\ pc[r] = "register"
  /\ \/ /\ sessions[u] = 0
        /\ sessions' = [sessions EXCEPT ![u] = s]
        /\ Goto(r, "submit")
        /\ UNCHANGED connected
     \/ /\ sessions[u] # 0
        /\ connected' = connected \ {s}
        /\ Finish(r)
        /\ UNCHANGED sessions
  /\ UNCHANGED <<created, running, cycles, queue, appVars>>

Submit(r) ==
  /\ pc[r] = "submit"
  /\ queue' = Append(queue, who[r])
  /\ Finish(r)
  /\ UNCHANGED <<managerVars, engineVars, appVars>>

-----------------------------------------------------------------------------
\* Stopping a bot: BotSessionManager.stop, from a request, a runner or stop_all.

\* stop() pops the user's session under the lock; with an empty slot it returns.
\* The runner's finally block and stop_all call it too.
Pop(t, u) ==
  /\ sessions[u] # 0
  /\ sessions' = [sessions EXCEPT ![u] = 0]
  /\ pc' = [pc EXCEPT ![t] = "signal"]
  /\ popped' = [popped EXCEPT ![t] = sessions[u]]
  /\ UNCHANGED mine

RequestStop(r, u) ==
  /\ phase = "up" /\ pc[r] = "idle"
  /\ Pop(r, u)
  /\ who' = [who EXCEPT ![r] = u]
  /\ UNCHANGED <<created, engineVars, queue, appVars>>

\* engine.stop() clears _running, then talks to the broker.
SignalStop(t) ==
  /\ pc[t] = "signal"
  /\ running' = running \ {popped[t]}
  /\ Goto(t, "disconnect")
  /\ UNCHANGED <<managerVars, connected, cycles, queue, appVars>>

Disconnect(t) ==
  /\ pc[t] = "disconnect"
  /\ connected' = connected \ {popped[t]}
  /\ Finish(t)
  /\ UNCHANGED <<managerVars, running, cycles, queue, appVars>>

-----------------------------------------------------------------------------
\* bot_runner, on a thread of the pool.

Take(w) ==
  /\ pc[w] = "idle" /\ queue # <<>>
  /\ queue' = Tail(queue)
  /\ pc' = [pc EXCEPT ![w] = "get"]
  /\ who' = [who EXCEPT ![w] = Head(queue)]
  /\ UNCHANGED <<mine, popped>>
  /\ UNCHANGED <<managerVars, engineVars, appVars>>

\* The session is looked up when the runner runs, not when it was submitted.
GetSession(w) ==
  /\ pc[w] = "get"
  /\ \/ sessions[who[w]] = 0 /\ Finish(w)
     \/ /\ sessions[who[w]] # 0
        /\ pc' = [pc EXCEPT ![w] = "start"]
        /\ mine' = [mine EXCEPT ![w] = sessions[who[w]]]
        /\ UNCHANGED <<who, popped>>
  /\ UNCHANGED <<managerVars, engineVars, queue, appVars>>

\* engine.run(): _running is set, whatever has happened to the session.
RunStart(w) ==
  /\ pc[w] = "start"
  /\ running' = running \cup {mine[w]}
  /\ cycles' = [cycles EXCEPT ![mine[w]] = 0]
  /\ Goto(w, "seed")
  /\ UNCHANGED <<managerVars, connected, queue, appVars>>

\* The equity and the starting balance are read.  A failing equity read leaves
\* run() with _running set, a failing balance read clears it first.
Seed(w) ==
  LET s == mine[w] IN
  /\ pc[w] = "seed"
  /\ \/ s \in connected /\ Goto(w, "loop") /\ UNCHANGED running
     \/ Goto(w, "finally") /\ running' \in {running, running \ {s}}
  /\ UNCHANGED <<managerVars, connected, cycles, queue, appVars>>

\* One pass of the loop with a strategy cycle; its exceptions are swallowed.
LoopCycle(w) ==
  LET s == mine[w] IN
  /\ pc[w] = "loop" /\ s \in running
  /\ cycles[s] + 1 < SummaryInterval
  /\ cycles' = [cycles EXCEPT ![s] = @ + 1]
  /\ UNCHANGED <<managerVars, connected, running, queue, threadVars, appVars>>

\* Mutant: the summary's exceptions are swallowed like those of the cycle.
LoopSummaryCaught(w) ==
  LET s == mine[w] IN
  /\ pc[w] = "loop" /\ s \in running
  /\ cycles[s] + 1 >= SummaryInterval
  /\ cycles' = [cycles EXCEPT ![s] = 0]
  /\ UNCHANGED <<managerVars, connected, running, queue, threadVars, appVars>>

\* Mutant: the runner has no finally block, a crash skips its cleaning up.
LoopSummaryNoFinally(w) ==
  LET s == mine[w] IN
  /\ pc[w] = "loop" /\ s \in running
  /\ cycles[s] + 1 >= SummaryInterval
  /\ cycles' = [cycles EXCEPT ![s] = 0]
  /\ (s \in connected /\ UNCHANGED threadVars) \/ Finish(w)
  /\ UNCHANGED <<managerVars, connected, running, queue, appVars>>

\* The pass that ends with the summary, whose broker calls nothing protects.
LoopSummary(w) ==
  LET s == mine[w] IN
  /\ pc[w] = "loop" /\ s \in running
  /\ cycles[s] + 1 >= SummaryInterval
  /\ cycles' = [cycles EXCEPT ![s] = 0]
  /\ \/ s \in connected /\ UNCHANGED threadVars
     \/ Goto(w, "finally")
  /\ UNCHANGED <<managerVars, connected, running, queue, appVars>>

\* The engine stops itself when the balance cannot be read; a closed connection
\* fails at the candles, before the balance is asked for.
LoopHalt(w) ==
  /\ pc[w] = "loop"
  /\ mine[w] \in running \cap connected
  /\ running' = running \ {mine[w]}
  /\ UNCHANGED <<managerVars, connected, cycles, queue, threadVars, appVars>>

LoopExit(w) ==
  /\ pc[w] = "loop" /\ mine[w] \notin running
  /\ Goto(w, "finally")
  /\ UNCHANGED <<managerVars, engineVars, queue, appVars>>

\* Mutant: only an engine that crashed with _running set is cleaned up.
CheckCurrentCrashedOnly(w) ==
  /\ pc[w] = "finally"
  /\ IF mine[w] \in running
       THEN Goto(w, "cleanup") ELSE Finish(w)
  /\ UNCHANGED <<managerVars, engineVars, queue, appVars>>

\* The finally block: is our session still the current one?
CheckCurrent(w) ==
  /\ pc[w] = "finally"
  /\ IF sessions[who[w]] = mine[w]
       THEN Goto(w, "cleanup") ELSE Finish(w)
  /\ UNCHANGED <<managerVars, engineVars, queue, appVars>>

\* ... then the user's session is stopped, by user and not by session.
CleanUp(w) ==
  /\ pc[w] = "cleanup"
  /\ \/ Pop(w, who[w]) /\ UNCHANGED who
     \/ sessions[who[w]] = 0 /\ Finish(w) /\ UNCHANGED sessions
  /\ UNCHANGED <<created, engineVars, queue, appVars>>

-----------------------------------------------------------------------------
\* The shutdown half of lifespan: the server has finished its requests.

\* Mutant: the lifespan handler does not call stop_all.
ShutdownWithoutStopAll ==
  /\ phase = "up" /\ \A r \in Requests : pc[r] = "idle"
  /\ phase' = "stopping" /\ toStop' = {}
  /\ UNCHANGED <<managerVars, engineVars, queue, threadVars>>

BeginShutdown ==
  /\ phase = "up" /\ \A r \in Requests : pc[r] = "idle"
  /\ phase' = "stopping"
  /\ toStop' = {u \in Users : sessions[u] # 0}
  /\ UNCHANGED <<managerVars, engineVars, queue, threadVars>>

StopNext(u) ==
  /\ phase = "stopping" /\ pc[Main] = "idle" /\ u \in toStop
  /\ toStop' = toStop \ {u}
  /\ \/ Pop(Main, u) /\ UNCHANGED who
     \/ sessions[u] = 0 /\ UNCHANGED <<sessions, threadVars>>
  /\ UNCHANGED <<created, engineVars, queue, phase>>

AllStopped ==
  /\ phase = "stopping" /\ pc[Main] = "idle" /\ toStop = {}
  /\ phase' = "waiting"
  /\ UNCHANGED <<managerVars, engineVars, queue, threadVars, toStop>>

\* executor.shutdown(wait=True): queued runners still run.
PoolDown ==
  /\ phase = "waiting" /\ queue = <<>>
  /\ \A w \in Workers : pc[w] = "idle"
  /\ phase' = "down"
  /\ UNCHANGED <<managerVars, engineVars, queue, threadVars, toStop>>

-----------------------------------------------------------------------------
StopStep(t) == SignalStop(t) \/ Disconnect(t)

RequestStep(r) ==
  \/ \E u \in Users : CreateEngine(r, u) \/ RequestStop(r, u)
  \/ Register(r) \/ Submit(r) \/ StopStep(r)

RunnerStep(w) ==
  \/ Take(w) \/ GetSession(w) \/ RunStart(w) \/ Seed(w)
  \/ LoopCycle(w) \/ LoopSummary(w) \/ LoopHalt(w) \/ LoopExit(w)
  \/ CheckCurrent(w) \/ CleanUp(w) \/ StopStep(w)

MainStep ==
  AllStopped \/ PoolDown \/ StopStep(Main) \/ \E u \in Users : StopNext(u)

Next ==
  \/ \E r \in Requests : RequestStep(r)
  \/ \E w \in Workers : RunnerStep(w)
  \/ BeginShutdown \/ MainStep

Spec == Init /\ [][Next]_vars

\* A thread that has work goes on with it; nobody has to ask for anything.  A
\* request that has begun is finished (only its first step is up to the user).
FairSpec ==
  /\ Spec
  /\ \A r \in Requests : WF_vars(Register(r) \/ Submit(r) \/ StopStep(r))
  /\ \A w \in Workers : WF_vars(RunnerStep(w))
  /\ WF_vars(MainStep)

-----------------------------------------------------------------------------
\* Type invariant.
TypeOK ==
  /\ sessions \in [Users -> 0 .. MaxSessions]
  /\ created \in 0 .. MaxSessions
  /\ connected \subseteq Sessions /\ running \subseteq Sessions
  /\ cycles \in [Sessions -> 0 .. SummaryInterval - 1]
  /\ queue \in Seq(Users)
  /\ pc \in [Threads -> RequestSteps \cup WorkerSteps]
  /\ who \in [Threads -> Users \cup {0}]
  /\ mine \in [Threads -> 0 .. MaxSessions]
  /\ popped \in [Threads -> 0 .. MaxSessions]
  /\ phase \in {"up", "stopping", "waiting", "down"}
  /\ toStop \subseteq Users

\* Some runner is bound to see session s of user u: it is about to be submitted,
\* is queued, is about to look the user's session up, or already holds s.
BoundTo(w, u, s) ==
  /\ who[w] = u
  /\ \/ pc[w] = "get"
     \/ pc[w] \in {"start", "seed", "loop", "finally", "cleanup"} /\ mine[w] = s
HasRunner(u, s) ==
  \/ \E r \in Requests : pc[r] = "submit" /\ who[r] = u
  \/ \E i \in 1 .. Len(queue) : queue[i] = u
  \/ \E w \in Workers : BoundTo(w, u, s)

\* A registered session is never orphaned: whatever stops and restarts overlap,
\* some runner is still going to run it or to remove it, so that a user whose
\* engine has died can always start again (bot_runner's docstring).
SessionHasRunner == \A u \in Users : sessions[u] # 0 => HasRunner(u, sessions[u])

\* A broker connection is open only while its session is registered, is still
\* being started, or is in the hands of a thread that is about to close it.
NoLeakedConnection ==
  \A s \in connected :
    \/ \E u \in Users : sessions[u] = s
    \/ \E r \in Requests : pc[r] = "register" /\ mine[r] = s
    \/ \E t \in Threads : pc[t] \in {"signal", "disconnect"} /\ popped[t] = s

\* An engine whose run has ended does not keep its user's slot.
EndedRunFreesSlot ==
  \A u \in Users : \A s \in Sessions :
    (sessions[u] = s /\ \E w \in Workers : pc[w] = "finally" /\ mine[w] = s)
      ~> (sessions[u] # s)

\* Once a session's connection is closed, its engine leaves the loop, also when
\* the stop came before run() had set _running.
StoppedEngineEnds ==
  \A s \in Sessions : \A w \in Workers :
    (s <= created /\ s \notin connected)
      ~> ~ (pc[w] \in {"seed", "loop"} /\ mine[w] = s)

\* A shutdown that has begun comes to its end.
ShutdownCompletes == (phase = "stopping") ~> (phase = "down")
=============================================================================

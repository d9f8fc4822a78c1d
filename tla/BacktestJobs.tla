---------------------------- MODULE BacktestJobs ----------------------------
(***************************************************************************)
(* Backtests as background tasks: the task registry and its pool, and the  *)
(* bars each task loads, downloading first what the shared store lacks.    *)
(*                                                                         *)
(* Tasks are numbered in the order of their creation.  What is between two *)
(* reads or writes of shared state is one step of a task, and the steps of *)
(* the pool's threads interleave; any call to OANDA may fail.  The replay  *)
(* itself is Backtest's, the life of a bot BotLifecycle's: here a bot is a *)
(* task that holds a worker for as long as it likes.                       *)
(***************************************************************************)
EXTENDS Integers, Sequences, FiniteSetsExt

CONSTANTS
  Market,        \* times of the bars OANDA has, of one symbol and granularity
  Requests,      \* date ranges <<start, end>> that are asked for
  None,          \* no range, no coverage
  PageSize,      \* _MAX_CANDLES_PER_REQUEST
  Workers,       \* the pool's max_workers
  MaxCompleted,  \* _MAX_COMPLETED_TASKS
  MaxTasks       \* bound: tasks created

ASSUME BacktestJobsConstants ==
  /\ Market \subseteq Nat /\ IsFiniteSet(Market)
  /\ Requests \subseteq Nat \X Nat /\ None \notin Nat \X Nat
  /\ PageSize \in Nat \ {0, 1} /\ Workers \in Nat \ {0} /\ MaxCompleted \in Nat \ {0}
  /\ MaxTasks \in Nat

VARIABLES
  created,  \* tasks 1 .. created have been submitted
  tasks,    \* TaskRegistry._tasks: the status of each task it knows
  queue,    \* the pool's queue
  jobs,     \* each task's place, its range, the coverage it has read, its bars
  stored,   \* the bars table
  whole     \* history: ranges downloaded without regard to what is stored

vars == <<created, tasks, queue, jobs, stored, whole>>
-----------------------------------------------------------------------------
TaskIds == 1 .. MaxTasks
Created == 1 .. created

NewJob == [pc |-> "unsent", range |-> None, seen |-> None, got |-> {}]

\* load_bars: of a range, or all of them
Within(times, range) ==
  IF range = None THEN times ELSE {t \in times : range[1] <= t /\ t <= range[2]}

\* get_date_range
DateRange == IF stored = {} THEN None ELSE <<Min(stored), Max(stored)>>

\* _fetch_chunk: the first candles from a time on.
Chunk(from) ==
  {t \in Market : from <= t /\ Cardinality({u \in Market : from <= u /\ u < t}) < PageSize}

\* Mutant: only the first page is fetched.
DownloadedFirstPage(from, to) == {t \in Chunk(from) : from < to /\ t <= to}

\* download: page by page, each from the last candle of the one before, until the
\* range is over or a page has room for more.
Downloaded(from, to) ==
  LET pages[start \in Market \cup {from}] ==
        LET bars == {t \in Chunk(start) : t <= to} IN
        IF to <= start THEN {}
        ELSE IF Cardinality(bars) < PageSize THEN bars ELSE bars \cup pages[Max(bars)]
  IN pages[from]

Init ==
  /\ created = 0 /\ tasks = <<>> /\ queue = <<>>
  /\ jobs = [id \in TaskIds |-> NewJob]
  /\ stored = {} /\ whole = {}
-----------------------------------------------------------------------------
(***************************************************************************)
(* TaskRegistry: submit, the pool, and _on_done.                           *)
(***************************************************************************)
Submit(pc, range) ==
  LET id == created + 1 IN
  /\ created < MaxTasks
  /\ created' = id
  /\ tasks' = [k \in DOMAIN tasks \cup {id} |-> IF k = id THEN "running" ELSE tasks[k]]
  /\ queue' = Append(queue, id)
  /\ jobs' = [jobs EXCEPT ![id].pc = pc, ![id].range = range]
  /\ UNCHANGED <<stored, whole>>

\* POST /backtest, /sweep and /walk-forward, of the API and of the pages; without
\* both dates there is no range.  What is run on the bars makes no difference here.
SubmitBacktest(range) == Submit("queued", range)
SubmitSweep(range) == Submit("queued", range)
SubmitWalkForward(range) == Submit("queued", range)

\* POST /bot/start
SubmitBot == Submit("queuedBot", None)

Running == {id \in TaskIds : jobs[id].pc \notin {"unsent", "queued", "queuedBot", "ended"}}

\* Mutant: a worker too few is used.
WorkerIsFreeTooFew == Cardinality(Running) < Workers - 1

WorkerIsFree == Cardinality(Running) < Workers

\* A worker takes the next task of the queue.
Start(id) ==
  /\ queue # <<>> /\ id = Head(queue) /\ WorkerIsFree
  /\ queue' = Tail(queue)
  /\ jobs' = [jobs EXCEPT ![id].pc = IF @ = "queued" THEN "check" ELSE "bot"]
  /\ UNCHANGED <<created, tasks, stored, whole>>

\* Mutant: the completed tasks that were created last are dropped.
EvictedNewest(known) ==
  LET completed == {id \in DOMAIN known : known[id] # "running"}
      excess == Cardinality(completed) - MaxCompleted
      evict == {id \in completed : Cardinality({j \in completed : j > id}) < excess}
  IN [id \in DOMAIN known \ evict |-> known[id]]

\* _evict_old_tasks: the completed tasks that were created first, over the limit
Evicted(known) ==
  LET completed == {id \in DOMAIN known : known[id] # "running"}
      excess == Cardinality(completed) - MaxCompleted
      evict == {id \in completed : Cardinality({j \in completed : j < id}) < excess}
  IN [id \in DOMAIN known \ evict |-> known[id]]

End(id, status) ==
  /\ tasks' = Evicted([tasks EXCEPT ![id] = status])
  /\ jobs' = [jobs EXCEPT ![id] = [NewJob EXCEPT !.pc = "ended"]]
  /\ UNCHANGED <<created, queue, stored, whole>>

\* The answer to a poll for a task.
Answer(id) == IF id \in DOMAIN tasks THEN tasks[id] ELSE "not found"

(***************************************************************************)
(* _ensure_data_available, on a worker's thread.                           *)
(***************************************************************************)
Goto(id, pc) == jobs' = [jobs EXCEPT ![id].pc = pc]

IsCovered(range, seen) ==
  seen # None /\ range # None /\ seen[1] <= range[1] /\ seen[2] >= range[2]

\* Connecting with the user's credentials is part of the first download.
Gap(seen) == IF seen = None THEN "whole" ELSE "before"

CheckCoverage(id) ==
  /\ jobs[id].pc = "check"
  /\ jobs' = [jobs EXCEPT ![id].seen = DateRange,
                          ![id].pc = IF IsCovered(jobs[id].range, DateRange) THEN "covered"
                                     ELSE IF jobs[id].range = None THEN "load" ELSE Gap(DateRange)]
  /\ UNCHANGED <<created, tasks, queue, stored, whole>>

\* Coverage without a single bar in the range leads to a download.
LoadCovered(id) ==
  LET bars == Within(stored, jobs[id].range) IN
  /\ jobs[id].pc = "covered"
  /\ jobs' = [jobs EXCEPT ![id].got = bars, ![id].pc = IF bars = {} THEN Gap(jobs[id].seen) ELSE "run"]
  /\ UNCHANGED <<created, tasks, queue, stored, whole>>

SaveWhole(range) ==
  /\ stored' = stored \cup Downloaded(range[1], range[2])
  /\ whole' = whole \cup {range}

DownloadWhole(id) ==
  /\ jobs[id].pc = "whole"
  /\ SaveWhole(jobs[id].range)
  /\ Goto(id, "load")
  /\ UNCHANGED <<created, tasks, queue>>

\* Mutant: the range itself is fetched, not what is between it and the coverage.
BeforeCoverageToEnd(range, seen) == <<range[1], range[2]>>

\* The gap before the coverage that was read, up to its first bar; then the one after
\* it.  Each task has a connection to the store of its own, so a save is one transaction.
BeforeCoverage(range, seen) == <<range[1], seen[1]>>

DownloadBefore(id) ==
  LET gap == BeforeCoverage(jobs[id].range, jobs[id].seen) IN
  /\ jobs[id].pc = "before"
  /\ stored' = stored \cup Downloaded(gap[1], gap[2])
  /\ Goto(id, "after")
  /\ UNCHANGED <<created, tasks, queue, whole>>

DownloadAfter(id) ==
  /\ jobs[id].pc = "after"
  /\ stored' = stored \cup Downloaded(jobs[id].seen[2], jobs[id].range[2])
  /\ Goto(id, "load")
  /\ UNCHANGED <<created, tasks, queue, whole>>

Load(id) ==
  LET bars == Within(stored, jobs[id].range) IN
  /\ jobs[id].pc = "load" /\ bars # {}
  /\ jobs' = [jobs EXCEPT ![id].got = bars, ![id].pc = "run"]
  /\ UNCHANGED <<created, tasks, queue, stored, whole>>

\* The replay is through.
Complete(id) == jobs[id].pc = "run" /\ End(id, "completed")

NoBars(id) == jobs[id].pc = "load" /\ Within(stored, jobs[id].range) = {} /\ End(id, "failed")

\* No credentials, or OANDA does not accept them.
ConnectFails(id) == jobs[id].pc \in {"whole", "before"} /\ End(id, "failed")

\* A page cannot be fetched, and nothing of that download is saved.
DownloadFails(id) == jobs[id].pc \in {"whole", "before", "after"} /\ End(id, "failed")

ReplayFails(id) == jobs[id].pc = "run" /\ End(id, "failed")

\* A bot is stopped, halts or crashes.
EndBot(id) ==
  /\ jobs[id].pc = "bot"
  /\ \E status \in {"completed", "failed"} : End(id, status)

\* download-data: whatever is stored already
DownloadByHand(range) ==
  /\ SaveWhole(range)
  /\ UNCHANGED <<created, tasks, queue, jobs>>

Work(id) ==
  \/ Start(id)
  \/ CheckCoverage(id)
  \/ LoadCovered(id)
  \/ DownloadWhole(id)
  \/ DownloadBefore(id)
  \/ DownloadAfter(id)
  \/ Load(id)
  \/ Complete(id)
  \/ NoBars(id)
  \/ ConnectFails(id)
  \/ DownloadFails(id)
  \/ ReplayFails(id)

Next ==
  \/ \E range \in Requests \cup {None} :
       SubmitBacktest(range) \/ SubmitSweep(range) \/ SubmitWalkForward(range)
  \/ SubmitBot
  \/ \E id \in TaskIds : Work(id) \/ EndBot(id)
  \/ \E range \in Requests : DownloadByHand(range)

Spec == Init /\ [][Next]_vars /\ \A id \in TaskIds : WF_vars(Work(id))
-----------------------------------------------------------------------------
(***************************************************************************)
(* Properties.                                                             *)
(***************************************************************************)
Places == {"unsent", "queued", "queuedBot", "bot", "check", "covered", "whole", "before",
           "after", "load", "run", "ended"}
Statuses == {"running", "completed", "failed"}

\* The registry and the pool: whom they know, in what states.
TypeOK ==
  /\ created \in 0 .. MaxTasks
  /\ tasks \in [DOMAIN tasks -> Statuses] /\ DOMAIN tasks \subseteq Created
  /\ queue \in Seq(TaskIds)
  /\ DOMAIN jobs = TaskIds /\ \A id \in TaskIds : jobs[id].pc \in Places

\* Two ranges with bars between them were both downloaded whole.
Apart(r, s) == \E t \in Market : r[2] < t /\ t < s[1]
Parted == \E r, s \in whole : Apart(r, s)

\* "Multiple users can download overlapping ranges simultaneously without data loss"
\* (docs/backtesting.md): whatever other tasks, failed downloads and partial gaps do
\* meanwhile, a backtest runs on every bar its range has, unless two ranges with bars
\* between them were both downloaded whole.
RangeIsServed ==
  \A id \in Created :
    /\ jobs[id].got # {} /\ jobs[id].range # None
    /\ ~Parted
    => jobs[id].got = Within(Market, jobs[id].range)

\* Coverage is judged by the first and the last bar, so no failure may leave a hole
\* between them.
CoverageHasNoHole ==
  stored # {} /\ ~Parted => stored = Within(Market, DateRange)

\* The result of a task can be fetched after its end, until MaxCompleted tasks that
\* were created later have ended (_evict_old_tasks).
ResultIsKept ==
  \A id \in Created :
    jobs[id].pc = "ended" /\ Answer(id) = "not found" =>
      Cardinality({j \in Created : j > id /\ jobs[j].pc = "ended"}) >= MaxCompleted

\* Every backtest comes to its end, unless bots hold all the workers.
AllBots == Cardinality({id \in TaskIds : jobs[id].pc = "bot"}) = Workers

BacktestEnds ==
  \A id \in TaskIds : jobs[id].pc = "queued" ~> (jobs[id].pc = "ended" \/ AllBots)
=============================================================================

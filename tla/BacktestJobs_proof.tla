-------------------------- MODULE BacktestJobs_proof --------------------------
(***************************************************************************)
(* The task registry keeps its promises for any number of tasks, workers   *)
(* and kept results, and whatever the bars of the market are.              *)
(***************************************************************************)
EXTENDS BacktestJobs, FiniteSetTheorems, WellFoundedInduction, TLAPS

Ended == {id \in Created : jobs[id].pc = "ended"}

Later(id, S) == {j \in S : j > id}

\* A job is a record with a place; those not created yet have not been sent.
Shape ==
  /\ DOMAIN jobs = TaskIds /\ jobs = [id \in TaskIds |-> jobs[id]]
  /\ \A id \in TaskIds : "pc" \in DOMAIN jobs[id]
  /\ \A id \in TaskIds : id > created => jobs[id].pc = "unsent"

\* A queued task is queued once and has not been started.
Queued ==
  \A i \in 1 .. Len(queue) :
    /\ jobs[queue[i]].pc \in {"queued", "queuedBot"}
    /\ \A k \in 1 .. Len(queue) : i # k => queue[i] # queue[k]

\* The registry calls a task running exactly until the task ends, and forgets none before.
Known ==
  \A id \in Created :
    IF jobs[id].pc = "ended" THEN id \in DOMAIN tasks => tasks[id] # "running"
                             ELSE id \in DOMAIN tasks /\ tasks[id] = "running"

\* What is forgotten has been displaced.
Displaced ==
  \A id \in Ended \ DOMAIN tasks : Cardinality(Later(id, Ended)) >= MaxCompleted

IInv == TypeOK /\ Shape /\ Queued /\ Known /\ Displaced
-----------------------------------------------------------------------------
LEMMA LaterEndedIsFinite ==
  ASSUME TypeOK, NEW id
  PROVE  IsFiniteSet(Ended) /\ IsFiniteSet(Later(id, Ended))
<1>1. created \in Int BY BacktestJobsConstants DEF TypeOK
<1>2. IsFiniteSet(Created) BY <1>1, FS_Interval DEF Created
<1>3. Ended \in SUBSET Created /\ Later(id, Ended) \in SUBSET Created BY DEF Ended, Later
<1> QED BY <1>2, <1>3, FS_Subset

\* Of a finite set of numbers, the members after one are all but it and those before.
LEMMA CountLater ==
  ASSUME NEW S \in SUBSET Nat, IsFiniteSet(S), NEW id \in S
  PROVE  /\ Cardinality(S) \in Nat
         /\ Cardinality({j \in S : j < id}) \in Nat /\ Cardinality(Later(id, S)) \in Nat
         /\ Cardinality(S) = Cardinality({j \in S : j < id}) + Cardinality(Later(id, S)) + 1
<1> DEFINE before == {j \in S : j < id}
           after == Later(id, S)
<1>1. before \in SUBSET S /\ after \in SUBSET S BY DEF Later
<1>2. IsFiniteSet(before) /\ IsFiniteSet(after) BY <1>1, FS_Subset
<1>3. before \cap after = {} /\ id \notin before \cup after
  <2>1. \A j \in S : ~(j < id /\ j > id) /\ ~(id < id) /\ ~(id > id) OBVIOUS
  <2> QED BY <2>1 DEF Later
<1>4. S = (before \cup after) \cup {id}
  <2>1. \A j \in S : j < id \/ j > id \/ j = id OBVIOUS
  <2> QED BY <2>1 DEF Later
<1>5. /\ IsFiniteSet(before \cup after)
      /\ Cardinality(before \cup after) =
           Cardinality(before) + Cardinality(after) - Cardinality(before \cap after)
  BY <1>2, FS_Union
<1>6. Cardinality(before \cap after) = 0 BY <1>3, FS_EmptySet
<1>7. Cardinality(S) = Cardinality(before \cup after) + 1 BY <1>3, <1>4, <1>5, FS_AddElement
<1>8. Cardinality(S) \in Nat /\ Cardinality(before) \in Nat /\ Cardinality(after) \in Nat
  BY <1>2, FS_CardinalityType
<1> QED BY <1>5, <1>6, <1>7, <1>8

\* What an eviction drops has ended, and MaxCompleted later ones are among the ended.
LEMMA EvictionIsFair ==
  ASSUME NEW known, DOMAIN known \in SUBSET Nat, IsFiniteSet(DOMAIN known),
         NEW id \in DOMAIN known \ DOMAIN Evicted(known)
  PROVE  LET completed == {j \in DOMAIN known : known[j] # "running"} IN
         id \in completed /\ Cardinality(Later(id, completed)) >= MaxCompleted
<1> DEFINE completed == {j \in DOMAIN known : known[j] # "running"}
           excess == Cardinality(completed) - MaxCompleted
<1>1. completed \in SUBSET Nat /\ IsFiniteSet(completed) BY FS_Subset
<1>2. id \in completed /\ Cardinality({j \in completed : j < id}) < excess BY DEF Evicted
<1>3. Cardinality(completed) \in Nat
      /\ Cardinality({j \in completed : j < id}) \in Nat
      /\ Cardinality(Later(id, completed)) \in Nat
      /\ Cardinality(completed) =
           Cardinality({j \in completed : j < id}) + Cardinality(Later(id, completed)) + 1
  BY <1>1, <1>2, CountLater
<1>4. MaxCompleted \in Nat BY BacktestJobsConstants
<1> QED BY <1>2, <1>3, <1>4

\* When ended tasks stay ended and nothing new is forgotten, nothing changes for the rest.
LEMMA DisplacedStays ==
  ASSUME TypeOK, TypeOK', Displaced, Ended \subseteq Ended',
         Ended' \ DOMAIN tasks' \subseteq Ended \ DOMAIN tasks
  PROVE  Displaced'
<1> SUFFICES ASSUME NEW id \in Ended' \ DOMAIN tasks'
             PROVE  Cardinality(Later(id, Ended')) >= MaxCompleted
  BY DEF Displaced, Later
<1>1. Cardinality(Later(id, Ended)) >= MaxCompleted BY DEF Displaced
<1>2. Later(id, Ended) \in SUBSET Later(id, Ended') BY DEF Later
<1>3. IsFiniteSet(Later(id, Ended)) BY LaterEndedIsFinite
<1>4. IsFiniteSet(Later(id, Ended')) 
  <2>1. created' \in Int BY BacktestJobsConstants DEF TypeOK
  <2>2. IsFiniteSet(Created') BY <2>1, FS_Interval DEF Created
  <2>3. Later(id, Ended') \in SUBSET Created' BY DEF Ended, Later
  <2> QED BY <2>2, <2>3, FS_Subset
<1>5. Cardinality(Later(id, Ended)) <= Cardinality(Later(id, Ended')) BY <1>2, <1>4, FS_Subset
<1>6. Cardinality(Later(id, Ended)) \in Nat /\ Cardinality(Later(id, Ended')) \in Nat
  BY <1>3, <1>4, FS_CardinalityType
<1> QED BY <1>1, <1>5, <1>6, BacktestJobsConstants
-----------------------------------------------------------------------------
AtWork == Places \ {"unsent", "queued", "queuedBot", "ended"}

\* A task at work goes from one place to another.
Moves(id) ==
  /\ jobs[id].pc \in AtWork /\ jobs'[id].pc \in AtWork
  /\ "pc" \in DOMAIN jobs'[id]
  /\ jobs' = [jobs EXCEPT ![id] = jobs'[id]]
  /\ UNCHANGED <<created, tasks, queue>>

LEMMA MoveKeepsIInv ==
  ASSUME IInv, NEW id \in TaskIds, Moves(id)
  PROVE  IInv'
<1>1. \A k \in TaskIds : k # id => jobs'[k] = jobs[k] BY DEF Moves, IInv, TypeOK
<1>2. DOMAIN jobs' = TaskIds BY DEF Moves, IInv, TypeOK
<1>3. TypeOK'
  BY <1>1, <1>2 DEF Moves, IInv, TypeOK, AtWork, Created
<1>4. Shape'
  <2>1. jobs' = [k \in TaskIds |-> jobs'[k]] BY <1>2 DEF Moves, IInv, Shape
  <2>2. \A k \in TaskIds : "pc" \in DOMAIN jobs'[k] BY <1>1 DEF Moves, IInv, Shape
  <2>3. ~(id > created) BY DEF Moves, IInv, Shape, AtWork
  <2>4. \A k \in TaskIds : k > created' => jobs'[k].pc = "unsent"
    BY <1>1, <2>3 DEF Moves, IInv, Shape
  <2> QED BY <1>2, <2>1, <2>2, <2>4 DEF Shape
<1>5. Queued'
  <2>1. \A i \in 1 .. Len(queue) : queue[i] \in TaskIds BY DEF IInv, TypeOK
  <2>2. \A i \in 1 .. Len(queue) : queue[i] # id BY DEF Moves, IInv, Queued, AtWork
  <2> QED BY <1>1, <2>1, <2>2 DEF Moves, IInv, Queued
<1>6. Created' = Created /\ Created \subseteq TaskIds
  BY BacktestJobsConstants DEF Moves, Created, TaskIds, IInv, TypeOK
<1>7. jobs[id].pc # "ended" /\ jobs'[id].pc # "ended" BY DEF Moves, AtWork
<1>8. Known'
  <2>1. \A k \in Created : (jobs'[k].pc = "ended") <=> (jobs[k].pc = "ended") BY <1>1, <1>6, <1>7
  <2> QED BY <1>6, <2>1 DEF Moves, IInv, Known
<1>9. Ended' = Ended BY <1>1, <1>6, <1>7 DEF Ended
<1>10. Displaced' BY <1>3, <1>9, DisplacedStays DEF IInv, Moves
<1> QED BY <1>3, <1>4, <1>5, <1>8, <1>10 DEF IInv

LEMMA SubmitKeepsIInv ==
  ASSUME IInv, NEW pc \in {"queued", "queuedBot"}, NEW range, Submit(pc, range)
  PROVE  IInv'
<1> DEFINE id == created + 1
<1>1. created \in Nat /\ id \in TaskIds /\ created' = id /\ id \notin Created /\ MaxTasks \in Nat
  <2>1. created \in Nat /\ MaxTasks \in Nat BY BacktestJobsConstants DEF IInv, TypeOK
  <2>2. created < MaxTasks /\ created' = id BY DEF Submit
  <2> QED BY <2>1, <2>2 DEF TaskIds, Created
<1>2. Created' = Created \cup {id} /\ Created \subseteq TaskIds /\ Created' \subseteq TaskIds
  BY <1>1 DEF Created, TaskIds
<1>3. /\ jobs' = [jobs EXCEPT ![id] = jobs'[id]] /\ jobs'[id].pc = pc /\ "pc" \in DOMAIN jobs'[id]
      /\ DOMAIN jobs' = TaskIds
  BY <1>1 DEF Submit, IInv, Shape
<1>4. \A k \in TaskIds : k # id => jobs'[k] = jobs[k] BY <1>1, <1>3 DEF IInv, TypeOK
<1>5. tasks' = [k \in {id} \cup DOMAIN tasks |-> IF k = id THEN "running" ELSE tasks[k]]
  BY DEF Submit
<1>6. queue' = Append(queue, id) BY DEF Submit
<1>7. TypeOK'
  <2>1. created' \in 0 .. MaxTasks BY <1>1 DEF TaskIds
  <2>2. tasks' \in [DOMAIN tasks' -> Statuses] /\ DOMAIN tasks' \subseteq Created'
    BY <1>2, <1>5 DEF IInv, TypeOK, Statuses
  <2>3. queue' \in Seq(TaskIds)
    <3>1. queue \in Seq(TaskIds) BY DEF IInv, TypeOK
    <3> QED BY <1>1, <1>6, <3>1
  <2>4. \A k \in TaskIds : jobs'[k].pc \in Places BY <1>3, <1>4 DEF IInv, TypeOK, Places
  <2> QED BY <1>3, <2>1, <2>2, <2>3, <2>4 DEF TypeOK
<1>8. Shape'
  <2>1. jobs' = [k \in TaskIds |-> jobs'[k]] BY <1>3
  <2>2. \A k \in TaskIds : "pc" \in DOMAIN jobs'[k] BY <1>3, <1>4 DEF IInv, Shape
  <2>3. \A k \in TaskIds : k > created' => k > created /\ k # id
    BY <1>1 DEF TaskIds
  <2> QED BY <1>3, <1>4, <2>1, <2>2, <2>3 DEF IInv, Shape
<1>9. Queued'
  <2>1. queue \in Seq(TaskIds) BY DEF IInv, TypeOK
  <2>2. \A i \in 1 .. Len(queue) : queue[i] \in TaskIds /\ queue[i] # id
    <3>1. jobs[id].pc = "unsent" BY <1>1 DEF IInv, Shape
    <3> QED BY <2>1, <3>1 DEF IInv, Queued
  <2>3. /\ Len(queue') = Len(queue) + 1 /\ Len(queue) \in Nat /\ queue'[Len(queue) + 1] = id
        /\ \A i \in 1 .. Len(queue) : queue'[i] = queue[i]
    BY <1>6, <2>1
  <2>4. \A i \in 1 .. Len(queue') : i \in 1 .. Len(queue) \/ i = Len(queue) + 1 BY <2>3
  <2>5. \A i \in 1 .. Len(queue') : jobs'[queue'[i]].pc \in {"queued", "queuedBot"}
    BY <1>3, <1>4, <2>2, <2>3, <2>4 DEF IInv, Queued
  <2>6. \A i, k \in 1 .. Len(queue') : i # k => queue'[i] # queue'[k]
    BY <2>2, <2>3, <2>4 DEF IInv, Queued
  <2> QED BY <2>5, <2>6 DEF Queued
<1>10. Known'
  <2> SUFFICES ASSUME NEW k \in Created'
               PROVE  IF jobs'[k].pc = "ended" THEN k \in DOMAIN tasks' => tasks'[k] # "running"
                                               ELSE k \in DOMAIN tasks' /\ tasks'[k] = "running"
    BY DEF Known
  <2>1. CASE k = id BY <2>1, <1>3, <1>5
  <2>2. CASE k # id
    <3>1. k \in Created /\ jobs'[k] = jobs[k] BY <2>2, <1>2, <1>4
    <3>2. (k \in DOMAIN tasks' <=> k \in DOMAIN tasks)
          /\ (k \in DOMAIN tasks => tasks'[k] = tasks[k])
      BY <2>2, <1>5
    <3> QED BY <3>1, <3>2 DEF IInv, Known
  <2> QED BY <2>1, <2>2
<1>11. Displaced'
  <2>1. Ended' = Ended BY <1>1, <1>2, <1>3, <1>4 DEF Ended
  <2>2. DOMAIN tasks \subseteq DOMAIN tasks' BY <1>5
  <2> QED BY <1>7, <2>1, <2>2, DisplacedStays DEF IInv
<1> QED BY <1>7, <1>8, <1>9, <1>10, <1>11 DEF IInv

LEMMA StartKeepsIInv ==
  ASSUME IInv, NEW id \in TaskIds, Start(id)
  PROVE  IInv'
<1> DEFINE n == Len(queue)
<1>1. queue \in Seq(TaskIds) /\ queue # <<>> BY DEF Start, IInv, TypeOK
<1>2. /\ n \in Nat /\ 1 \in 1 .. n /\ id = queue[1]
      /\ queue' \in Seq(TaskIds) /\ Len(queue') = n - 1
      /\ \A i \in 1 .. n - 1 : queue'[i] = queue[i + 1] /\ i + 1 \in 1 .. n
  BY <1>1 DEF Start
<1>3. jobs[id].pc \in {"queued", "queuedBot"} BY <1>2 DEF IInv, Queued
<1>4. /\ jobs' = [jobs EXCEPT ![id] = jobs'[id]] /\ "pc" \in DOMAIN jobs'[id]
      /\ jobs'[id].pc \in {"check", "bot"} /\ DOMAIN jobs' = TaskIds
  BY DEF Start, IInv, TypeOK, Shape
<1>5. \A k \in TaskIds : k # id => jobs'[k] = jobs[k] BY <1>4 DEF IInv, TypeOK
<1>6. created' = created /\ tasks' = tasks /\ Created' = Created /\ Created \subseteq TaskIds
  BY BacktestJobsConstants DEF Start, Created, TaskIds, IInv, TypeOK
<1>7. TypeOK' BY <1>2, <1>4, <1>5, <1>6 DEF IInv, TypeOK, Places
<1>8. Shape'
  <2>1. jobs' = [k \in TaskIds |-> jobs'[k]] BY <1>4
  <2>2. \A k \in TaskIds : "pc" \in DOMAIN jobs'[k] BY <1>4, <1>5 DEF IInv, Shape
  <2>3. ~(id > created) BY <1>3 DEF IInv, Shape
  <2> QED BY <1>4, <1>5, <1>6, <2>1, <2>2, <2>3 DEF IInv, Shape
<1>9. Queued'
  <2>1. \A i \in 1 .. n : i # 1 => queue[i] # id /\ queue[i] \in TaskIds
    BY <1>1, <1>2 DEF IInv, Queued
  <2>2. \A i \in 1 .. n - 1 : i + 1 # 1 /\ \A k \in 1 .. n - 1 : i # k => i + 1 # k + 1 BY <1>2
  <2>3. \A i \in 1 .. n - 1 : jobs'[queue'[i]].pc \in {"queued", "queuedBot"}
    BY <1>2, <1>5, <2>1, <2>2 DEF IInv, Queued
  <2>4. \A i, k \in 1 .. n - 1 : i # k => queue'[i] # queue'[k]
    BY <1>2, <2>2 DEF IInv, Queued
  <2> QED BY <1>2, <2>3, <2>4 DEF Queued
<1>10. \A k \in Created : (jobs'[k].pc = "ended") <=> (jobs[k].pc = "ended")
  BY <1>3, <1>4, <1>5, <1>6
<1>11. Known' BY <1>6, <1>10 DEF IInv, Known
<1>12. Ended' = Ended BY <1>6, <1>10 DEF Ended
<1>13. Displaced' BY <1>6, <1>7, <1>12, DisplacedStays DEF IInv
<1> QED BY <1>7, <1>8, <1>9, <1>11, <1>13 DEF IInv

LEMMA EndKeepsIInv ==
  ASSUME IInv, NEW id \in TaskIds, jobs[id].pc \in AtWork,
         NEW status \in {"completed", "failed"}, End(id, status)
  PROVE  IInv'
<1> DEFINE known == [tasks EXCEPT ![id] = status]
           completed == {j \in DOMAIN known : known[j] # "running"}
<1>1. /\ jobs' = [jobs EXCEPT ![id] = jobs'[id]] /\ "pc" \in DOMAIN jobs'[id]
      /\ jobs'[id].pc = "ended" /\ DOMAIN jobs' = TaskIds
  BY DEF End, NewJob, IInv, TypeOK
<1>2. \A k \in TaskIds : k # id => jobs'[k] = jobs[k] BY <1>1 DEF IInv, TypeOK
<1>3. created' = created /\ queue' = queue /\ Created' = Created /\ Created \subseteq TaskIds
      /\ Created \subseteq Nat
  BY BacktestJobsConstants DEF End, Created, TaskIds, IInv, TypeOK
<1>4. ~(id > created) /\ id \in Created BY DEF IInv, TypeOK, Shape, AtWork, TaskIds, Created
<1>5. id \in DOMAIN tasks /\ jobs[id].pc # "ended" BY <1>4 DEF IInv, Known, AtWork
<1>6. /\ DOMAIN known = DOMAIN tasks /\ known[id] = status
      /\ \A k \in DOMAIN tasks : k # id => known[k] = tasks[k]
  BY <1>5 DEF IInv, TypeOK
<1>7. /\ tasks' = Evicted(known) /\ DOMAIN tasks' \subseteq DOMAIN tasks
      /\ \A k \in DOMAIN tasks' : tasks'[k] = known[k]
      /\ tasks' = [k \in DOMAIN tasks' |-> tasks'[k]]
  BY <1>6 DEF End, Evicted
<1>8. TypeOK'
  <2>1. \A k \in DOMAIN tasks' : tasks'[k] \in Statuses BY <1>6, <1>7 DEF IInv, TypeOK, Statuses
  <2>2. \A k \in TaskIds : jobs'[k].pc \in Places BY <1>1, <1>2 DEF IInv, TypeOK, Places
  <2> QED BY <1>1, <1>3, <1>7, <2>1, <2>2 DEF IInv, TypeOK
<1>9. Shape'
  <2>1. jobs' = [k \in TaskIds |-> jobs'[k]] BY <1>1
  <2>2. \A k \in TaskIds : "pc" \in DOMAIN jobs'[k] BY <1>1, <1>2 DEF IInv, Shape
  <2> QED BY <1>1, <1>2, <1>3, <1>4, <2>1, <2>2 DEF IInv, Shape
<1>10. Queued'
  <2>1. \A i \in 1 .. Len(queue) : queue[i] \in TaskIds BY DEF IInv, TypeOK
  <2>2. \A i \in 1 .. Len(queue) : queue[i] # id BY DEF IInv, Queued, AtWork
  <2> QED BY <1>2, <1>3, <2>1, <2>2 DEF IInv, Queued
<1>11. completed \subseteq Ended'
  <2> SUFFICES ASSUME NEW k \in completed PROVE k \in Ended' OBVIOUS
  <2>1. k \in Created BY <1>6 DEF IInv, TypeOK
  <2>2. CASE k = id BY <2>2, <1>1, <1>3, <1>4 DEF Ended
  <2>3. CASE k # id
    <3>1. tasks[k] # "running" BY <2>3, <1>6
    <3>2. jobs[k].pc = "ended" BY <2>1, <3>1 DEF IInv, Known
    <3> QED BY <2>1, <2>3, <3>2, <1>2, <1>3 DEF Ended
  <2> QED BY <2>2, <2>3
<1>12. IsFiniteSet(Created) /\ IsFiniteSet(DOMAIN known) /\ DOMAIN known \in SUBSET Nat
  <2>1. created \in Int BY BacktestJobsConstants DEF IInv, TypeOK
  <2>2. IsFiniteSet(Created) BY <2>1, FS_Interval DEF Created
  <2>3. DOMAIN known \in SUBSET Created BY <1>6 DEF IInv, TypeOK
  <2>4. IsFiniteSet(DOMAIN known) BY <2>2, <2>3, FS_Subset
  <2> QED BY <1>3, <2>2, <2>3, <2>4
\* What this step forgets has been displaced.
<1>13. ASSUME NEW k \in DOMAIN tasks \ DOMAIN tasks'
       PROVE  k \in completed /\ Cardinality(Later(k, Ended')) >= MaxCompleted
  <2>1. k \in DOMAIN known \ DOMAIN Evicted(known) BY <1>6, <1>7
  <2>2. k \in completed /\ Cardinality(Later(k, completed)) >= MaxCompleted
    <3> HIDE DEF known
    <3> QED BY <1>12, <2>1, EvictionIsFair
  <2>3. Later(k, completed) \in SUBSET Later(k, Ended') BY <1>11 DEF Later
  <2>4. Later(k, Ended') \in SUBSET Created BY <1>3 DEF Later, Ended
  <2>5. IsFiniteSet(Later(k, Ended')) BY <1>12, <2>4, FS_Subset
  <2>6. /\ IsFiniteSet(Later(k, completed))
        /\ Cardinality(Later(k, completed)) <= Cardinality(Later(k, Ended'))
    BY <2>3, <2>5, FS_Subset
  <2>7. Cardinality(Later(k, completed)) \in Nat /\ Cardinality(Later(k, Ended')) \in Nat
    BY <2>5, <2>6, FS_CardinalityType
  <2> QED BY <2>2, <2>6, <2>7, BacktestJobsConstants
<1>14. Known'
  <2> SUFFICES ASSUME NEW k \in Created
               PROVE  IF jobs'[k].pc = "ended" THEN k \in DOMAIN tasks' => tasks'[k] # "running"
                                               ELSE k \in DOMAIN tasks' /\ tasks'[k] = "running"
    BY <1>3 DEF Known
  <2>1. CASE k = id BY <2>1, <1>1, <1>6, <1>7
  <2>2. CASE k # id
    <3>1. jobs'[k] = jobs[k] BY <2>2, <1>2, <1>3
    <3>2. CASE jobs[k].pc = "ended" BY <2>2, <3>1, <3>2, <1>6, <1>7 DEF IInv, Known
    <3>3. CASE jobs[k].pc # "ended"
      <4>1. k \in DOMAIN tasks /\ known[k] = "running" BY <2>2, <3>3, <1>6 DEF IInv, Known
      <4>2. k \in DOMAIN tasks' BY <4>1, <1>13
      <4> QED BY <3>1, <3>3, <4>1, <4>2, <1>7
    <3> QED BY <3>2, <3>3
  <2> QED BY <2>1, <2>2
<1>15. Displaced'
  <2> SUFFICES ASSUME NEW k \in Ended' \ DOMAIN tasks'
               PROVE  Cardinality(Later(k, Ended')) >= MaxCompleted
    BY DEF Displaced, Later
  <2>1. CASE k \in DOMAIN tasks BY <2>1, <1>13
  <2>2. CASE k \notin DOMAIN tasks
    <3>1. k # id /\ k \in Ended BY <2>2, <1>2, <1>3, <1>5 DEF Ended
    <3>2. Cardinality(Later(k, Ended)) >= MaxCompleted BY <2>2, <3>1 DEF IInv, Displaced
    <3>3. Ended \subseteq Ended' BY <1>1, <1>2, <1>3 DEF Ended
    <3>4. Later(k, Ended) \in SUBSET Later(k, Ended') BY <3>3 DEF Later
    <3>5. Later(k, Ended') \in SUBSET Created BY <1>3 DEF Later, Ended
    <3>6. IsFiniteSet(Later(k, Ended')) BY <1>12, <3>5, FS_Subset
    <3>7. /\ IsFiniteSet(Later(k, Ended))
          /\ Cardinality(Later(k, Ended)) <= Cardinality(Later(k, Ended'))
      BY <3>4, <3>6, FS_Subset
    <3>8. Cardinality(Later(k, Ended)) \in Nat /\ Cardinality(Later(k, Ended')) \in Nat
      BY <3>6, <3>7, FS_CardinalityType
    <3> QED BY <3>2, <3>7, <3>8, BacktestJobsConstants
  <2> QED BY <2>1, <2>2
<1> QED BY <1>8, <1>9, <1>10, <1>14, <1>15 DEF IInv
-----------------------------------------------------------------------------
LEMMA InitEstablishesIInv == Init => IInv
<1> SUFFICES ASSUME Init PROVE IInv OBVIOUS
<1>1. MaxTasks \in Nat BY BacktestJobsConstants
<1>2. created = 0 /\ Created = {} BY DEF Init, Created
<1>3. tasks = <<>> /\ DOMAIN tasks = {} /\ queue = <<>> /\ Len(queue) = 0 BY DEF Init
<1>4. jobs = [id \in TaskIds |-> NewJob] BY DEF Init
<1>5. TypeOK BY <1>1, <1>2, <1>3, <1>4 DEF TypeOK, NewJob, Places
<1>6. Shape BY <1>4 DEF Shape, NewJob
<1>7. Queued BY <1>3 DEF Queued
<1>8. Known /\ Displaced BY <1>2 DEF Known, Displaced, Ended
<1> QED BY <1>5, <1>6, <1>7, <1>8 DEF IInv

LEMMA StepKeepsIInv == IInv /\ [Next]_vars => IInv'
<1> SUFFICES ASSUME IInv, [Next]_vars PROVE IInv' OBVIOUS
<1>1. ASSUME NEW range \in Requests \cup {None},
             SubmitBacktest(range) \/ SubmitSweep(range) \/ SubmitWalkForward(range)
      PROVE  IInv'
  BY <1>1, SubmitKeepsIInv DEF SubmitBacktest, SubmitSweep, SubmitWalkForward
<1>2. CASE SubmitBot BY <1>2, SubmitKeepsIInv DEF SubmitBot
<1>3. ASSUME NEW id \in TaskIds, Work(id) PROVE IInv'
  <2>1. CASE Start(id) BY <2>1, StartKeepsIInv
  <2>2. CASE CheckCoverage(id) \/ LoadCovered(id) \/ DownloadWhole(id) \/ DownloadBefore(id)
             \/ DownloadAfter(id) \/ Load(id)
    <3>1. jobs[id].pc \in AtWork
      BY <2>2 DEF CheckCoverage, LoadCovered, DownloadWhole, DownloadBefore, DownloadAfter, Load,
                  AtWork, Places
    <3>2. "pc" \in DOMAIN jobs[id] /\ DOMAIN jobs = TaskIds BY DEF IInv, Shape
    <3>3. jobs'[id].pc \in AtWork /\ "pc" \in DOMAIN jobs'[id]
      BY <2>2, <3>2 DEF CheckCoverage, LoadCovered, DownloadWhole, DownloadBefore, DownloadAfter,
                        Load, Goto, Gap, AtWork, Places
    <3>4. jobs' = [jobs EXCEPT ![id] = jobs'[id]] /\ UNCHANGED <<created, tasks, queue>>
      BY <2>2, <3>2 DEF CheckCoverage, LoadCovered, DownloadWhole, DownloadBefore, DownloadAfter,
                        Load, Goto
    <3> QED BY <3>1, <3>3, <3>4, MoveKeepsIInv DEF Moves
  <2>3. CASE Complete(id) \/ NoBars(id) \/ ConnectFails(id) \/ DownloadFails(id) \/ ReplayFails(id)
    <3>1. jobs[id].pc \in AtWork
      BY <2>3 DEF Complete, NoBars, ConnectFails, DownloadFails, ReplayFails, AtWork, Places
    <3>2. \E status \in {"completed", "failed"} : End(id, status)
      BY <2>3 DEF Complete, NoBars, ConnectFails, DownloadFails, ReplayFails
    <3> QED BY <3>1, <3>2, EndKeepsIInv
  <2> QED BY <1>3, <2>1, <2>2, <2>3 DEF Work
<1>4. ASSUME NEW id \in TaskIds, EndBot(id) PROVE IInv'
  <2>1. jobs[id].pc \in AtWork BY <1>4 DEF EndBot, AtWork, Places
  <2> QED BY <1>4, <2>1, EndKeepsIInv DEF EndBot
<1>5. CASE UNCHANGED <<created, tasks, queue, jobs>>
  <2>1. Created' = Created /\ Ended' = Ended BY <1>5 DEF Created, Ended
  <2>2. TypeOK' /\ Shape' BY <1>5, <2>1 DEF IInv, TypeOK, Shape
  <2>3. Queued' BY <1>5 DEF IInv, Queued
  <2>4. Known' BY <1>5, <2>1 DEF IInv, Known
  <2>5. Displaced' BY <1>5, <2>1, <2>2, DisplacedStays DEF IInv
  <2> QED BY <2>2, <2>3, <2>4, <2>5 DEF IInv
<1>6. ASSUME NEW range \in Requests, DownloadByHand(range) PROVE IInv'
  BY <1>5, <1>6 DEF DownloadByHand
<1> QED BY <1>1, <1>2, <1>3, <1>4, <1>5, <1>6 DEF Next, vars

\* The registry knows only tasks that were created, a queue holds tasks, and each has
\* one of the places of its thread's work.
THEOREM TypeCorrect == Spec => []TypeOK
<1>1. IInv => TypeOK BY DEF IInv
<1> QED BY <1>1, InitEstablishesIInv, StepKeepsIInv, PTL DEF Spec

\* "_MAX_COMPLETED_TASKS" results are kept: a finished task that cannot be found any more
\* has been displaced by as many that were created after it and are finished too.
THEOREM ResultsAreKept == Spec => []ResultIsKept
<1>1. IInv => ResultIsKept
  <2> SUFFICES ASSUME IInv, NEW id \in Created, jobs[id].pc = "ended", Answer(id) = "not found"
               PROVE  Cardinality({j \in Created : j > id /\ jobs[j].pc = "ended"}) >= MaxCompleted
    BY DEF ResultIsKept
  <2>1. id \notin DOMAIN tasks BY DEF Answer, IInv, TypeOK, Statuses
  <2>2. id \in Ended \ DOMAIN tasks BY <2>1 DEF Ended
  <2>3. Later(id, Ended) = {j \in Created : j > id /\ jobs[j].pc = "ended"} BY DEF Later, Ended
  <2> QED BY <2>2, <2>3 DEF IInv, Displaced
<1> QED BY <1>1, InitEstablishesIInv, StepKeepsIInv, PTL DEF Spec
-----------------------------------------------------------------------------
(***************************************************************************)
(* What a download fetches.  Downloaded is recursive: that a function      *)
(* satisfying its equation exists is shown by giving one, and that any     *)
(* such function gives the bars of the range by the last start at which it *)
(* would not.                                                              *)
(***************************************************************************)
LEMMA LeastOf ==
  ASSUME NEW S \in SUBSET Nat, S # {}
  PROVE  \E d \in S : \A e \in S : d <= e
<1> DEFINE less == OpToRel(<, Nat)
<1>1. PICK d \in S : \A e \in S : ~(<<e, d>> \in less) BY NatLessThanWellFounded, WFMin
<1>2. ASSUME NEW e \in S PROVE d <= e
  <2>1. d \in Nat /\ e \in Nat OBVIOUS
  <2>2. ~(<<e, d>> \in less) BY <1>1
  <2>3. e < d => <<e, d>> \in less BY <2>1, Zenon DEF OpToRel
  <2> HIDE DEF less
  <2>4. ~(e < d) BY <2>2, <2>3
  <2> QED BY <2>1, <2>4
<1> QED BY <1>2

LEMMA MinOf ==
  ASSUME NEW S \in SUBSET Nat, S # {}
  PROVE  Min(S) \in S /\ \A t \in S : Min(S) <= t
BY LeastOf DEF Min

\* A finite set of numbers has a greatest member: of the sets without one, a smallest
\* would lose it with any of its members.
LEMMA MaxOf ==
  ASSUME NEW S \in SUBSET Nat, IsFiniteSet(S), S # {}
  PROVE  Max(S) \in S /\ \A t \in S : Max(S) >= t
<1> DEFINE HasMax(T) == \E x \in T : \A y \in T : x >= y
           bad == {T \in SUBSET S : T # {} /\ ~HasMax(T)}
           sizes == {Cardinality(T) : T \in bad}
<1>1. \A T \in SUBSET S : IsFiniteSet(T) /\ Cardinality(T) \in Nat
  BY FS_Subset, FS_CardinalityType
<1>2. ASSUME bad # {} PROVE FALSE
  <2>1. sizes \in SUBSET Nat /\ sizes # {} BY <1>1, <1>2
  <2>2. PICK T \in bad : \A U \in bad : Cardinality(T) <= Cardinality(U)
    <3>1. PICK d \in sizes : \A e \in sizes : d <= e
      <4> HIDE DEF sizes
      <4> QED BY <2>1, LeastOf
    <3> QED BY <3>1
  <2>3. PICK x \in T : TRUE OBVIOUS
  <2>4. Cardinality(T \ {x}) = Cardinality(T) - 1 /\ Cardinality(T) \in Nat
    BY <1>1, <2>3, FS_RemoveElement
  <2>5. T \ {x} \notin bad
    <3> HIDE DEF bad
    <3>1. ~(Cardinality(T) <= Cardinality(T) - 1) BY <2>4
    <3> QED BY <2>2, <2>4, <3>1
  <2>6. T \in SUBSET Nat /\ x \in Nat BY <2>3
  <2>7. CASE T \ {x} = {} 
    <3>1. \A y \in T : x >= y BY <2>6, <2>7
    <3> QED BY <2>3, <3>1
  <2>8. CASE T \ {x} # {}
    <3>1. PICK m \in T \ {x} : \A y \in T \ {x} : m >= y BY <2>5, <2>8
    <3>2. (m >= x => \A y \in T : m >= y) /\ (~(m >= x) => \A y \in T : x >= y) BY <2>6, <3>1
    <3> QED BY <2>3, <3>1, <3>2
  <2> QED BY <2>7, <2>8
<1>3. HasMax(S) BY <1>2
<1> QED BY <1>3 DEF Max

\* The bars of a range, both ends included.
Span(from, to) == {t \in Market : from <= t /\ t <= to}

LEMMA SpanIsFinite ==
  ASSUME NEW from, NEW to, NEW S \in SUBSET Span(from, to)
  PROVE  S \in SUBSET Nat /\ IsFiniteSet(S) /\ Cardinality(S) \in Nat
<1>1. S \in SUBSET Market BY DEF Span
<1> QED BY <1>1, BacktestJobsConstants, FS_Subset, FS_CardinalityType

\* A page has all bars up to the end of the range, or is full and has all up to its last.
LEMMA PageIsASpan ==
  ASSUME NEW start \in Nat, NEW to \in Nat
  PROVE  LET bars == {t \in Chunk(start) : t <= to} IN
         IF Cardinality(bars) < PageSize THEN bars = Span(start, to)
         ELSE /\ Max(bars) \in Market /\ start < Max(bars) /\ Max(bars) <= to
              /\ bars = Span(start, Max(bars))
<1> DEFINE bars == {t \in Chunk(start) : t <= to}
           before(t) == {u \in Market : start <= u /\ u < t}
<1>1. Market \subseteq Nat /\ PageSize \in Nat /\ PageSize >= 2 BY BacktestJobsConstants
<1>2. bars = {t \in Span(start, to) : Cardinality(before(t)) < PageSize} BY DEF Chunk, Span
<1>3. bars \in SUBSET Nat /\ IsFiniteSet(bars) /\ Cardinality(bars) \in Nat
  BY <1>2, SpanIsFinite
<1>4. \A t \in Market : IsFiniteSet(before(t)) /\ Cardinality(before(t)) \in Nat
  <2>1. ASSUME NEW t \in Market, NEW u \in before(t) PROVE u \in Span(start, t)
    <3>1. u \in Market /\ u \in Nat /\ t \in Nat /\ start <= u /\ u < t BY <1>1
    <3> QED BY <3>1 DEF Span
  <2> HIDE DEF before
  <2> QED BY <2>1, SpanIsFinite
<1>5. ASSUME NEW t \in bars, NEW u \in Market, start <= u, u <= t PROVE u \in bars
  <2>1. t \in Market /\ t \in Nat /\ u \in Nat /\ t <= to BY <1>1, <1>2 DEF Span
  <2>2. ASSUME NEW w \in before(u) PROVE w \in before(t)
    <3>1. w \in Market /\ w \in Nat /\ start <= w /\ w < u BY <1>1
    <3>2. w < t BY <1>5, <2>1, <3>1
    <3> QED BY <3>1, <3>2
  <2>3. Cardinality(before(u)) <= Cardinality(before(t))
    <3> HIDE DEF before
    <3> QED BY <1>4, <2>1, <2>2, FS_Subset
  <2>4. Cardinality(before(t)) < PageSize BY <1>2
  <2>5. u \in Span(start, to) BY <1>5, <2>1 DEF Span
  <2> HIDE DEF before, bars
  <2> QED BY <1>1, <1>2, <1>4, <2>1, <2>3, <2>4, <2>5
<1>6. CASE Cardinality(bars) < PageSize
  <2> DEFINE lost == Span(start, to) \ bars
  <2>1. ASSUME lost # {} PROVE FALSE
    <3>1. lost \in SUBSET Nat BY <1>1 DEF Span
    <3>2. PICK t \in lost : \A u \in lost : t <= u
      <4> HIDE DEF lost
      <4> QED BY <2>1, <3>1, LeastOf
    <3>3. t \in Market /\ t \in Nat /\ t \in Span(start, to) /\ start <= t /\ t <= to
      BY <1>1 DEF Span
    <3>4. ASSUME NEW u \in before(t) PROVE u \in bars
      <4>1. u \in Market /\ u \in Nat /\ start <= u /\ u < t BY <1>1
      <4>2. u \in Span(start, to) BY <3>3, <4>1 DEF Span
      <4>3. u \notin lost BY <3>2, <3>3, <4>1
      <4> QED BY <4>2, <4>3
    <3>5. Cardinality(before(t)) <= Cardinality(bars)
      <4> HIDE DEF before, bars
      <4> QED BY <1>3, <3>4, FS_Subset
    <3>6. Cardinality(before(t)) < PageSize
      <4> HIDE DEF before, bars
      <4> QED BY <1>1, <1>3, <1>4, <1>6, <3>3, <3>5
    <3>7. t \in bars BY <1>2, <3>3, <3>6
    <3> QED BY <3>7
  <2>2. bars \subseteq Span(start, to) BY <1>2
  <2>3. bars = Span(start, to) BY <2>1, <2>2
  <2> QED BY <1>6, <2>3
<1>7. CASE ~(Cardinality(bars) < PageSize)
  <2> DEFINE last == Max(bars)
  <2>1. bars # {} BY <1>1, <1>7, FS_EmptySet
  <2>2. last \in bars /\ \A t \in bars : last >= t
    <3> HIDE DEF bars
    <3> QED BY <1>3, <2>1, MaxOf
  <2>3. last \in Market /\ last \in Nat /\ last <= to /\ start <= last BY <1>1, <1>2, <2>2 DEF Span
  <2>4. bars = Span(start, last)
    <3> HIDE DEF last
    <3>1. ASSUME NEW u \in Span(start, last) PROVE u \in bars BY <1>5, <2>2, <3>1 DEF Span
    <3>2. ASSUME NEW u \in bars PROVE u \in Span(start, last)
      <4>1. u \in Market /\ start <= u /\ u \in Nat BY <1>1, <1>2 DEF Span
      <4> QED BY <2>2, <2>3, <4>1 DEF Span
    <3> QED BY <3>1, <3>2
  <2>5. start # last
    <3> HIDE DEF last
    <3>1. ASSUME start = last PROVE FALSE
      <4>1. ASSUME NEW u \in bars PROVE u = start
        <5>1. u \in Span(start, start) BY <2>4, <3>1
        <5>2. u \in Nat /\ start <= u /\ u <= start BY <1>1, <5>1 DEF Span
        <5> QED BY <5>2
      <4>2. Cardinality(bars) <= 1
        <5> HIDE DEF bars
        <5>1. bars \in SUBSET {start} BY <4>1
        <5>2. IsFiniteSet({start}) /\ Cardinality({start}) = 1 BY FS_Singleton
        <5> QED BY <5>1, <5>2, FS_Subset
      <4> HIDE DEF bars
      <4> QED BY <1>1, <1>3, <1>7, <4>2
    <3> QED BY <3>1
  <2>6. start < last
    <3> HIDE DEF last
    <3> QED BY <2>3, <2>5
  <2> QED BY <1>7, <2>3, <2>4, <2>6
<1> QED BY <1>6, <1>7

\* download: the bars of the range, both ends included, of a range that has a length.
LEMMA DownloadedIsSpan ==
  ASSUME NEW from \in Nat, NEW to \in Nat
  PROVE  Downloaded(from, to) = IF from < to THEN Span(from, to) ELSE {}
<1> DEFINE starts == Market \cup {from}
           bars(start) == {t \in Chunk(start) : t <= to}
           Page(f, start) == IF to <= start THEN {}
                             ELSE IF Cardinality(bars(start)) < PageSize THEN bars(start)
                             ELSE bars(start) \cup f[Max(bars(start))]
           Body(f) == [start \in starts |-> Page(f, start)]
           pages == CHOOSE f : f = Body(f)
           All(start) == IF to <= start THEN {} ELSE Span(start, to)
           all == [start \in starts |-> All(start)]
<1>1. Downloaded(from, to) = pages[from] BY Zenon DEF Downloaded
<1>2. starts \subseteq Nat /\ Market \subseteq Nat BY BacktestJobsConstants
\* One page and what is right after it give what is right.
<1>3. ASSUME NEW f, NEW start \in starts, \A s \in starts : start < s => f[s] = All(s)
      PROVE  Page(f, start) = All(start)
  <2>1. CASE to <= start BY <2>1
  <2>2. CASE ~(to <= start) /\ Cardinality(bars(start)) < PageSize
    BY <1>2, <2>2, PageIsASpan
  <2>3. CASE ~(to <= start) /\ ~(Cardinality(bars(start)) < PageSize)
    <3> DEFINE last == Max(bars(start))
    <3>1. /\ last \in Market /\ start < last /\ last <= to /\ bars(start) = Span(start, last)
      BY <1>2, <2>3, PageIsASpan
    <3>2. f[last] = All(last) BY <1>3, <3>1
    <3>3. Page(f, start) = Span(start, last) \cup All(last) BY <2>3, <3>1, <3>2
    <3> HIDE DEF last
    <3>4. Span(start, last) \cup All(last) = Span(start, to)
      <4>1. start \in Nat /\ last \in Nat BY <1>2, <3>1
      <4>2. All(last) = IF to <= last THEN {} ELSE Span(last, to) OBVIOUS
      <4> HIDE DEF All
      <4>3. ASSUME NEW t \in Market
            PROVE  t \in Span(start, last) \cup All(last) <=> t \in Span(start, to)
        <5>1. t \in Nat BY <1>2
        <5>2. t \in Span(start, last) <=> start <= t /\ t <= last BY DEF Span
        <5>3. t \in Span(start, to) <=> start <= t /\ t <= to BY DEF Span
        <5>4. t \in Span(last, to) <=> last <= t /\ t <= to BY DEF Span
        <5>5. CASE to <= last BY <3>1, <4>1, <4>2, <5>1, <5>2, <5>3, <5>5
        <5>6. CASE ~(to <= last) BY <3>1, <4>1, <4>2, <5>1, <5>2, <5>3, <5>4, <5>6
        <5> QED BY <5>5, <5>6
      <4>4. Span(start, last) \cup All(last) \subseteq Market BY <4>2 DEF Span
      <4>5. Span(start, to) \subseteq Market BY DEF Span
      <4> QED BY <4>3, <4>4, <4>5
    <3> HIDE DEF Page
    <3> QED BY <2>3, <3>3, <3>4
  <2> QED BY <2>1, <2>2, <2>3
<1> HIDE DEF Page, All
<1>4. all = Body(all) BY <1>3
<1>5. pages = Body(pages) BY <1>4
<1>6. \A start \in starts : pages[start] = Page(pages, start) BY <1>5
<1> HIDE DEF pages
<1>7. ASSUME NEW start \in starts, pages[start] # All(start) PROVE FALSE
  <2> DEFINE wrong == {s \in starts : pages[s] # All(s)}
             gaps == {to - s : s \in {s \in wrong : s < to}}
  <2>1. \A s \in wrong : s < to
    <3>1. \A s \in starts : to <= s => Page(pages, s) = {} /\ All(s) = {} BY DEF Page, All
    <3> QED BY <1>2, <1>6, <3>1
  <2>2. gaps \in SUBSET Nat /\ gaps # {} BY <1>2, <1>7, <2>1
  <2>3. PICK d \in gaps : \A e \in gaps : d <= e
    <3> HIDE DEF gaps
    <3> QED BY <2>2, LeastOf
  <2>4. PICK s \in wrong : d = to - s OBVIOUS
  <2>5. ASSUME NEW r \in starts, s < r PROVE pages[r] = All(r)
    <3>1. r \in Nat /\ s \in Nat BY <1>2
    <3>2. r \in wrong => to - r \in gaps BY <2>1
    <3>3. ~(to - s <= to - r) BY <2>5, <3>1
    <3> QED BY <2>3, <2>4, <3>2, <3>3
  <2>6. Page(pages, s) = All(s) BY <1>3, <2>5
  <2> QED BY <1>6, <2>6
<1>8. pages[from] = All(from) BY <1>7
<1>9. All(from) = IF from < to THEN Span(from, to) ELSE {} BY DEF All
<1> QED BY <1>1, <1>8, <1>9
-----------------------------------------------------------------------------
(***************************************************************************)
(* What is stored has no hole, and a task runs on all of its range.        *)
(***************************************************************************)
JobType == [pc : Places, range : Requests \cup {None}, seen : (Nat \X Nat) \cup {None},
            got : SUBSET Market]

Typed == jobs \in [TaskIds -> JobType] /\ stored \in SUBSET Market /\ whole \in SUBSET Requests

\* What was downloaded whole is stored, and the first bars ever stored were.
WholeStored ==
  /\ \A r \in whole : Downloaded(r[1], r[2]) \subseteq stored
  /\ stored # {} => \E r \in whole : Downloaded(r[1], r[2]) # {}

NoHole(bars) == \A s, u \in bars : \A t \in Market : s <= t /\ t <= u => t \in bars

\* What a task has read of the store, and what it has saved, at each of its places.
Served(job, bars, parted) ==
  /\ job.pc = "unsent" => job.got = {}
  /\ job.pc \in {"covered", "before", "after"} =>
       job.range # None /\ job.seen # None /\ job.seen[1] \in bars /\ job.seen[2] \in bars
  /\ job.pc = "covered" => job.seen[1] <= job.range[1] /\ job.range[2] <= job.seen[2]
  /\ job.pc = "whole" => job.range # None
  /\ job.pc = "after" /\ job.range[1] < job.seen[1] =>
       Span(job.range[1], job.seen[1]) \subseteq bars
  /\ job.pc = "load" /\ job.range # None /\ ~parted /\ job.range[1] < job.range[2] =>
       Span(job.range[1], job.range[2]) \subseteq bars
  /\ job.got # {} /\ job.range # None /\ ~parted => job.got = Span(job.range[1], job.range[2])

StoreInv ==
  /\ Typed /\ WholeStored
  /\ ~Parted => NoHole(stored)
  /\ \A id \in TaskIds : Served(jobs[id], stored, Parted)

\* The store only grows, and ranges that are parted stay so.
LEMMA ServedStays ==
  ASSUME NEW job, NEW bars, NEW more, NEW parted \in BOOLEAN, NEW later \in BOOLEAN,
         bars \subseteq more, parted => later, Served(job, bars, parted)
  PROVE  Served(job, more, later)
BY DEF Served

LEMMA RequestIsPair ==
  ASSUME NEW r \in Requests
  PROVE  r[1] \in Nat /\ r[2] \in Nat /\ r = <<r[1], r[2]>>
BY BacktestJobsConstants

LEMMA WholeIsSpan ==
  ASSUME NEW r \in Requests
  PROVE  Downloaded(r[1], r[2]) = IF r[1] < r[2] THEN Span(r[1], r[2]) ELSE {}
BY RequestIsPair, DownloadedIsSpan

\* A range that is not parted from those before leaves no hole to them.
LEMMA SaveWholeKeeps ==
  ASSUME StoreInv, NEW range \in Requests, SaveWhole(range)
  PROVE  /\ stored \subseteq stored' /\ stored' \in SUBSET Market /\ whole' \in SUBSET Requests
         /\ Parted => Parted'
         /\ WholeStored' /\ (~Parted' => NoHole(stored'))
         /\ range[1] < range[2] => Span(range[1], range[2]) \subseteq stored'
<1> DEFINE B == Downloaded(range[1], range[2])
<1>1. stored' = stored \cup B /\ whole' = whole \cup {range} BY DEF SaveWhole
<1>2. B = IF range[1] < range[2] THEN Span(range[1], range[2]) ELSE {} BY WholeIsSpan
<1>3. B \in SUBSET Market BY <1>2 DEF Span
<1>4. Market \subseteq Nat BY BacktestJobsConstants
<1>5. Parted => Parted' BY <1>1 DEF Parted
<1> HIDE DEF B
<1>6. WholeStored'
  <2>1. \A r \in whole' : Downloaded(r[1], r[2]) \subseteq stored'
    BY <1>1 DEF StoreInv, WholeStored, B
  <2>2. stored' # {} => \E r \in whole' : Downloaded(r[1], r[2]) # {}
    BY <1>1 DEF StoreInv, WholeStored, B
  <2> QED BY <2>1, <2>2 DEF WholeStored
<1>7. ASSUME ~Parted', NEW t \in Market, t \notin B, NEW x \in stored, NEW u \in B,
             (x <= t /\ t <= u) \/ (u <= t /\ t <= x)
      PROVE  t \in stored
  <2>1. PICK q \in whole : Downloaded(q[1], q[2]) # {} BY DEF StoreInv, WholeStored
  <2>2. q[1] \in Nat /\ q[2] \in Nat /\ q[1] < q[2] /\ Span(q[1], q[2]) # {}
        /\ Span(q[1], q[2]) \subseteq stored
    BY <2>1, RequestIsPair, WholeIsSpan DEF StoreInv, Typed, WholeStored
  <2>3. PICK y \in Span(q[1], q[2]) : TRUE BY <2>2
  <2>4. y \in stored /\ y \in Nat /\ q[1] <= y /\ y <= q[2] BY <1>4, <2>2, <2>3 DEF Span
  <2>5. ~(q[2] < t /\ t < range[1]) /\ ~(range[2] < t /\ t < q[1])
    BY <1>1, <1>7, <2>1 DEF Parted, Apart
  <2>6. /\ range[1] \in Nat /\ range[2] \in Nat /\ t \in Nat /\ x \in Nat /\ u \in Nat
        /\ range[1] <= u /\ u <= range[2]
    BY <1>2, <1>3, <1>4, <1>7, RequestIsPair DEF StoreInv, Typed, Span
  <2>7. t < range[1] \/ range[2] < t
    <3>1. t \notin Span(range[1], range[2]) BY <1>2, <1>7
    <3> QED BY <2>6, <3>1 DEF Span
  <2>8. NoHole(stored) BY <1>5, <1>7 DEF StoreInv
  <2>9. CASE q[1] <= t /\ t <= q[2] BY <2>2, <2>9 DEF Span
  <2>10. CASE ~(q[1] <= t /\ t <= q[2])
    <3>1. (x <= t /\ t <= y) \/ (y <= t /\ t <= x)
      BY <1>7, <2>2, <2>4, <2>5, <2>6, <2>7, <2>10
    <3> QED BY <2>4, <2>8, <3>1 DEF NoHole
  <2> QED BY <2>9, <2>10
<1>8. ASSUME ~Parted', NEW s \in stored', NEW u \in stored', NEW t \in Market, s <= t, t <= u
      PROVE  t \in stored'
  <2>1. CASE t \in B BY <1>1, <2>1
  <2>2. CASE t \notin B /\ s \in stored /\ u \in stored
    BY <1>1, <1>5, <1>8, <2>2 DEF StoreInv, NoHole
  <2>3. CASE t \notin B /\ s \in B /\ u \in B
    <3>1. t \in Nat /\ s \in Nat /\ u \in Nat /\ range[1] \in Nat /\ range[2] \in Nat
      BY <1>3, <1>4, <2>3, RequestIsPair
    <3>2. range[1] < range[2] /\ range[1] <= s /\ u <= range[2] BY <1>2, <2>3 DEF Span
    <3>3. range[1] <= t /\ t <= range[2] BY <1>8, <3>1, <3>2
    <3>4. t \in Span(range[1], range[2]) BY <3>3 DEF Span
    <3> QED BY <1>2, <2>3, <3>2, <3>4
  <2>4. CASE t \notin B /\ s \in stored /\ u \in B BY <1>1, <1>7, <1>8, <2>4
  <2>5. CASE t \notin B /\ s \in B /\ u \in stored BY <1>1, <1>7, <1>8, <2>5
  <2> QED BY <1>1, <2>1, <2>2, <2>3, <2>4, <2>5
<1>9. ~Parted' => NoHole(stored') BY <1>8 DEF NoHole
<1>10. stored' \in SUBSET Market /\ whole' \in SUBSET Requests
  BY <1>1, <1>3 DEF StoreInv, Typed
<1> QED BY <1>1, <1>2, <1>5, <1>6, <1>9, <1>10

\* A gap that ends at a stored bar leaves no hole to it.
LEMMA SaveGapKeeps ==
  ASSUME StoreInv, NEW from \in Nat, NEW to \in Nat, from \in stored \/ to \in stored,
         stored' = stored \cup Downloaded(from, to), whole' = whole
  PROVE  /\ stored \subseteq stored' /\ stored' \in SUBSET Market /\ whole' \in SUBSET Requests
         /\ Parted' = Parted
         /\ WholeStored' /\ (~Parted' => NoHole(stored'))
         /\ from < to => Span(from, to) \subseteq stored'
<1> DEFINE B == Downloaded(from, to)
<1>1. stored' = stored \cup B OBVIOUS
<1>2. B = IF from < to THEN Span(from, to) ELSE {} BY DownloadedIsSpan
<1>3. B \in SUBSET Market BY <1>2 DEF Span
<1>4. Market \subseteq Nat /\ stored \subseteq Market BY BacktestJobsConstants DEF StoreInv, Typed
<1> HIDE DEF B
<1>5. Parted' = Parted BY DEF Parted
<1>6. WholeStored' BY <1>1, <1>2 DEF StoreInv, WholeStored
<1>7. ASSUME ~Parted', NEW s \in stored', NEW u \in stored', NEW t \in Market, s <= t, t <= u
      PROVE  t \in stored'
  <2>1. NoHole(stored) BY <1>5, <1>7 DEF StoreInv
  <2>2. t \in Nat /\ s \in Nat /\ u \in Nat BY <1>1, <1>3, <1>4
  <2>3. \A b \in Market : b \in B <=> from < to /\ from <= b /\ b <= to BY <1>2 DEF Span
  <2>4. s \in Market /\ u \in Market BY <1>1, <1>3, <1>4
  <2>5. CASE s \in stored /\ u \in stored BY <1>1, <1>7, <2>1, <2>5 DEF NoHole
  <2>6. CASE s \in stored /\ u \in B
    <3>1. t \in B \/ t <= from \/ to <= t BY <2>2, <2>3, <2>4, <2>6
    <3>2. t \in B \/ \E x \in stored : t <= x
      BY <1>4, <1>7, <2>2, <2>3, <2>4, <2>6
    <3> QED BY <1>1, <1>7, <2>1, <2>6, <3>2 DEF NoHole
  <2>7. CASE s \in B /\ u \in stored
    <3>1. t \in B \/ \E x \in stored : x <= t
      BY <1>4, <1>7, <2>2, <2>3, <2>4, <2>7
    <3> QED BY <1>1, <1>7, <2>1, <2>7, <3>1 DEF NoHole
  <2>8. CASE s \in B /\ u \in B BY <1>1, <1>7, <2>2, <2>3, <2>4, <2>8
  <2> QED BY <1>1, <2>5, <2>6, <2>7, <2>8
<1>8. ~Parted' => NoHole(stored') BY <1>7 DEF NoHole
<1> QED BY <1>1, <1>2, <1>3, <1>4, <1>5, <1>6, <1>8 DEF StoreInv, Typed

LEMMA DateRangeStored ==
  ASSUME Typed, stored # {}
  PROVE  /\ DateRange = <<Min(stored), Max(stored)>> /\ DateRange \in Nat \X Nat
         /\ DateRange # None
         /\ DateRange[1] \in stored /\ DateRange[2] \in stored
         /\ \A t \in stored : DateRange[1] <= t /\ t <= DateRange[2]
<1>1. stored \in SUBSET Nat /\ IsFiniteSet(stored)
  BY BacktestJobsConstants, FS_Subset DEF Typed
<1>2. /\ Min(stored) \in stored /\ Max(stored) \in stored
      /\ \A t \in stored : Min(stored) <= t /\ t <= Max(stored)
  <2>1. Min(stored) \in stored /\ \A t \in stored : Min(stored) <= t BY <1>1, MinOf
  <2>2. Max(stored) \in stored /\ \A t \in stored : Max(stored) >= t BY <1>1, MaxOf
  <2>3. Max(stored) \in Nat BY <1>1, <2>2
  <2>4. \A t \in stored : t \in Nat /\ Max(stored) >= t BY <1>1, <2>2
  <2>5. \A t \in stored : t <= Max(stored) BY <2>3, <2>4
  <2> QED BY <2>1, <2>2, <2>5
<1>3. DateRange = <<Min(stored), Max(stored)>> BY DEF DateRange
<1>4. Min(stored) \in Nat /\ Max(stored) \in Nat BY <1>1, <1>2
<1>5. DateRange \in Nat \X Nat BY <1>3, <1>4
<1>6. DateRange # None BY <1>5, BacktestJobsConstants
<1> QED BY <1>2, <1>3, <1>5, <1>6

\* One task goes on, and what is stored grows or stays.
LEMMA TaskGoesOn ==
  ASSUME StoreInv, NEW id \in TaskIds, jobs' = [jobs EXCEPT ![id] = jobs'[id]],
         stored \subseteq stored', stored' \in SUBSET Market, whole' \in SUBSET Requests,
         Parted => Parted', WholeStored', ~Parted' => NoHole(stored'),
         jobs'[id] \in JobType, Served(jobs'[id], stored', Parted')
  PROVE  StoreInv'
<1>1. Parted \in BOOLEAN /\ Parted' \in BOOLEAN BY DEF Parted
<1>2. ASSUME NEW k \in TaskIds PROVE Served(jobs'[k], stored', Parted')
  <2>1. CASE k = id BY <2>1
  <2>2. CASE k # id
    <3>1. jobs'[k] = jobs[k] BY <2>2 DEF StoreInv, Typed
    <3>2. Served(jobs[k], stored, Parted) BY DEF StoreInv
    <3> QED BY <1>1, <3>1, <3>2, ServedStays
  <2> QED BY <2>1, <2>2
<1>3. Typed' BY DEF StoreInv, Typed
<1>4. NoHole(stored)' <=> NoHole(stored') BY DEF NoHole
<1> QED BY <1>2, <1>3, <1>4 DEF StoreInv

\* ... while the store does not change.
LEMMA TaskMoves ==
  ASSUME StoreInv, NEW id \in TaskIds, NEW job \in JobType, jobs' = [jobs EXCEPT ![id] = job],
         UNCHANGED <<stored, whole>>, Served(job, stored, Parted)
  PROVE  StoreInv'
<1>1. jobs'[id] = job BY DEF StoreInv, Typed
<1>2. Parted' = Parted BY DEF Parted
<1>3. WholeStored' BY DEF StoreInv, WholeStored
<1> QED BY <1>1, <1>2, <1>3, TaskGoesOn DEF StoreInv, Typed

LEMMA NewJobServed ==
  ASSUME NEW pc \in Places, pc \in {"unsent", "queued", "queuedBot", "bot", "check", "ended"},
         NEW range \in Requests \cup {None}, NEW bars, NEW parted
  PROVE  /\ [NewJob EXCEPT !.pc = pc, !.range = range] \in JobType
         /\ Served([NewJob EXCEPT !.pc = pc, !.range = range], bars, parted)
BY DEF NewJob, JobType, Served, Places

\* One lemma for the steps of a task that neither download nor end it.
LEMMA StoreReadStep ==
  ASSUME StoreInv, NEW id \in TaskIds,
         CheckCoverage(id) \/ LoadCovered(id) \/ Load(id)
  PROVE  StoreInv'
<1> DEFINE job == jobs[id]
           range == jobs[id].range
           seen == jobs[id].seen
<1>1. /\ job \in JobType /\ Served(job, stored, Parted)
      /\ (~Parted => NoHole(stored))
      /\ range \in Requests \cup {None} /\ seen \in (Nat \X Nat) \cup {None}
      /\ stored \subseteq Market /\ Market \subseteq Nat
  BY BacktestJobsConstants DEF StoreInv, Typed, JobType
<1>2. CASE CheckCoverage(id)
  <2> DEFINE place == IF IsCovered(range, DateRange) THEN "covered"
                      ELSE IF range = None THEN "load" ELSE Gap(DateRange)
             next == [job EXCEPT !.seen = DateRange, !.pc = place]
  <2>1. jobs' = [jobs EXCEPT ![id] = next] /\ job.pc = "check" /\ UNCHANGED <<stored, whole>>
    BY <1>2 DEF CheckCoverage, StoreInv, Typed
  <2>2. DateRange \in (Nat \X Nat) \cup {None}
    BY DateRangeStored DEF StoreInv, DateRange
  <2>3. place \in {"covered", "load", "whole", "before"} BY DEF Gap
  <2>4. /\ next \in JobType /\ next.seen = DateRange /\ next.pc = place /\ next.range = range
        /\ next.got = job.got
    BY <1>1, <2>2, <2>3 DEF JobType, Places
  <2>5. DateRange # None => DateRange[1] \in stored /\ DateRange[2] \in stored
    BY DateRangeStored DEF StoreInv, DateRange
  <2>6. place = "covered" => /\ range # None /\ DateRange # None
                             /\ DateRange[1] <= range[1] /\ range[2] <= DateRange[2]
    <3>1. ASSUME IsCovered(range, DateRange)
          PROVE  /\ range # None /\ DateRange # None
                 /\ DateRange[1] <= range[1] /\ range[2] <= DateRange[2]
      <4>1. range # None /\ DateRange # None /\ DateRange[1] <= range[1]
            /\ DateRange[2] >= range[2]
        BY <3>1 DEF IsCovered
      <4>2. range[2] \in Nat /\ DateRange[2] \in Nat BY <1>1, <2>2, <4>1, RequestIsPair
      <4> QED BY <4>1, <4>2
    <3> QED BY <3>1 DEF Gap
  <2>7. place = "before" => range # None /\ DateRange # None BY DEF Gap
  <2>8. (place = "whole" => range # None) /\ (place = "load" => range = None) BY DEF Gap
  <2> HIDE DEF next, place
  <2>9. Served(next, stored, Parted) BY <1>1, <2>3, <2>4, <2>5, <2>6, <2>7, <2>8 DEF Served
  <2> QED BY <2>1, <2>4, <2>9, TaskMoves
<1>3. ASSUME range # None, ~Parted,
             \/ seen # None /\ seen[1] \in stored /\ seen[2] \in stored
                /\ seen[1] <= range[1] /\ range[2] <= seen[2]
             \/ range[1] < range[2] => Span(range[1], range[2]) \subseteq stored,
             Within(stored, range) # {}
      PROVE  Within(stored, range) = Span(range[1], range[2])
  <2>1. range[1] \in Nat /\ range[2] \in Nat BY <1>1, <1>3, RequestIsPair
  <2>2. Within(stored, range) = {t \in stored : range[1] <= t /\ t <= range[2]} BY <1>3 DEF Within
  <2>3. ASSUME NEW t \in Span(range[1], range[2]) PROVE t \in stored
    <3>1. t \in Market /\ t \in Nat /\ range[1] <= t /\ t <= range[2] BY <1>1 DEF Span
    <3>2. CASE range[1] < range[2] => Span(range[1], range[2]) \subseteq stored
      <4>1. CASE range[1] < range[2] BY <3>2, <4>1
      <4>2. CASE ~(range[1] < range[2])
        <5>1. PICK x \in Within(stored, range) : TRUE BY <1>3
        <5>2. x \in stored /\ x \in Nat /\ range[1] <= x /\ x <= range[2] BY <1>1, <2>2
        <5>3. x = t BY <2>1, <3>1, <4>2, <5>2
        <5> QED BY <5>2, <5>3
      <4> QED BY <4>1, <4>2
    <3>3. CASE seen # None /\ seen[1] \in stored /\ seen[2] \in stored
               /\ seen[1] <= range[1] /\ range[2] <= seen[2]
      <4>1. seen[1] \in Nat /\ seen[2] \in Nat BY <1>1, <3>3
      <4>2. seen[1] <= t /\ t <= seen[2] BY <2>1, <3>1, <3>3, <4>1
      <4> QED BY <1>1, <1>3, <3>1, <3>3, <4>2 DEF NoHole
    <3> QED BY <1>3, <3>2, <3>3
  <2> QED BY <1>1, <2>2, <2>3 DEF Span
<1>4. CASE LoadCovered(id)
  <2> DEFINE bars == Within(stored, range)
             next == [job EXCEPT !.got = bars, !.pc = IF bars = {} THEN Gap(seen) ELSE "run"]
  <2>1. jobs' = [jobs EXCEPT ![id] = next] /\ job.pc = "covered" /\ UNCHANGED <<stored, whole>>
    BY <1>4 DEF LoadCovered, StoreInv, Typed
  <2>2. /\ range # None /\ seen # None /\ seen[1] \in stored /\ seen[2] \in stored
        /\ seen[1] <= range[1] /\ range[2] <= seen[2]
    BY <1>1, <2>1 DEF Served
  <2>3. bars # {} /\ ~Parted => bars = Span(range[1], range[2]) BY <1>3, <2>2
  <2>4. bars \in SUBSET Market BY <1>1 DEF Within
  <2> HIDE DEF bars
  <2>5. /\ next \in JobType /\ next.seen = seen /\ next.range = range /\ next.got = bars
        /\ next.pc \in {"before", "run"}
    BY <1>1, <2>2, <2>4 DEF JobType, Places, Gap
  <2> HIDE DEF next
  <2>6. Served(next, stored, Parted) BY <2>2, <2>3, <2>5 DEF Served
  <2> QED BY <2>1, <2>5, <2>6, TaskMoves
<1>5. CASE Load(id)
  <2> DEFINE bars == Within(stored, range)
             next == [job EXCEPT !.got = bars, !.pc = "run"]
  <2>1. /\ jobs' = [jobs EXCEPT ![id] = next] /\ job.pc = "load" /\ bars # {}
        /\ UNCHANGED <<stored, whole>>
    BY <1>5 DEF Load, StoreInv, Typed
  <2>2. range # None /\ ~Parted /\ range[1] < range[2] => Span(range[1], range[2]) \subseteq stored
    BY <1>1, <2>1 DEF Served
  <2>3. range # None /\ ~Parted => bars = Span(range[1], range[2]) BY <1>3, <2>1, <2>2
  <2>4. bars \in SUBSET Market BY <1>1 DEF Within
  <2> HIDE DEF bars
  <2>5. /\ next \in JobType /\ next.seen = seen /\ next.range = range /\ next.got = bars
        /\ next.pc = "run"
    BY <1>1, <2>4 DEF JobType, Places
  <2> HIDE DEF next
  <2>6. Served(next, stored, Parted) BY <2>3, <2>5 DEF Served
  <2> QED BY <2>1, <2>5, <2>6, TaskMoves
<1> QED BY <1>2, <1>4, <1>5

LEMMA StoreDownloadStep ==
  ASSUME StoreInv, NEW id \in TaskIds,
         DownloadWhole(id) \/ DownloadBefore(id) \/ DownloadAfter(id)
  PROVE  StoreInv'
<1> DEFINE job == jobs[id]
           range == jobs[id].range
           seen == jobs[id].seen
<1>1. /\ job \in JobType /\ Served(job, stored, Parted)
      /\ (~Parted => NoHole(stored))
      /\ range \in Requests \cup {None} /\ seen \in (Nat \X Nat) \cup {None}
      /\ stored \subseteq Market /\ Market \subseteq Nat /\ whole \subseteq Requests
  BY BacktestJobsConstants DEF StoreInv, Typed, JobType
<1>2. ASSUME NEW pc \in {"load", "after"}, Goto(id, pc)
      PROVE  /\ jobs' = [jobs EXCEPT ![id] = jobs'[id]] /\ jobs'[id] \in JobType
             /\ jobs'[id].pc = pc /\ jobs'[id].range = range /\ jobs'[id].seen = seen
             /\ jobs'[id].got = job.got
  BY <1>1, <1>2 DEF Goto, StoreInv, Typed, JobType, Places
<1>3. Parted \in BOOLEAN /\ Parted' \in BOOLEAN BY DEF Parted
<1>4. CASE DownloadWhole(id)
  <2>1. job.pc = "whole" /\ SaveWhole(range) /\ Goto(id, "load") BY <1>4 DEF DownloadWhole
  <2>2. range \in Requests BY <1>1, <2>1 DEF Served
  <2>3. /\ stored \subseteq stored' /\ stored' \in SUBSET Market /\ whole' \in SUBSET Requests
        /\ Parted => Parted'
        /\ WholeStored' /\ (~Parted' => NoHole(stored'))
        /\ range[1] < range[2] => Span(range[1], range[2]) \subseteq stored'
    BY <2>1, <2>2, SaveWholeKeeps
  <2>4. Served(jobs'[id], stored', Parted') BY <1>1, <1>2, <2>1, <2>3 DEF Served
  <2> QED BY <1>2, <2>1, <2>3, <2>4, TaskGoesOn
<1>5. ASSUME job.pc \in {"before", "after"}
      PROVE  /\ range \in Requests /\ range[1] \in Nat /\ range[2] \in Nat /\ range # None
             /\ seen # None /\ seen[1] \in Nat /\ seen[2] \in Nat
             /\ seen[1] \in stored /\ seen[2] \in stored
  BY <1>1, <1>5, RequestIsPair DEF Served
<1>6. CASE DownloadBefore(id)
  <2>1. /\ job.pc = "before" /\ Goto(id, "after") /\ whole' = whole
        /\ stored' = stored \cup Downloaded(range[1], seen[1])
    BY <1>6 DEF DownloadBefore, BeforeCoverage
  <2>2. /\ stored \subseteq stored' /\ stored' \in SUBSET Market /\ whole' \in SUBSET Requests
        /\ Parted' = Parted
        /\ WholeStored' /\ (~Parted' => NoHole(stored'))
        /\ range[1] < seen[1] => Span(range[1], seen[1]) \subseteq stored'
    BY <1>5, <2>1, SaveGapKeeps
  <2>3. Served(jobs'[id], stored', Parted') BY <1>1, <1>2, <1>5, <2>1, <2>2 DEF Served
  <2> QED BY <1>2, <2>1, <2>2, <2>3, TaskGoesOn
<1>7. CASE DownloadAfter(id)
  <2>1. /\ job.pc = "after" /\ Goto(id, "load") /\ whole' = whole
        /\ stored' = stored \cup Downloaded(seen[2], range[2])
    BY <1>7 DEF DownloadAfter
  <2>2. /\ stored \subseteq stored' /\ stored' \in SUBSET Market /\ whole' \in SUBSET Requests
        /\ Parted' = Parted
        /\ WholeStored' /\ (~Parted' => NoHole(stored'))
        /\ seen[2] < range[2] => Span(seen[2], range[2]) \subseteq stored'
    BY <1>5, <2>1, SaveGapKeeps
  \* the gap before, the coverage and the gap after are all of the range
  <2>3. ASSUME ~Parted', NEW t \in Span(range[1], range[2]) PROVE t \in stored'
    <3>1. t \in Market /\ t \in Nat /\ range[1] <= t /\ t <= range[2] BY <1>1 DEF Span
    <3>2. range[1] < seen[1] => Span(range[1], seen[1]) \subseteq stored
      BY <1>1, <2>1 DEF Served
    <3>3. CASE t <= seen[1]
      <4>1. CASE t = seen[1] BY <1>5, <2>1, <2>2, <4>1
      <4>2. CASE t # seen[1]
        <5>1. range[1] < seen[1] BY <1>5, <2>1, <3>1, <3>3, <4>2
        <5>2. t \in Span(range[1], seen[1]) BY <3>1, <3>3 DEF Span
        <5> QED BY <2>2, <3>2, <5>1, <5>2
      <4> QED BY <4>1, <4>2
    <3>4. CASE seen[2] <= t
      <4>1. CASE t = seen[2] BY <1>5, <2>1, <2>2, <4>1
      <4>2. CASE t # seen[2]
        <5>1. seen[2] < range[2] BY <1>5, <2>1, <3>1, <3>4, <4>2
        <5>2. t \in Span(seen[2], range[2]) BY <3>1, <3>4 DEF Span
        <5> QED BY <2>2, <5>1, <5>2
      <4> QED BY <4>1, <4>2
    <3>5. CASE ~(t <= seen[1]) /\ ~(seen[2] <= t)
      <4>1. seen[1] <= t /\ t <= seen[2] BY <1>5, <2>1, <3>1, <3>5
      <4>2. NoHole(stored) BY <1>1, <2>2, <2>3
      <4> QED BY <1>5, <2>1, <2>2, <3>1, <4>1, <4>2 DEF NoHole
    <3> QED BY <3>3, <3>4, <3>5
  <2>4. Served(jobs'[id], stored', Parted') BY <1>1, <1>2, <1>5, <2>1, <2>2, <2>3 DEF Served
  <2> QED BY <1>2, <2>1, <2>2, <2>4, TaskGoesOn
<1> QED BY <1>4, <1>6, <1>7

LEMMA StoreInit == Init => StoreInv
<1> SUFFICES ASSUME Init PROVE StoreInv OBVIOUS
<1>1. NewJob \in JobType /\ Served(NewJob, stored, Parted)
  BY DEF NewJob, JobType, Served, Places
<1>2. Typed /\ WholeStored /\ NoHole(stored) BY <1>1 DEF Init, Typed, WholeStored, NoHole
<1> QED BY <1>1, <1>2 DEF Init, StoreInv

\* A task is created, started or ended.
LEMMA StoreTaskStep ==
  ASSUME StoreInv, IInv, NEW id \in TaskIds,
         \/ Start(id)
         \/ \E status \in {"completed", "failed"} : End(id, status)
  PROVE  StoreInv'
<1>1. jobs \in [TaskIds -> JobType] /\ jobs[id] \in JobType /\ Served(jobs[id], stored, Parted)
  BY DEF StoreInv, Typed
<1>2. CASE Start(id)
  <2> DEFINE place == IF jobs[id].pc = "queued" THEN "check" ELSE "bot"
             job == [jobs[id] EXCEPT !.pc = place]
  <2>1. jobs' = [jobs EXCEPT ![id] = job] /\ UNCHANGED <<stored, whole>>
    BY <1>1, <1>2 DEF Start
  <2>2. place \in {"check", "bot"} OBVIOUS
  <2>3. /\ job \in JobType /\ job.pc = place /\ job.got = jobs[id].got
        /\ job.range = jobs[id].range /\ job.seen = jobs[id].seen
    BY <1>1, <2>2 DEF JobType, Places
  <2> HIDE DEF job, place
  <2>4. Served(job, stored, Parted) BY <1>1, <2>2, <2>3 DEF Served
  <2> QED BY <2>1, <2>3, <2>4, TaskMoves
<1>3. CASE \E status \in {"completed", "failed"} : End(id, status)
  <2> DEFINE job == [NewJob EXCEPT !.pc = "ended"]
  <2>1. jobs' = [jobs EXCEPT ![id] = job] /\ UNCHANGED <<stored, whole>> BY <1>3 DEF End
  <2>2. job \in JobType /\ Served(job, stored, Parted)
    BY DEF NewJob, JobType, Places, Served
  <2> QED BY <2>1, <2>2, TaskMoves
<1> QED BY <1>2, <1>3

LEMMA StoreSubmitStep ==
  ASSUME StoreInv, IInv, NEW pc \in {"queued", "queuedBot"},
         NEW range \in Requests \cup {None}, Submit(pc, range)
  PROVE  StoreInv'
<1> DEFINE id == created + 1
           job == [jobs[id] EXCEPT !.pc = pc, !.range = range]
<1>1. id \in TaskIds /\ id > created
  BY BacktestJobsConstants DEF Submit, IInv, TypeOK, TaskIds
<1>2. /\ jobs \in [TaskIds -> JobType] /\ jobs[id] \in JobType
      /\ Served(jobs[id], stored, Parted) /\ jobs[id].pc = "unsent"
  BY <1>1 DEF StoreInv, Typed, IInv, Shape
<1>3. jobs' = [jobs EXCEPT ![id] = job] /\ UNCHANGED <<stored, whole>>
  BY <1>1, <1>2 DEF Submit
<1>4. job \in JobType /\ job.got = {} /\ job.pc = pc
  BY <1>2 DEF JobType, Places, Served
<1> HIDE DEF job, id
<1>5. Served(job, stored, Parted) BY <1>4 DEF Served
<1> QED BY <1>1, <1>3, <1>4, <1>5, TaskMoves

LEMMA StoreStep ==
  ASSUME StoreInv, IInv, [Next]_vars
  PROVE  StoreInv'
<1>1. ASSUME NEW range \in Requests \cup {None},
             SubmitBacktest(range) \/ SubmitSweep(range) \/ SubmitWalkForward(range)
      PROVE  StoreInv'
  BY <1>1, StoreSubmitStep DEF SubmitBacktest, SubmitSweep, SubmitWalkForward
<1>2. CASE SubmitBot BY <1>2, StoreSubmitStep DEF SubmitBot
<1>3. ASSUME NEW id \in TaskIds, Work(id) \/ EndBot(id) PROVE StoreInv'
  <2>1. CASE CheckCoverage(id) \/ LoadCovered(id) \/ Load(id) BY <2>1, StoreReadStep
  <2>2. CASE DownloadWhole(id) \/ DownloadBefore(id) \/ DownloadAfter(id)
    BY <2>2, StoreDownloadStep
  <2>3. CASE Start(id) BY <2>3, StoreTaskStep
  <2>4. CASE \/ Complete(id) \/ NoBars(id) \/ ConnectFails(id) \/ DownloadFails(id)
             \/ ReplayFails(id) \/ EndBot(id)
    <3>1. \E status \in {"completed", "failed"} : End(id, status)
      BY <2>4 DEF Complete, NoBars, ConnectFails, DownloadFails, ReplayFails, EndBot
    <3> QED BY <3>1, StoreTaskStep
  <2> QED BY <1>3, <2>1, <2>2, <2>3, <2>4 DEF Work
<1>4. ASSUME NEW range \in Requests, DownloadByHand(range) PROVE StoreInv'
  <2>1. SaveWhole(range) /\ jobs' = jobs BY <1>4 DEF DownloadByHand
  <2>2. /\ stored \subseteq stored' /\ stored' \in SUBSET Market /\ whole' \in SUBSET Requests
        /\ Parted => Parted'
        /\ WholeStored' /\ (~Parted' => NoHole(stored'))
    BY <2>1, SaveWholeKeeps
  <2>3. Parted \in BOOLEAN /\ Parted' \in BOOLEAN BY DEF Parted
  <2>4. ASSUME NEW k \in TaskIds PROVE Served(jobs'[k], stored', Parted')
    <3>1. Served(jobs[k], stored, Parted) BY DEF StoreInv
    <3> QED BY <2>1, <2>2, <2>3, <3>1, ServedStays
  <2>5. Typed' BY <2>1, <2>2 DEF StoreInv, Typed
  <2>6. NoHole(stored)' <=> NoHole(stored') BY DEF NoHole
  <2> QED BY <2>2, <2>4, <2>5, <2>6 DEF StoreInv
<1>5. CASE UNCHANGED vars
  <2>1. UNCHANGED <<jobs, stored, whole>> BY <1>5 DEF vars
  <2>2. Parted' = Parted /\ (WholeStored' <=> WholeStored) BY <2>1 DEF Parted, WholeStored
  <2> QED BY <2>1, <2>2 DEF StoreInv, Typed, NoHole
<1> QED BY <1>1, <1>2, <1>3, <1>4, <1>5 DEF Next

LEMMA InitEstablishesStore == Init => IInv /\ StoreInv
BY InitEstablishesIInv, StoreInit

LEMMA StepKeepsStore == IInv /\ StoreInv /\ [Next]_vars => IInv' /\ StoreInv'
BY StepKeepsIInv, StoreStep

\* "Multiple users can download overlapping ranges simultaneously without data loss"
\* (docs/backtesting.md): a backtest that has its bars has all of its range, whatever
\* other tasks, failed downloads and partial gaps did meanwhile, unless two ranges with
\* bars between them were both downloaded whole.
THEOREM ServedCorrect == Spec => []RangeIsServed
<1>1. StoreInv /\ IInv => RangeIsServed
  <2> SUFFICES ASSUME StoreInv, IInv, NEW id \in Created, jobs[id].got # {},
                      jobs[id].range # None, ~Parted
               PROVE  jobs[id].got = Within(Market, jobs[id].range)
    BY DEF RangeIsServed
  <2>1. id \in TaskIds BY BacktestJobsConstants DEF Created, TaskIds, IInv, TypeOK
  <2>2. jobs[id].got = Span(jobs[id].range[1], jobs[id].range[2])
    BY <2>1 DEF StoreInv, Served
  <2> QED BY <2>2 DEF Within, Span
<1> QED BY <1>1, InitEstablishesStore, StepKeepsStore, PTL DEF Spec

\* "_ensure_data_available" judges coverage by the first and the last bar: there is no
\* bar of the market between them that is not stored, after any failures, unless two
\* ranges with bars between them were both downloaded whole.
THEOREM CoverageCorrect == Spec => []CoverageHasNoHole
<1>1. StoreInv => CoverageHasNoHole
  <2> SUFFICES ASSUME StoreInv, stored # {}, ~Parted PROVE stored = Within(Market, DateRange)
    BY DEF CoverageHasNoHole
  <2>1. /\ DateRange # None /\ DateRange[1] \in stored /\ DateRange[2] \in stored
        /\ \A t \in stored : DateRange[1] <= t /\ t <= DateRange[2]
    BY DateRangeStored DEF StoreInv
  <2>2. stored \subseteq Market /\ NoHole(stored) BY DEF StoreInv, Typed
  <2>3. Within(Market, DateRange) = {t \in Market : DateRange[1] <= t /\ t <= DateRange[2]}
    BY <2>1 DEF Within
  <2> QED BY <2>1, <2>2, <2>3 DEF NoHole
<1> QED BY <1>1, InitEstablishesStore, StepKeepsStore, PTL DEF Spec
=============================================================================

------------------------- MODULE PipelineBuildsProofs -------------------------
(***************************************************************************)
(* What TLAPS proves of the builds of Pipeline: what is built was not      *)
(* built, has its sources, and stages only what the cache really has; the  *)
(* session implements BuildOrder, and nothing is built on a failure.       *)
(***************************************************************************)
EXTENDS PipelineProofs

-----------------------------------------------------------------------------
(* How elements come to a queue. *)

\* The pull comes first and the fetch before the build.
LEMMA QueuesInOrder ==
  /\ 1 \in QueueId /\ Queues[1] \in {"Pull", "Fetch"}
  /\ \A q \in QueueId : Queues[q] = "Pull" => q = 1
  /\ \A f, b \in QueueId : Queues[f] = "Fetch" /\ Queues[b] = "Build" => f < b
  /\ \A p, b \in QueueId : Queues[b] = "Build" /\ p < b => Queues[p] \in {"Pull", "Fetch"}
  /\ \A p, f \in QueueId : Queues[f] = "Fetch" /\ p < f => Queues[p] = "Pull"
  /\ \E f \in QueueId : Queues[f] = "Fetch"
<1>1. PICK f \in QueueId : Queues[f] = "Fetch"
  BY QueuesAssumption DEF Range, QueueId
<1>2. \A p, q \in QueueId : p = q \/ p < q \/ q < p
  BY QueuesTyped
<1>3. \A p, q \in QueueId : p < q => ~(q < p) /\ p # q
  BY QueuesTyped
<1>4. \A p, q \in QueueId : p < q => QueueOrder[Queues[p]] < QueueOrder[Queues[q]]
  BY QueuesAssumption
<1>5. /\ \A p, q \in QueueId : Queues[p] = "Pull" /\ p # q => p < q
      /\ \A p, q \in QueueId : Queues[p] = "Fetch" /\ Queues[q] = "Build" => p < q
      /\ \A p, q \in QueueId : Queues[q] = "Build" /\ p < q => Queues[p] \in {"Pull", "Fetch"}
      /\ \A p, q \in QueueId : Queues[q] = "Fetch" /\ p < q => Queues[p] = "Pull"
  BY <1>2, <1>3, <1>4, QueuesTyped, OneOfEach DEF QueueOrder
<1>6. 1 \in QueueId /\ \A q \in QueueId : ~(q < 1) /\ (q # 1 => 1 < q)
  BY <1>1, QueuesTyped
<1>7. Queues[1] \in {"Pull", "Fetch"}
  <2>1. f = 1 \/ 1 < f
    BY <1>6
  <2> QED  BY <1>1, <1>5, <1>6, <2>1
<1> QED  BY <1>1, <1>5, <1>6, <1>7

\* An element that is called back comes to the queue that it waited for.
Came(q, e) == \/ q = 1 /\ e \in requiredCallback
              \/ Queues[q] = "Fetch" /\ e \in canQueryCallback
              \/ Queues[q] = "Build" /\ e \in buildableCallback

LEMMA ArrivalsCame ==
  ASSUME NEW j, NEW q \in QueueId, NEW e \in Element, Arrivals(Fired(j), {})[q][e] # 0
  PROVE  Came(q, e)
<1> DEFINE fired == Fired(j)
           Reasons == {why \in {"required", "canQuery", "buildable", "again"} :
             CASE why = "required"  -> q = 1 /\ e \in fired.required
               [] why = "canQuery"  -> Queues[q] = "Fetch" /\ e \in fired.canQuery
               [] why = "buildable" -> Queues[q] = "Build" /\ e \in fired.buildable
               [] why = "again"     -> <<q, e>> \in {}}
<1>1. Cardinality(Reasons) # 0
  BY DEF Arrivals
<1>2. Reasons # {}
  <2> HIDE DEF Reasons
  <2> QED  BY <1>1, FS_EmptySet
<1>3. /\ fired.required \subseteq requiredCallback /\ fired.canQuery \subseteq canQueryCallback
      /\ fired.buildable \subseteq buildableCallback
  BY DEF Fired
<1> HIDE DEF fired
<1> QED  BY <1>2, <1>3 DEF Came

\* The end of a job: elements come by their callbacks, but for the job's own.
LEMMA JobDoneFlow ==
  ASSUME JobInv, NEW j \in jobs, NEW raised \in BOOLEAN, NEW reaction, reaction # "retry",
         JobDone(j, raised, reaction), NEW e \in Element
  PROVE  /\ \A q \in QueueId :
              /\ readyQueue'[q][e] # 0 => readyQueue[q][e] # 0 \/ (Ready(q, e)' /\ Came(q, e))
              /\ doneQueue'[q][e] # 0 => \/ doneQueue[q][e] # 0
                                         \/ Skipped(q, e)' /\ Came(q, e)
                                         \/ q = j.queue /\ e = j.elem /\ ~raised
         /\ e \in canQueryCallback' =>
              \/ e \in canQueryCallback
              \/ \E q \in QueueId : Queues[q] = "Fetch" /\ Pending(q, e)' /\ Came(q, e)
         /\ e \in buildableCallback' =>
              \/ e \in buildableCallback
              \/ \E q \in QueueId : Queues[q] = "Build" /\ Pending(q, e)' /\ Came(q, e)
<1> DEFINE done == IF raised THEN doneQueue ELSE [doneQueue EXCEPT ![j.queue][j.elem] = @ + 1]
           fired == Fired(j)
           arrivals == Arrivals(fired, {})
<1>1. j.queue \in QueueId /\ j.elem \in Element
  BY DEF JobInv, JobsTyped, JobRecord
<1>2. arrivals \in Counts
  BY ArrivalsTyped
<1>3. Enqueue(arrivals, done, fired)
  BY DEF JobDone
<1>4. \A q \in QueueId : arrivals[q][e] # 0 => Came(q, e)
  BY ArrivalsCame
<1>5. \A q \in QueueId : doneQueue[q][e] \in Nat /\ readyQueue[q][e] \in Nat
                         /\ arrivals[q][e] \in Nat
  BY <1>2 DEF JobInv, SessionTyped, Counts, Heap
<1>6. \A q \in QueueId :
        done[q][e] \in Nat /\ (done[q][e] # doneQueue[q][e] => q = j.queue /\ e = j.elem /\ ~raised)
  <2>1. doneQueue \in [QueueId -> [Element -> Nat]]
    BY DEF JobInv, SessionTyped, Counts, Heap
  <2>2. ASSUME NEW q \in QueueId
        PROVE  done[q][e] \in Nat /\ (done[q][e] # doneQueue[q][e] => q = j.queue /\ e = j.elem /\ ~raised)
    <3>1. CASE q = j.queue /\ ~raised
      <4>1. done[q] = [doneQueue[q] EXCEPT ![j.elem] = @ + 1]
        BY <2>1, <3>1
      <4>2. doneQueue[q] \in [Element -> Nat]
        BY <2>1
      <4>3. e = j.elem => done[q][e] = doneQueue[q][e] + 1
        BY <4>1, <4>2
      <4>4. e # j.elem => done[q][e] = doneQueue[q][e]
        BY <4>1, <4>2
      <4> HIDE DEF done
      <4> QED  BY <1>5, <3>1, <4>3, <4>4
    <3>2. CASE q # j.queue \/ raised
      <4>1. done[q] = doneQueue[q]
        BY <1>1, <2>1, <3>2
      <4> QED  BY <1>5, <4>1
    <3> QED  BY <3>1, <3>2
  <2> QED  BY <2>2
<1> HIDE DEF done, fired, arrivals
<1>7. \A q \in QueueId :
        /\ readyQueue'[q][e] = readyQueue[q][e] + (IF Ready(q, e)' THEN arrivals[q][e] ELSE 0)
        /\ doneQueue'[q][e] = done[q][e] + (IF Skipped(q, e)' THEN arrivals[q][e] ELSE 0)
  BY <1>3 DEF Enqueue
<1>8. /\ e \in canQueryCallback' =>
           e \in canQueryCallback \/ e \in Registered("Fetch", arrivals)
      /\ e \in buildableCallback' =>
           e \in buildableCallback \/ e \in Registered("Build", arrivals)
  BY <1>3 DEF Enqueue
<1>9. \A name : e \in Registered(name, arrivals) =>
        \E q \in QueueId : Queues[q] = name /\ Pending(q, e)' /\ Came(q, e)
  BY <1>4, <1>5 DEF Registered
<1>10. ASSUME NEW q \in QueueId
       PROVE  /\ readyQueue'[q][e] # 0 => readyQueue[q][e] # 0 \/ (Ready(q, e)' /\ arrivals[q][e] # 0)
              /\ doneQueue'[q][e] # 0 => done[q][e] # 0 \/ (Skipped(q, e)' /\ arrivals[q][e] # 0)
  BY <1>5, <1>6, <1>7
<1> QED  BY <1>4, <1>6, <1>8, <1>9, <1>10

\* The start of the scheduler: what is required comes to the first queue.
LEMMA EnqueuePlanFlow ==
  ASSUME JobInv, QueryEmpty, EnqueuePlan, NEW e \in Element
  PROVE  /\ jobs' = {}
         /\ \A q \in QueueId :
              /\ readyQueue'[q][e] # 0 => Ready(q, e)' /\ q = 1
              /\ doneQueue'[q][e] # 0 => Skipped(q, e)' /\ q = 1
         /\ e \in canQueryCallback' => Queues[1] = "Fetch" /\ Pending(1, e)'
         /\ e \notin buildableCallback'
<1> DEFINE arrivals == [NoArrivals EXCEPT ![1] = Once(required)]
<1>1. /\ jobs' = {} /\ canQueryCallback = {} /\ buildableCallback = {}
      /\ readyQueue = NoArrivals /\ doneQueue = NoArrivals
  BY DEF EnqueuePlan, QueryEmpty
<1>2. Enqueue(arrivals, NoArrivals, NoneFired)
  BY <1>1 DEF EnqueuePlan
<1>3. \A q \in QueueId : arrivals[q][e] \in {0, 1} /\ (arrivals[q][e] # 0 => q = 1)
  <2>1. NoArrivals \in Counts
    BY NoArrivalsTyped
  <2>2. Once(required)[e] \in {0, 1} /\ \A q \in QueueId : NoArrivals[q][e] = 0
    BY DEF Once, NoArrivals, Nothing
  <2> QED  BY <2>1, <2>2 DEF Counts
<1> HIDE DEF arrivals
<1>4. \A q \in QueueId :
        /\ readyQueue'[q][e] = 0 + (IF Ready(q, e)' THEN arrivals[q][e] ELSE 0)
        /\ doneQueue'[q][e] = 0 + (IF Skipped(q, e)' THEN arrivals[q][e] ELSE 0)
  BY <1>1, <1>2 DEF Enqueue, NoArrivals, Nothing
<1>5. /\ e \in canQueryCallback' => e \in Registered("Fetch", arrivals)
      /\ e \in buildableCallback' => e \in Registered("Build", arrivals)
  BY <1>1, <1>2 DEF Enqueue
<1>6. \A name : e \in Registered(name, arrivals) => Queues[1] = name /\ Pending(1, e)'
  BY <1>3 DEF Registered
<1>7. \A q \in QueueId :
        /\ readyQueue'[q][e] # 0 => Ready(q, e)' /\ q = 1
        /\ doneQueue'[q][e] # 0 => Skipped(q, e)' /\ q = 1
  BY <1>3, <1>4
<1> QED  BY <1>1, <1>5, <1>6, <1>7, QueuesInOrder

\* A run of the scheduler: what is done in a queue comes to the next ones, as far as
\* those between skip it.
Flowed(q, e) == \E p \in 1..(q - 1) : /\ doneQueue[p][e] # 0
                                      /\ \A r \in (p + 1)..(q - 1) : Skipped(r, e)

LEMMA QueueJobsFlow ==
  ASSUME JobInv, QueueJobs, UNCHANGED elementVars, NEW e \in Element, Single(e)
  PROVE  /\ NoneOf(doneQueue, e)'
         /\ \A q \in QueueId :
              readyQueue'[q][e] # 0 => readyQueue[q][e] # 0 \/ (Ready(q, e) /\ Flowed(q, e))
         /\ e \in canQueryCallback' =>
              \/ e \in canQueryCallback
              \/ \E q \in QueueId : Queues[q] = "Fetch" /\ Pending(q, e) /\ Flowed(q, e)
         /\ e \in buildableCallback' =>
              \/ e \in buildableCallback
              \/ \E q \in QueueId : Queues[q] = "Build" /\ Pending(q, e) /\ Flowed(q, e)
         /\ \A k \in jobs' : k.elem = e =>
              \/ k \in jobs
              \/ /\ k.queue \in QueueId /\ k.st = "start" /\ k.stop = "no"
                 /\ \/ readyQueue[k.queue][e] # 0
                    \/ Ready(k.queue, e) /\ Flowed(k.queue, e)
<1>1. OneOf(doneQueue, e)
  BY DEF Single, OneSpot, Idle, NoneOf, OneOf
<1>2. ASSUME NEW q \in QueueId PROVE Arrived[q][e] # 0 => Flowed(q, e)
  <2>1. q - 1 \in 0..Len(Queues) /\ Arrived[q] = Leaving[q - 1]
    BY QueuesTyped DEF Arrived
  <2> QED  BY <1>1, <2>1, LeavesOnce DEF Flowed
<1>3. \A q \in QueueId : readyQueue[q][e] \in Nat /\ Arrived[q][e] \in Nat
  BY QueuedAndPopped DEF JobInv, SessionTyped, Counts, Heap
<1>4. \A q \in QueueId :
        Queued[q][e] = readyQueue[q][e] + (IF Ready(q, e) THEN Arrived[q][e] ELSE 0)
  BY DEF Queued
<1>5. \A q \in QueueId :
        Queued[q][e] # 0 => readyQueue[q][e] # 0 \/ (Ready(q, e) /\ Flowed(q, e))
  BY <1>2, <1>3, <1>4
<1>6. ASSUME NEW q \in QueueId, readyQueue'[q][e] # 0 PROVE Queued[q][e] # 0
  <2>1. /\ Queued[q][e] \in Nat
        /\ readyQueue'[q][e] \in Nat /\ readyQueue'[q][e] <= Queued[q][e]
    BY QueueJobsTake
  <2> QED  BY <1>6, <2>1
<1>7. \A q \in QueueId : Pending(q, e)' <=> Pending(q, e)
  BY DEF Pending, NothingToBuild, CachedSuccess, Successful, Buildable, FetchNeeded,
         elementVars, artifactVars, sourceVars, cascadeVars
<1>8. \A name : e \in Registered(name, Arrived) =>
        \E q \in QueueId : Queues[q] = name /\ Pending(q, e) /\ Flowed(q, e)
  BY <1>2, <1>3, <1>7 DEF Registered
<1>9. /\ canQueryCallback' = canQueryCallback \cup Registered("Fetch", Arrived)
      /\ buildableCallback' = buildableCallback \cup Registered("Build", Arrived)
      /\ NoneOf(doneQueue, e)'
  BY QueueJobsDoes DEF NoneOf, NoArrivals, Nothing
<1>10. ASSUME NEW k \in jobs', k.elem = e, k \notin jobs
       PROVE  /\ k.queue \in QueueId /\ k.st = "start" /\ k.stop = "no" /\ Queued[k.queue][e] # 0
  <2>1. PICK q \in QueueId : k \in New(q)
    BY <1>10, QueueJobsKeeps
  <2>2. k.stop = "no"
    <3> DEFINE job(c) == [queue |-> q, elem |-> c[1], copy |-> Latest(q, c[1]) + c[2],
                          st |-> "start", stop |-> "no"]
    <3>1. New(q) = {job(c) : c \in PoppedOf(q)}
      BY DEF New, JobsOf, Latest
    <3>2. PICK c \in PoppedOf(q) : k = job(c)
      BY <2>1, <3>1
    <3> QED  BY <3>2
  <2>3. k.queue = q /\ k.st = "start" /\ Queued[q][k.elem] # 0
    BY <2>1, NewOfQueue
  <2> QED  BY <1>10, <2>2, <2>3
<1> QED  BY <1>5, <1>6, <1>8, <1>9, <1>10

-----------------------------------------------------------------------------
(* What a job has to itself. *)

LEMMA HasJob ==
  ASSUME JobInv, PlaceInv, NEW j \in jobs
  PROVE  /\ j.elem \in Element /\ j.queue \in QueueId /\ j.st \in JobState
         /\ Idle(j.elem) /\ j.elem \notin requiredCallback
         /\ \A k \in jobs : k.elem = j.elem => k = j
BY DEF JobInv, JobsTyped, JobRecord, PlaceInv, Single, NoJob, OneJob

\* What a thread may make of its job.
Moves(j, st) ==
  /\ st = "term" => j.stop # "no"
  /\ InQueue(j, "Fetch") => /\ st = "fail" => "fetch" \in Faults
                            /\ st # "skip"
                            /\ st = "ok" => j.elem \in sourcesCached'
  /\ InQueue(j, "Build") => /\ st # "skip"
                            /\ st \in {"begun", "built"} => j.st \in {"start", "begun"}

Moved(j) == \E st \in JobState \ {"start"} : ThreadAt(j, st) /\ Moves(j, st)

LEMMA ThreadMoves ==
  ASSUME JobInv, NEW j \in jobs, ThreadStep(j)
  PROVE  /\ UNCHANGED <<mainVars, cascadeVars>>
         /\ sourcesCached \subseteq sourcesCached'
         /\ \E st \in JobState \ {"start"} :
              /\ jobs' = (jobs \ {j}) \cup {[j EXCEPT !.st = st]}
              /\ Moves(j, st)
<1>1. UNCHANGED <<mainVars, cascadeVars>> /\ sourcesCached \subseteq sourcesCached'
  BY DEF ThreadStep, Begin, PullStep, FetchStep, Assemble, CacheArtifact, PushStep, Terminate,
         elementVars, sourceVars
<1>2. ASSUME NEW st \in JobState \ {"start"}, ThreadAt(j, st), Moves(j, st)
      PROVE  Moved(j)
  BY <1>2 DEF Moved
<1>3. ASSUME Begin(j) PROVE Moved(j)
  BY <1>2, <1>3 DEF Begin, JobState, Moves, InQueue
<1>4. ASSUME PullStep(j) PROVE Moved(j)
  <2>1. \E s \in {"ok", "skip", "fail"} : ThreadAt(j, s) /\ InQueue(j, "Pull")
    BY <1>4 DEF PullStep
  <2> QED  BY <1>2, <2>1 DEF JobState, Moves, InQueue
<1>5. ASSUME FetchStep(j) PROVE Moved(j)
  BY <1>2, <1>5 DEF FetchStep, JobState, Moves, InQueue
<1>6. ASSUME Assemble(j) PROVE Moved(j)
  BY <1>2, <1>6 DEF Assemble, JobState, Moves, InQueue
<1>7. ASSUME CacheArtifact(j) PROVE Moved(j)
  <2>1. \E s \in {"ok", "term", "fail"} :
          ThreadAt(j, s) /\ InQueue(j, "Build") /\ (s = "term" => j.stop = "yes")
    BY <1>7 DEF CacheArtifact
  <2> QED  BY <1>2, <2>1 DEF JobState, Moves, InQueue
<1>8. ASSUME PushStep(j) PROVE Moved(j)
  BY <1>2, <1>8 DEF PushStep, JobState, Moves, InQueue
<1>9. ASSUME Terminate(j) PROVE Moved(j)
  BY <1>2, <1>9 DEF Terminate, JobState, Moves
<1>10. Moved(j)
  BY <1>3, <1>4, <1>5, <1>6, <1>7, <1>8, <1>9 DEF ThreadStep
<1> QED  BY <1>1, <1>10 DEF Moved, ThreadAt

\* Interruptions move no element and no job.
Quiet == TerminateJobs \/ Environment \/ Stopped \/ UNCHANGED vars
Alike(k, l) == k.queue = l.queue /\ k.elem = l.elem /\ k.st = l.st

LEMMA QuietKeeps ==
  ASSUME JobInv, Quiet
  PROVE  /\ UNCHANGED <<elementVars, phase, position, queueVars>>
         /\ terminated => terminated'
         /\ \A k \in jobs' : \E l \in jobs : Alike(k, l)
         /\ \A l \in jobs : \E k \in jobs' : Alike(k, l)
<1>1. CASE TerminateJobs
  <2>1. /\ UNCHANGED <<elementVars, phase, position, queueVars>>
        /\ terminated' = terminated
    BY <1>1 DEF TerminateJobs, loopVars
  <2> DEFINE told(j) == [j EXCEPT !.stop = IF @ # "no" \/ j.st \in Over THEN @
                                           ELSE IF j.st = "start" THEN "unnoticed" ELSE "yes"]
  <2>2. jobs' = {told(j) : j \in jobs}
    BY <1>1 DEF TerminateJobs
  <2>3. \A j \in jobs : Alike(told(j), j)
    BY DEF Alike, JobInv, JobsTyped, JobRecord
  <2> HIDE DEF told
  <2> QED  BY <2>1, <2>2, <2>3
<1>2. CASE Environment \/ Stopped \/ UNCHANGED vars
  BY <1>2 DEF Environment, Quit, TerminateStream, TerminateScheduler, Stopped, vars, loopVars,
              flagVars, Alike
<1> QED  BY <1>1, <1>2 DEF Quiet

\* A thread works on its own element.
Untouched(e) ==
  /\ stored'[e] = stored[e] /\ artifact'[e] = artifact[e] /\ buildResult'[e] = buildResult[e]
  /\ e \in pullPending' <=> e \in pullPending
  /\ e \in cachedSuccessfully' <=> e \in cachedSuccessfully
  /\ e \in sourcesCached' <=> e \in sourcesCached

LEMMA UntouchedSuccess ==
  ASSUME NEW e \in Element, Untouched(e)
  PROVE  CachedSuccess(e)' <=> CachedSuccess(e)
BY DEF Untouched, CachedSuccess, Successful

LEMMA ThreadTouches ==
  ASSUME ElementTyped, NEW j \in jobs, ThreadStep(j), NEW e \in Element, e # j.elem
  PROVE  Untouched(e)
<1>1. cachedSuccessfully' = cachedSuccessfully
  BY DEF ThreadStep, Begin, PullStep, FetchStep, Assemble, CacheArtifact, PushStep, Terminate,
         elementVars, cascadeVars
<1>2. /\ stored \in [Element -> Result] /\ artifact \in [Element -> {"none", "uncached", "cached"}]
      /\ buildResult \in [Element -> Result]
  BY DEF ElementTyped, ArtifactsTyped
<1>3. \/ UNCHANGED <<artifactVars, sourceVars>>
      \/ PullBegins(j.elem) /\ UNCHANGED sourceVars
      \/ UNCHANGED sourceVars /\ \E found, discarded : PullEnds(j.elem, found, discarded)
      \/ UNCHANGED artifactVars /\ sourcesCached' \in {sourcesCached, sourcesCached \cup {j.elem}}
      \/ /\ UNCHANGED <<stored, artifact, pullPending, sourceVars>>
         /\ \E result : buildResult' = [buildResult EXCEPT ![j.elem] = result]
      \/ /\ UNCHANGED <<artifact, buildResult, pullPending, sourceVars>>
         /\ \E result : stored' = [stored EXCEPT ![j.elem] = result]
  <2>1. CASE Begin(j)
    BY <2>1 DEF Begin, elementVars, artifactVars
  <2>2. CASE PullStep(j)
    BY <2>2 DEF PullStep
  <2>3. CASE FetchStep(j)
    BY <2>3 DEF FetchStep, sourceVars
  <2>4. CASE Assemble(j)
    BY <2>4 DEF Assemble, artifactVars
  <2>5. CASE CacheArtifact(j)
    BY <2>5 DEF CacheArtifact, artifactVars
  <2>6. CASE PushStep(j) \/ Terminate(j)
    BY <2>6 DEF PushStep, Terminate, elementVars
  <2> QED  BY <2>1, <2>2, <2>3, <2>4, <2>5, <2>6 DEF ThreadStep
<1>4. CASE UNCHANGED <<artifactVars, sourceVars>>
  BY <1>1, <1>4 DEF artifactVars, sourceVars, Untouched
<1>5. CASE PullBegins(j.elem) /\ UNCHANGED sourceVars
  BY <1>1, <1>5 DEF PullBegins, sourceVars, Untouched
<1>6. CASE UNCHANGED sourceVars /\ \E found, discarded : PullEnds(j.elem, found, discarded)
  BY <1>1, <1>2, <1>6 DEF PullEnds, sourceVars, Untouched
<1>7. CASE /\ UNCHANGED artifactVars
           /\ sourcesCached' \in {sourcesCached, sourcesCached \cup {j.elem}}
  BY <1>1, <1>7 DEF artifactVars, Untouched
<1>8. CASE /\ UNCHANGED <<stored, artifact, pullPending, sourceVars>>
           /\ \E result : buildResult' = [buildResult EXCEPT ![j.elem] = result]
  BY <1>1, <1>2, <1>8 DEF sourceVars, Untouched
<1>9. CASE /\ UNCHANGED <<artifact, buildResult, pullPending, sourceVars>>
           /\ \E result : stored' = [stored EXCEPT ![j.elem] = result]
  BY <1>1, <1>2, <1>9 DEF sourceVars, Untouched
<1> QED  BY <1>3, <1>4, <1>5, <1>6, <1>7, <1>8, <1>9

\* What turns ready was known to be cached successfully.
LEMMA LoadDoneSuccess ==
  ASSUME NEW x, LoadArtifactDone(x), UNCHANGED artifact, UNCHANGED buildResult,
         NEW e \in Element
  PROVE  CachedSuccess(e)' <=> CachedSuccess(e)
<1> DEFINE keys == IF artifact[x] = "cached" THEN KeysUpdated(cacheKey, {x}) ELSE cacheKey
           S == NewlyReady(x, keys, Successful(artifact))
<1>1. cachedSuccessfully' = cachedSuccessfully \cup S
  BY DEF LoadArtifactDone, Notify
<1>2. S \subseteq Successful(artifact)
  <2> HIDE DEF keys
  <2> QED  BY NewlyReadyIsNew
<1> HIDE DEF S
<1> QED  BY <1>1, <1>2 DEF CachedSuccess, Successful

\* The end of a job changes what is known of its own element only.
LEMMA JobDoneTouches ==
  ASSUME ElementTyped, NEW j \in jobs, j.elem \in Element, NEW raised \in BOOLEAN, NEW reaction,
         JobDone(j, raised, reaction), NEW e \in Element
  PROVE  /\ UNCHANGED <<stored, buildResult, pullPending>>
         /\ sourcesCached \subseteq sourcesCached'
         /\ cachedSuccessfully \subseteq cachedSuccessfully'
         /\ e # j.elem => artifact'[e] = artifact[e] /\ (CachedSuccess(e)' <=> CachedSuccess(e))
         /\ ~InQueue(j, "Build") => UNCHANGED artifact /\ (CachedSuccess(e)' <=> CachedSuccess(e))
<1>1. \/ LoadArtifactDone(j.elem) /\ UNCHANGED <<artifactVars, sourceVars>> /\ InQueue(j, "Pull")
      \/ FetchDone(j.elem) /\ UNCHANGED <<artifactVars, cascadeVars>>
      \/ InQueue(j, "Build") /\ AssembleDone(j.elem, j.st = "ok") /\ UNCHANGED sourceVars
      \/ UNCHANGED elementVars
  BY DEF JobDone, Finish
<1>2. CASE LoadArtifactDone(j.elem) /\ UNCHANGED <<artifactVars, sourceVars>> /\ InQueue(j, "Pull")
  <2>1. CachedSuccess(e)' <=> CachedSuccess(e)
    BY <1>2, LoadDoneSuccess DEF artifactVars
  <2> QED  BY <1>2, <2>1 DEF artifactVars, sourceVars, LoadArtifactDone, Notify
<1>3. CASE FetchDone(j.elem) /\ UNCHANGED <<artifactVars, cascadeVars>>
  BY <1>3 DEF FetchDone, artifactVars, cascadeVars, CachedSuccess, Successful
<1>4. CASE InQueue(j, "Build") /\ AssembleDone(j.elem, j.st = "ok") /\ UNCHANGED sourceVars
  <2> DEFINE handle == [artifact EXCEPT ![j.elem] =
                          IF j.st = "ok" \/ stored[j.elem] # "none" THEN "cached" ELSE "uncached"]
             built == IF j.st = "ok" THEN {j.elem} ELSE {}
             keys == KeysUpdated(cacheKey, {j.elem})
             S == NewlyReady(j.elem, keys, Successful(handle) \cup built)
  <2>1. /\ cachedSuccessfully' = cachedSuccessfully \cup (S \cup built) /\ artifact' = handle
        /\ UNCHANGED <<stored, buildResult, pullPending>>
    BY <1>4 DEF AssembleDone, Notify
  <2>2. S \subseteq Successful(handle) \cup built
    <3> HIDE DEF keys, handle, built
    <3> QED  BY NewlyReadyIsNew
  <2>3. e # j.elem => handle[e] = artifact[e] /\ e \notin built
    BY DEF ElementTyped, ArtifactsTyped
  <2> HIDE DEF S, handle, built
  <2>4. e # j.elem => (CachedSuccess(e)' <=> CachedSuccess(e))
    BY <2>1, <2>2, <2>3 DEF CachedSuccess, Successful
  <2>5. sourcesCached' = sourcesCached /\ Queues[j.queue] = "Build"
    BY <1>4 DEF sourceVars, InQueue
  <2> QED  BY <2>1, <2>3, <2>4, <2>5 DEF InQueue
<1>5. CASE UNCHANGED elementVars
  BY <1>5 DEF elementVars, artifactVars, sourceVars, cascadeVars, CachedSuccess, Successful
<1> QED  BY <1>1, <1>2, <1>3, <1>4, <1>5

-----------------------------------------------------------------------------
(* What is ready to be built is not built. *)

BuildWaits(e) == \E q \in QueueId : Queues[q] = "Build" /\ readyQueue[q][e] # 0

UnbuiltInv ==
  /\ \A e \in Element : BuildWaits(e) => ~CachedSuccess(e)
  /\ NotBuiltTwice

LEMMA ReadyIsUnbuilt ==
  \A q \in QueueId, e \in Element : Queues[q] = "Build" /\ Ready(q, e) => ~CachedSuccess(e)
BY DEF Ready, Skipped, NothingToBuild

LEMMA ReadyIsUnbuiltNext ==
  \A q \in QueueId, e \in Element : Queues[q] = "Build" /\ Ready(q, e)' => ~CachedSuccess(e)'
<1>1. (\A q \in QueueId, e \in Element : Queues[q] = "Build" /\ Ready(q, e) => ~CachedSuccess(e))'
  BY ReadyIsUnbuilt, PTL
<1> QED  BY <1>1

LEMMA SameSuccess ==
  ASSUME UNCHANGED elementVars
  PROVE  \A e \in Element : CachedSuccess(e)' <=> CachedSuccess(e)
BY DEF elementVars, artifactVars, cascadeVars, CachedSuccess, Successful

LEMMA UnbuiltInit == Init => UnbuiltInv
BY DEF Init, UnbuiltInv, BuildWaits, NotBuiltTwice, NoArrivals, Nothing

LEMMA UnbuiltNext ==
  ASSUME "retry" \notin OnFailure, JobInv, PlaceInv, ElementTyped, UnbuiltInv, [Next]_vars
  PROVE  UnbuiltInv'
<1>0. \A j \in jobs : j.elem \in Element
  BY DEF JobInv, JobsTyped, JobRecord
<1>1. CASE \E j \in jobs : ThreadStep(j)
  <2>1. PICK j \in jobs : ThreadStep(j)
    BY <1>1
  <2>2. PICK st \in JobState \ {"start"} :
          jobs' = (jobs \ {j}) \cup {[j EXCEPT !.st = st]} /\ UNCHANGED readyQueue
    BY <2>1, ThreadMoves DEF mainVars, queueVars
  <2>3. \A e \in Element : e # j.elem => (CachedSuccess(e)' <=> CachedSuccess(e))
    BY <2>1, ThreadTouches, UntouchedSuccess
  <2>4. ~BuildWaits(j.elem) /\ \A k \in jobs : k.elem = j.elem => k = j
    BY HasJob DEF BuildWaits, Idle, NoneOf
  <2>5. j.st \in JobState /\ [j EXCEPT !.st = st].st = st
    BY HasJob DEF JobInv, JobsTyped, JobRecord
  <2>6. \A k \in jobs' : k.st = "start" => k \in jobs /\ k.elem # j.elem
    BY <2>2, <2>4, <2>5
  <2>7. \A e \in Element : BuildWaits(e)' <=> BuildWaits(e)
    BY <2>2 DEF BuildWaits
  <2> QED  BY <1>0, <2>3, <2>4, <2>6, <2>7 DEF UnbuiltInv, NotBuiltTwice, InQueue
<1>2. CASE Quiet
  <2>1. UNCHANGED <<elementVars, readyQueue>> /\ \A k \in jobs' : \E l \in jobs : Alike(k, l)
    BY <1>2, QuietKeeps DEF queueVars
  <2> QED
    BY <1>0, <2>1, SameSuccess DEF UnbuiltInv, NotBuiltTwice, InQueue, BuildWaits, Alike
<1>3. CASE QueryArtifact \/ QueryArtifactDone
  <2>1. /\ jobs' = {} /\ readyQueue' = NoArrivals
    BY <1>3 DEF QueryArtifact, QueryArtifactDone, queueVars, PlaceInv, QueryEmpty
  <2> QED  BY <2>1 DEF UnbuiltInv, NotBuiltTwice, BuildWaits, NoArrivals, Nothing
<1>4. CASE EnqueuePlan
  <2>1. QueryEmpty
    BY DEF PlaceInv
  <2>2. jobs' = {}
    BY <1>4 DEF QueryEmpty, EnqueuePlan, PlaceInv
  <2>3. \A e \in Element : \A q \in QueueId : readyQueue'[q][e] # 0 => Ready(q, e)'
    BY <1>4, <2>1, EnqueuePlanFlow
  <2> QED  BY <2>2, <2>3, ReadyIsUnbuiltNext DEF UnbuiltInv, NotBuiltTwice, BuildWaits
<1>5. CASE RealSchedule
  <2>1. UNCHANGED elementVars
    BY <1>5 DEF RealSchedule
  <2>2. CASE terminated
    BY <1>0, <1>5, <2>1, <2>2, SameSuccess
       DEF RealSchedule, UnbuiltInv, NotBuiltTwice, InQueue, BuildWaits
  <2>3. CASE ~terminated
    <3>1. QueueJobs
      BY <1>5, <2>3 DEF RealSchedule
    <3>2. ASSUME NEW e \in Element, BuildWaits(e)' PROVE ~CachedSuccess(e)
      <4>1. Single(e)
        BY DEF PlaceInv
      <4> QED  BY <2>1, <3>1, <3>2, <4>1, QueueJobsFlow, ReadyIsUnbuilt DEF UnbuiltInv, BuildWaits
    <3>3. ASSUME NEW k \in jobs', Queues[k.queue] = "Build", k.st = "start"
          PROVE  k.elem \in Element /\ ~CachedSuccess(k.elem)
      <4>1. k.elem \in Element
        BY <3>1, QueueJobsKeeps DEF JobsTyped, JobRecord
      <4>2. Single(k.elem)
        BY <4>1 DEF PlaceInv
      <4>3. CASE k \in jobs
        BY <3>3, <4>1, <4>3 DEF UnbuiltInv, NotBuiltTwice, InQueue
      <4>4. CASE k \notin jobs
        <5>1. /\ k.queue \in QueueId
              /\ readyQueue[k.queue][k.elem] # 0 \/ Ready(k.queue, k.elem)
          BY <2>1, <3>1, <4>1, <4>2, <4>4, QueueJobsFlow
        <5> QED  BY <3>3, <4>1, <5>1, ReadyIsUnbuilt DEF UnbuiltInv, BuildWaits
      <4> QED  BY <4>3, <4>4
    <3> QED  BY <2>1, <3>2, <3>3, SameSuccess DEF UnbuiltInv, NotBuiltTwice, InQueue
  <2> QED  BY <2>2, <2>3
<1>6. ASSUME NEW j \in jobs, NEW raised \in BOOLEAN, NEW reaction, reaction # "retry",
             JobDone(j, raised, reaction)
      PROVE  UnbuiltInv'
  <2>1. jobs' = jobs \ {j}
    BY <1>6 DEF JobDone
  <2>2. /\ ~BuildWaits(j.elem) /\ \A k \in jobs : k.elem = j.elem => k = j
        /\ \A q \in QueueId : ~Came(q, j.elem)
    BY HasJob DEF BuildWaits, Idle, NoneOf, NotWaiting, Came
  <2>3. \A e \in Element : e # j.elem => (CachedSuccess(e)' <=> CachedSuccess(e))
    BY <1>0, <1>6, JobDoneTouches
  <2>4. ASSUME NEW e \in Element, BuildWaits(e)' PROVE ~CachedSuccess(e)'
    <3>1. PICK q \in QueueId : Queues[q] = "Build" /\ readyQueue'[q][e] # 0
      BY <2>4 DEF BuildWaits
    <3>2. readyQueue[q][e] # 0 \/ (Ready(q, e)' /\ Came(q, e))
      BY <1>6, <3>1, JobDoneFlow
    <3> QED  BY <2>2, <2>3, <3>1, <3>2, ReadyIsUnbuiltNext DEF UnbuiltInv, BuildWaits
  <2> QED  BY <1>0, <2>1, <2>2, <2>3, <2>4 DEF UnbuiltInv, NotBuiltTwice, InQueue
<1>7. \A reaction \in OnFailure \cup {"none"} : reaction # "retry"
  OBVIOUS
<1> QED
  BY <1>1, <1>2, <1>3, <1>4, <1>5, <1>6, <1>7 DEF Next, MainStep, Quiet

LEMMA SpecUnbuilt ==
  ASSUME "retry" \notin OnFailure
  PROVE  Spec => []UnbuiltInv
<1>1. JobInv /\ PlaceInv /\ ElementTyped /\ UnbuiltInv /\ [Next]_vars => UnbuiltInv'
  BY UnbuiltNext
<1> QED  BY <1>1, UnbuiltInit, SpecJobInv, SpecPlaceInv, SpecTyped, PTL DEF Spec

\* Unless the user retries a failed job, no build job runs for an element that is
\* built: the assertion in Element._assemble holds.
THEOREM BuiltOnce ==
  ASSUME "retry" \notin OnFailure
  PROVE  Spec => []NotBuiltTwice
<1>1. UnbuiltInv => NotBuiltTwice
  BY DEF UnbuiltInv
<1> QED  BY <1>1, SpecUnbuilt, PTL

-----------------------------------------------------------------------------
(* Only a termination ends a job early, and none starts after it. *)

TermInv ==
  /\ terminatePending => terminated
  /\ \A j \in jobs : /\ j.stop # "no" => terminated
                     /\ j.st = "term" => j.stop # "no"

LEMMA TermInit == Init => TermInv
BY DEF Init, TermInv

LEMMA TermNext ==
  ASSUME JobInv, PlaceInv, TermInv, [Next]_vars
  PROVE  TermInv'
<1>1. CASE \E j \in jobs : ThreadStep(j)
  <2>1. PICK j \in jobs : ThreadStep(j)
    BY <1>1
  <2>2. PICK st \in JobState : jobs' = (jobs \ {j}) \cup {[j EXCEPT !.st = st]} /\ Moves(j, st)
    BY <2>1, ThreadMoves
  <2>3. j \in JobRecord
    BY DEF JobInv, JobsTyped
  <2>4. [j EXCEPT !.st = st].st = st /\ [j EXCEPT !.st = st].stop = j.stop
    BY <2>3 DEF JobRecord
  <2>5. UNCHANGED <<terminated, terminatePending>>
    BY <2>1, ThreadMoves DEF mainVars, flagVars
  <2> QED  BY <2>2, <2>4, <2>5 DEF TermInv, Moves
<1>2. CASE TerminateJobs
  BY <1>2 DEF TerminateJobs, TermInv, JobInv, JobsTyped, JobRecord, Over
<1>3. CASE Environment \/ Stopped \/ UNCHANGED vars
  BY <1>3 DEF Environment, Quit, TerminateStream, TerminateScheduler, Stopped, vars, flagVars,
              TermInv
<1>4. CASE QueryArtifact \/ QueryArtifactDone \/ EnqueuePlan
  BY <1>4 DEF QueryArtifact, QueryArtifactDone, EnqueuePlan, flagVars, TermInv
<1>5. CASE RealSchedule
  <2>1. UNCHANGED <<elementVars, terminated, terminatePending>>
    BY <1>5 DEF RealSchedule, flagVars
  <2>2. CASE terminated
    BY <1>5, <2>1, <2>2 DEF RealSchedule, TermInv
  <2>3. CASE ~terminated
    <3>1. QueueJobs
      BY <1>5, <2>3 DEF RealSchedule
    <3>2. ASSUME NEW k \in jobs', k \notin jobs PROVE k.st = "start" /\ k.stop = "no"
      <4>1. k.elem \in Element
        BY <3>1, QueueJobsKeeps DEF JobsTyped, JobRecord
      <4>2. Single(k.elem)
        BY <4>1 DEF PlaceInv
      <4> QED  BY <2>1, <3>1, <3>2, <4>1, <4>2, QueueJobsFlow
    <3> QED  BY <2>1, <3>2 DEF TermInv
  <2> QED  BY <2>2, <2>3
<1>6. ASSUME NEW j \in jobs, NEW raised \in BOOLEAN, NEW reaction, JobDone(j, raised, reaction)
      PROVE  TermInv'
  BY <1>6 DEF JobDone, TermInv
<1> QED
  BY <1>1, <1>2, <1>3, <1>4, <1>5, <1>6 DEF Next, MainStep

LEMMA SpecTerm ==
  ASSUME "retry" \notin OnFailure
  PROVE  Spec => []TermInv
<1>1. JobInv /\ PlaceInv /\ TermInv /\ [Next]_vars => TermInv'
  BY TermNext
<1> QED  BY <1>1, TermInit, SpecJobInv, SpecPlaceInv, PTL DEF Spec

-----------------------------------------------------------------------------
(* What comes to the build has its sources staged, unless it is built. *)

HasSources(e) == e \in sourcesCached \/ CachedSuccess(e)
FetchOver(e) == \E q \in QueueId : Queues[q] = "Fetch" /\ doneQueue[q][e] # 0

FetchRight(j) == /\ j.st \notin {"fail", "skip"}
                 /\ j.st = "ok" => j.elem \in sourcesCached
BuildRight(j) == j.st \in {"start", "begun", "built"} => j.elem \in sourcesCached

SourcesInv ==
  /\ \A j \in jobs : /\ InQueue(j, "Fetch") => FetchRight(j)
                     /\ InQueue(j, "Build") => BuildRight(j)
  /\ \A e \in Element : /\ BuildWaits(e) => e \in sourcesCached
                        /\ FetchOver(e) => HasSources(e) \/ terminated
  /\ buildableCallback \subseteq sourcesCached

LEMMA SourcesInit == Init => SourcesInv
BY DEF Init, SourcesInv, BuildWaits, FetchOver, NoArrivals, Nothing

\* What a fetch queue skips has its sources, and so has what comes to the build.
FetchSkips ==
  \A q \in QueueId, e \in Element : Queues[q] = "Fetch" /\ Skipped(q, e) => HasSources(e)

LEMMA FetchSkipsNow == FetchSkips
BY DEF FetchSkips, Skipped, NothingToFetch, HasSources

LEMMA FetchSkipsNext == FetchSkips'
BY FetchSkipsNow, PTL

LEMMA FlowedHasSources ==
  ASSUME SourcesInv, ~terminated, NEW b \in QueueId, Queues[b] = "Build", NEW e \in Element,
         Flowed(b, e)
  PROVE  HasSources(e)
<1>1. PICK p \in 1..(b - 1) : /\ doneQueue[p][e] # 0
                              /\ \A r \in (p + 1)..(b - 1) : Skipped(r, e)
  BY DEF Flowed
<1>2. p \in QueueId /\ p < b
  BY QueuesTyped
<1>3. CASE Queues[p] = "Fetch"
  BY <1>1, <1>2, <1>3 DEF SourcesInv, FetchOver
<1>4. CASE Queues[p] = "Pull"
  <2>1. PICK f \in QueueId : Queues[f] = "Fetch"
    BY QueuesInOrder
  <2>2. p = 1 /\ f < b /\ f # p
    BY <1>2, <1>4, <2>1, QueuesInOrder
  <2>3. f \in (p + 1)..(b - 1)
    BY <2>2, QueuesTyped
  <2> QED  BY <1>1, <2>1, <2>3, FetchSkipsNow DEF FetchSkips
<1> QED  BY <1>2, <1>3, <1>4, QueuesInOrder

LEMMA NotBuiltYet ==
  \A q \in QueueId, e \in Element :
    Queues[q] = "Build" /\ (Ready(q, e) \/ Pending(q, e)) => ~CachedSuccess(e)
BY DEF Ready, Pending, Skipped, NothingToBuild

LEMMA ThreadSources ==
  ASSUME JobInv, PlaceInv, ElementTyped, SourcesInv, "fetch" \notin Faults,
         NEW j \in jobs, ThreadStep(j)
  PROVE  SourcesInv'
<1>1. PICK st \in JobState \ {"start"} :
        jobs' = (jobs \ {j}) \cup {[j EXCEPT !.st = st]} /\ Moves(j, st)
  BY ThreadMoves
<1>2. UNCHANGED mainVars /\ sourcesCached \subseteq sourcesCached'
  BY ThreadMoves
<1>3. j \in JobRecord
  BY DEF JobInv, JobsTyped
<1> DEFINE k == [j EXCEPT !.st = st]
<1>4. k.queue = j.queue /\ k.elem = j.elem /\ k.st = st
  BY <1>3 DEF JobRecord
<1>5. jobs' = (jobs \ {j}) \cup {k}
  BY <1>1
<1> HIDE DEF k
<1>6. /\ InQueue(k, "Fetch") => FetchRight(k)'
      /\ InQueue(k, "Build") => BuildRight(k)'
  BY <1>1, <1>2, <1>4 DEF Moves, InQueue, FetchRight, BuildRight, SourcesInv
<1>7. \A l \in jobs : /\ InQueue(l, "Fetch") => FetchRight(l)'
                      /\ InQueue(l, "Build") => BuildRight(l)'
  BY <1>2 DEF FetchRight, BuildRight, SourcesInv
<1>8. \A e \in Element : e # j.elem /\ HasSources(e) => HasSources(e)'
  BY ThreadTouches, UntouchedSuccess DEF HasSources, Untouched
<1>9. ~FetchOver(j.elem)
  BY HasJob DEF FetchOver, Idle, NoneOf
<1>10. UNCHANGED <<readyQueue, doneQueue, buildableCallback, terminated>>
  BY <1>2 DEF mainVars, queueVars, callbackVars, flagVars
<1>11. \A e \in Element : (BuildWaits(e)' <=> BuildWaits(e)) /\ (FetchOver(e)' <=> FetchOver(e))
  BY <1>10 DEF BuildWaits, FetchOver
<1>12. \A l \in jobs' : /\ InQueue(l, "Fetch")' => FetchRight(l)'
                        /\ InQueue(l, "Build")' => BuildRight(l)'
  BY <1>5, <1>6, <1>7 DEF InQueue
<1>13. \A e \in Element : /\ BuildWaits(e)' => e \in sourcesCached'
                          /\ FetchOver(e)' => HasSources(e)' \/ terminated'
  BY <1>2, <1>8, <1>9, <1>10, <1>11 DEF SourcesInv
<1> QED  BY <1>2, <1>10, <1>12, <1>13 DEF SourcesInv

LEMMA RealScheduleSources ==
  ASSUME JobInv, PlaceInv, SourcesInv, RealSchedule
  PROVE  SourcesInv'
<1>1. UNCHANGED <<elementVars, terminated>>
  BY DEF RealSchedule, flagVars
<1>2. sourcesCached' = sourcesCached
  BY <1>1 DEF elementVars, sourceVars
<1>3. CASE terminated
  BY <1>1, <1>2, <1>3, SameSuccess
     DEF RealSchedule, SourcesInv, InQueue, FetchRight, BuildRight, BuildWaits, FetchOver
<1>4. CASE ~terminated
  <2>1. QueueJobs
    BY <1>4 DEF RealSchedule
  <2>2. ASSUME NEW b \in QueueId, Queues[b] = "Build", NEW e \in Element,
               Ready(b, e) \/ Pending(b, e), Flowed(b, e)
        PROVE  e \in sourcesCached
    BY <1>4, <2>2, FlowedHasSources, NotBuiltYet DEF HasSources
  <2>3. ASSUME NEW e \in Element
        PROVE  /\ BuildWaits(e)' => e \in sourcesCached'
               /\ ~FetchOver(e)'
               /\ e \in buildableCallback' => e \in sourcesCached'
    <3>1. Single(e)
      BY DEF PlaceInv
    <3>2. ~FetchOver(e)'
      BY <1>1, <2>1, <3>1, QueueJobsFlow DEF FetchOver, NoneOf
    <3>3. ASSUME BuildWaits(e)' PROVE e \in sourcesCached
      <4>1. PICK b \in QueueId : Queues[b] = "Build" /\ readyQueue'[b][e] # 0
        BY <3>3 DEF BuildWaits
      <4>2. readyQueue[b][e] # 0 \/ (Ready(b, e) /\ Flowed(b, e))
        BY <1>1, <2>1, <3>1, <4>1, QueueJobsFlow
      <4> QED  BY <2>2, <4>1, <4>2 DEF SourcesInv, BuildWaits
    <3>4. ASSUME e \in buildableCallback' PROVE e \in sourcesCached
      <4>1. \/ e \in buildableCallback
            \/ \E q \in QueueId : Queues[q] = "Build" /\ Pending(q, e) /\ Flowed(q, e)
        BY <1>1, <2>1, <3>1, <3>4, QueueJobsFlow
      <4> QED  BY <2>2, <4>1 DEF SourcesInv
    <3> QED  BY <1>2, <3>2, <3>3, <3>4
  <2>4. ASSUME NEW k \in jobs'
        PROVE  /\ InQueue(k, "Fetch") => FetchRight(k)'
               /\ InQueue(k, "Build") => BuildRight(k)'
    <3>1. k.elem \in Element
      BY <2>1, QueueJobsKeeps DEF JobsTyped, JobRecord
    <3>2. Single(k.elem)
      BY <3>1 DEF PlaceInv
    <3>3. CASE k \in jobs
      BY <1>2, <3>3 DEF SourcesInv, FetchRight, BuildRight
    <3>4. CASE k \notin jobs
      <4>1. /\ k.queue \in QueueId /\ k.st = "start"
            /\ \/ readyQueue[k.queue][k.elem] # 0
               \/ Ready(k.queue, k.elem) /\ Flowed(k.queue, k.elem)
        BY <1>1, <2>1, <3>1, <3>2, <3>4, QueueJobsFlow
      <4>2. InQueue(k, "Build") => k.elem \in sourcesCached
        BY <2>2, <3>1, <4>1 DEF InQueue, SourcesInv, BuildWaits
      <4> QED  BY <1>2, <4>1, <4>2 DEF FetchRight, BuildRight
    <3> QED  BY <3>3, <3>4
  <2>5. buildableCallback' \subseteq Element
    BY <2>1, QueueJobsKeeps
  <2> QED  BY <2>3, <2>4, <2>5 DEF SourcesInv, InQueue
<1> QED  BY <1>3, <1>4

LEMMA JobDoneSources ==
  ASSUME JobInv, PlaceInv, ElementTyped, TermInv, SourcesInv, JobInv',
         NEW j \in jobs, NEW raised \in BOOLEAN, NEW reaction, reaction # "retry",
         JobDone(j, raised, reaction)
  PROVE  SourcesInv'
<1>1. j.elem \in Element /\ j.queue \in QueueId /\ jobs' = jobs \ {j}
  BY HasJob DEF JobDone
<1>2. sourcesCached \subseteq sourcesCached'
  BY <1>1, JobDoneTouches
<1>3. /\ ~FetchOver(j.elem) /\ \A q \in QueueId : ~Came(q, j.elem)
  BY HasJob DEF FetchOver, Idle, NoneOf, NotWaiting, Came
<1>4. ASSUME NEW e \in Element, e # j.elem, HasSources(e) PROVE HasSources(e)'
  <2>1. CachedSuccess(e)' <=> CachedSuccess(e)
    BY <1>1, <1>4, JobDoneTouches
  <2> QED  BY <1>2, <1>4, <2>1 DEF HasSources
<1>5. \A q \in QueueId, e \in Element : Queues[q] = "Build" /\ Came(q, e) => e \in sourcesCached
  BY QueuesInOrder DEF Came, SourcesInv
<1>6. terminated => terminated'
  BY DEF JobDone
<1>7. ASSUME InQueue(j, "Fetch"), ~raised PROVE HasSources(j.elem)' \/ terminated'
  <2>1. j.st \in Over /\ FetchRight(j) /\ (j.st = "term" => terminated)
    BY <1>7 DEF JobDone, SourcesInv, TermInv
  <2> QED  BY <1>2, <1>6, <2>1 DEF Over, FetchRight, HasSources
<1>8. ASSUME NEW e \in Element, BuildWaits(e)' PROVE e \in sourcesCached'
  <2>1. PICK q \in QueueId : Queues[q] = "Build" /\ readyQueue'[q][e] # 0
    BY <1>8 DEF BuildWaits
  <2>2. readyQueue[q][e] # 0 \/ Came(q, e)
    BY <2>1, JobDoneFlow
  <2> QED  BY <1>2, <1>5, <2>1, <2>2 DEF SourcesInv, BuildWaits
<1>9. ASSUME NEW e \in Element, FetchOver(e)' PROVE HasSources(e)' \/ terminated'
  <2>1. PICK q \in QueueId : Queues[q] = "Fetch" /\ doneQueue'[q][e] # 0
    BY <1>9 DEF FetchOver
  <2>2. \/ doneQueue[q][e] # 0
        \/ Skipped(q, e)'
        \/ q = j.queue /\ e = j.elem /\ ~raised
    BY <2>1, JobDoneFlow
  <2>3. CASE doneQueue[q][e] # 0
    BY <1>3, <1>4, <1>6, <2>1, <2>3 DEF SourcesInv, FetchOver
  <2>4. CASE Skipped(q, e)'
    BY <2>1, <2>4, FetchSkipsNext DEF FetchSkips
  <2>5. CASE q = j.queue /\ e = j.elem /\ ~raised
    BY <1>7, <2>1, <2>5 DEF InQueue
  <2> QED  BY <2>2, <2>3, <2>4, <2>5
<1>10. ASSUME NEW e \in buildableCallback' PROVE e \in sourcesCached'
  <2>1. e \in Element
    BY DEF JobInv, SessionTyped
  <2>2. \/ e \in buildableCallback
        \/ \E q \in QueueId : Queues[q] = "Build" /\ Came(q, e)
    BY <2>1, JobDoneFlow
  <2> QED  BY <1>2, <1>5, <2>1, <2>2 DEF SourcesInv
<1>11. \A k \in jobs' : /\ InQueue(k, "Fetch") => FetchRight(k)'
                        /\ InQueue(k, "Build") => BuildRight(k)'
  BY <1>1, <1>2 DEF SourcesInv, FetchRight, BuildRight
<1> QED  BY <1>8, <1>9, <1>10, <1>11 DEF SourcesInv, InQueue

LEMMA SourcesNext ==
  ASSUME "retry" \notin OnFailure, "fetch" \notin Faults,
         JobInv, PlaceInv, ElementTyped, TermInv, SourcesInv, JobInv', [Next]_vars
  PROVE  SourcesInv'
<1>1. CASE \E j \in jobs : ThreadStep(j)
  BY <1>1, ThreadSources
<1>2. CASE Quiet
  <2>1. /\ UNCHANGED <<elementVars, readyQueue, doneQueue, buildableCallback>>
        /\ terminated => terminated'
        /\ \A k \in jobs' : \E l \in jobs : Alike(k, l)
    BY <1>2, QuietKeeps DEF queueVars, callbackVars
  <2>2. sourcesCached' = sourcesCached
    BY <2>1 DEF elementVars, sourceVars
  <2>3. \A k \in jobs' : /\ InQueue(k, "Fetch")' => FetchRight(k)'
                         /\ InQueue(k, "Build")' => BuildRight(k)'
    BY <2>1, <2>2 DEF SourcesInv, InQueue, FetchRight, BuildRight, Alike
  <2> QED
    BY <2>1, <2>2, <2>3, SameSuccess DEF SourcesInv, BuildWaits, FetchOver, HasSources
<1>3. CASE QueryArtifact \/ QueryArtifactDone
  <2>1. /\ jobs' = {} /\ readyQueue' = NoArrivals /\ doneQueue' = NoArrivals
        /\ buildableCallback' = {}
    BY <1>3 DEF QueryArtifact, QueryArtifactDone, queueVars, callbackVars, PlaceInv, QueryEmpty
  <2> QED  BY <2>1 DEF SourcesInv, BuildWaits, FetchOver, NoArrivals, Nothing
<1>4. CASE EnqueuePlan
  <2>1. QueryEmpty /\ jobs' = {}
    BY <1>4 DEF PlaceInv, QueryEmpty, EnqueuePlan
  <2>2. \A e \in Element : \A q \in QueueId :
          /\ readyQueue'[q][e] # 0 => q = 1
          /\ doneQueue'[q][e] # 0 => Skipped(q, e)'
    BY <1>4, <2>1, EnqueuePlanFlow
  <2>3. \A e \in Element : e \notin buildableCallback'
    BY <1>4, <2>1, EnqueuePlanFlow
  <2>4. buildableCallback' \subseteq Element
    BY DEF JobInv, SessionTyped
  <2>5. \A e \in Element : ~BuildWaits(e)' /\ (FetchOver(e)' => HasSources(e)')
    BY <2>2, QueuesInOrder, FetchSkipsNext DEF BuildWaits, FetchOver, FetchSkips
  <2> QED  BY <2>1, <2>3, <2>4, <2>5 DEF SourcesInv
<1>5. CASE RealSchedule
  BY <1>5, RealScheduleSources
<1>6. \A reaction \in OnFailure \cup {"none"} : reaction # "retry"
  OBVIOUS
<1>7. \A j \in jobs, raised \in BOOLEAN, reaction \in OnFailure \cup {"none"} :
        JobDone(j, raised, reaction) => SourcesInv'
  BY <1>6, JobDoneSources
<1> QED
  BY <1>1, <1>2, <1>3, <1>4, <1>5, <1>7 DEF Next, MainStep, Quiet

LEMMA SpecSources ==
  ASSUME "retry" \notin OnFailure, "fetch" \notin Faults
  PROVE  Spec => []SourcesInv
<1>1. JobInv /\ PlaceInv /\ ElementTyped /\ TermInv /\ SourcesInv /\ JobInv' /\ [Next]_vars
        => SourcesInv'
  BY SourcesNext
<1> QED
  BY <1>1, SourcesInit, SpecJobInv, SpecPlaceInv, SpecTyped, SpecTerm, PTL DEF Spec

\* Unless a fetch fails or a failed job is retried, an element that is being built has
\* its sources staged in the cache, whatever is terminated on the way.
THEOREM SourcesAreStaged ==
  ASSUME "retry" \notin OnFailure, "fetch" \notin Faults
  PROVE  Spec => []SourcesCachedToBuild
<1>1. ASSUME SourcesInv PROVE SourcesCachedToBuild
  BY <1>1 DEF SourcesInv, BuildRight, SourcesCachedToBuild, Building
<1> QED  BY <1>1, SpecSources, PTL

-----------------------------------------------------------------------------
(* An element whose build has ended goes on to the push at most. *)

PastBuild(e) ==
  /\ \A j \in jobs : j.elem = e => InQueue(j, "Push")
  /\ \A q \in QueueId : /\ readyQueue[q][e] # 0 => Queues[q] = "Push"
                        /\ doneQueue[q][e] # 0 => Queues[q] \in {"Build", "Push"}
  /\ NotWaiting(e) /\ e \notin requiredCallback

PastInv == /\ phase \in {"query", "queried"} => assembleDone = {}
           /\ assembleDone \subseteq Element /\ \A e \in assembleDone : PastBuild(e)

LEMMA PastInit == Init => PastInv
BY DEF Init, ElementInit, PastInv

LEMMA PastFlowsToPush ==
  ASSUME NEW e \in Element, PastBuild(e), NEW q \in QueueId, Flowed(q, e)
  PROVE  Queues[q] = "Push"
<1>1. PICK p \in 1..(q - 1) : doneQueue[p][e] # 0
  BY DEF Flowed
<1>2. p \in QueueId /\ p < q
  BY QueuesTyped
<1>3. Queues[p] \in {"Build", "Push"}
  BY <1>1, <1>2 DEF PastBuild
<1>4. QueueOrder[Queues[p]] < QueueOrder[Queues[q]]
  BY <1>2, QueuesAssumption
<1> QED  BY <1>2, <1>3, <1>4, QueuesTyped DEF QueueOrder

LEMMA PastNext ==
  ASSUME "retry" \notin OnFailure, JobInv, PlaceInv, ElementTyped, PastInv, [Next]_vars
  PROVE  PastInv'
<1>1. CASE \E j \in jobs : ThreadStep(j)
  <2>1. PICK j \in jobs : ThreadStep(j)
    BY <1>1
  <2>2. PICK st \in JobState : jobs' = (jobs \ {j}) \cup {[j EXCEPT !.st = st]}
    BY <2>1, ThreadMoves
  <2>3. j \in JobRecord /\ UNCHANGED <<phase, assembleDone, queueVars>>
    BY <2>1, ThreadMoves DEF mainVars, cascadeVars, JobInv, JobsTyped
  <2>4. [j EXCEPT !.st = st].queue = j.queue /\ [j EXCEPT !.st = st].elem = j.elem
    BY <2>3 DEF JobRecord
  <2>5. \A k \in jobs' : \E l \in jobs : k.queue = l.queue /\ k.elem = l.elem
    BY <2>2, <2>4
  <2> QED
    BY <2>3, <2>5 DEF PastInv, PastBuild, InQueue, NotWaiting, queueVars, callbackVars
<1>2. CASE Quiet
  <2>1. /\ UNCHANGED <<assembleDone, phase, queueVars>>
        /\ \A k \in jobs' : \E l \in jobs : Alike(k, l)
    BY <1>2, QuietKeeps DEF elementVars, cascadeVars
  <2> QED
    BY <2>1 DEF PastInv, PastBuild, InQueue, NotWaiting, queueVars, callbackVars, Alike
<1>3. CASE QueryArtifact \/ QueryArtifactDone \/ EnqueuePlan
  <2>1. assembleDone' = {}
    BY <1>3 DEF QueryArtifact, QueryArtifactDone, EnqueuePlan, PastInv, LoadArtifactDone,
                elementVars, cascadeVars
  <2> QED  BY <2>1 DEF PastInv
<1>4. CASE RealSchedule
  <2>1. /\ UNCHANGED <<elementVars, requiredCallback>> /\ phase' \notin {"query", "queried"}
        /\ assembleDone' = assembleDone
    BY <1>4 DEF RealSchedule, elementVars, cascadeVars
  <2>2. CASE terminated
    BY <1>4, <2>1, <2>2 DEF RealSchedule, PastInv, PastBuild, InQueue, NotWaiting
  <2>3. CASE ~terminated
    <3>1. QueueJobs
      BY <1>4, <2>3 DEF RealSchedule
    <3>2. ASSUME NEW e \in assembleDone PROVE PastBuild(e)'
      <4>1. e \in Element /\ Single(e) /\ PastBuild(e)
        BY DEF PastInv, PlaceInv
      <4>2. \A q \in QueueId : Flowed(q, e) => Queues[q] = "Push"
        BY <4>1, PastFlowsToPush
      <4>3. \A q \in QueueId : /\ readyQueue'[q][e] # 0 => Queues[q] = "Push"
                               /\ doneQueue'[q][e] # 0 => Queues[q] \in {"Build", "Push"}
        BY <2>1, <3>1, <4>1, <4>2, QueueJobsFlow DEF PastBuild, NoneOf
      <4>4. NotWaiting(e)'
        BY <2>1, <3>1, <4>1, <4>2, QueueJobsFlow DEF PastBuild, NotWaiting
      <4>5. \A k \in jobs' : k.elem = e => InQueue(k, "Push")
        BY <2>1, <3>1, <4>1, <4>2, QueueJobsFlow DEF PastBuild, InQueue
      <4> QED  BY <2>1, <4>1, <4>3, <4>4, <4>5 DEF PastBuild, InQueue
    <3> QED  BY <2>1, <3>2 DEF PastInv
  <2> QED  BY <2>2, <2>3
<1>5. ASSUME NEW j \in jobs, NEW raised \in BOOLEAN, NEW reaction, reaction # "retry",
             JobDone(j, raised, reaction)
      PROVE  PastInv'
  <2>1. /\ j.elem \in Element /\ j.queue \in QueueId /\ Idle(j.elem)
        /\ j.elem \notin requiredCallback /\ \A k \in jobs : k.elem = j.elem => k = j
    BY HasJob
  <2>2. /\ jobs' = jobs \ {j} /\ phase' \notin {"query", "queried"}
        /\ requiredCallback' \subseteq requiredCallback
    BY <1>5 DEF JobDone
  <2>3. assembleDone' = assembleDone \/ (assembleDone' = assembleDone \cup {j.elem} /\ InQueue(j, "Build"))
    BY <1>5 DEF JobDone, Finish, LoadArtifactDone, FetchDone, AssembleDone, elementVars,
                cascadeVars
  <2>4. ASSUME NEW e \in assembleDone' PROVE e \in Element /\ PastBuild(e)'
    <3>1. e \in Element /\ \A q \in QueueId : ~Came(q, e)
      BY <2>1, <2>3, <2>4 DEF PastInv, PastBuild, Came, Idle, NotWaiting
    <3>2. /\ e # j.elem => PastBuild(e)
          /\ e = j.elem => Queues[j.queue] \in {"Build", "Push"}
      BY <2>3, <2>4 DEF PastInv, PastBuild, InQueue
    <3>3. /\ \A q \in QueueId : /\ readyQueue'[q][e] # 0 => readyQueue[q][e] # 0
                                /\ doneQueue'[q][e] # 0 => \/ doneQueue[q][e] # 0
                                                           \/ q = j.queue /\ e = j.elem
          /\ e \in canQueryCallback' => e \in canQueryCallback
          /\ e \in buildableCallback' => e \in buildableCallback
      BY <1>5, <3>1, JobDoneFlow
    <3>4. CASE e = j.elem
      BY <2>1, <2>2, <3>1, <3>2, <3>3, <3>4 DEF PastBuild, Idle, NoneOf, NotWaiting
    <3>5. CASE e # j.elem
      BY <2>2, <3>1, <3>2, <3>3, <3>5 DEF PastBuild, NotWaiting, InQueue
    <3> QED  BY <3>1, <3>4, <3>5
  <2> QED  BY <2>2, <2>4 DEF PastInv
<1>6. \A reaction \in OnFailure \cup {"none"} : reaction # "retry"
  OBVIOUS
<1> QED
  BY <1>1, <1>2, <1>3, <1>4, <1>5, <1>6 DEF Next, MainStep, Quiet

LEMMA SpecPast ==
  ASSUME "retry" \notin OnFailure
  PROVE  Spec => []PastInv
<1>1. JobInv /\ PlaceInv /\ ElementTyped /\ PastInv /\ [Next]_vars => PastInv'
  BY PastNext
<1> QED  BY <1>1, PastInit, SpecJobInv, SpecPlaceInv, SpecTyped, PTL DEF Spec

-----------------------------------------------------------------------------
(* The artifact of an element, and what the cache has of it. *)

Missing(e) == artifact[e] = "uncached" /\ stored[e] = "none" /\ e \notin cachedSuccessfully
Failed(e) == /\ artifact[e] = "cached" /\ stored[e] = "failure" /\ buildResult[e] = "failure"
             /\ e \notin cachedSuccessfully
Succeeded(e) == artifact[e] = "cached" /\ stored[e] = "success" /\ buildResult[e] = "success"
Settled(e) == Missing(e) \/ Failed(e) \/ Succeeded(e)

\* Built and stored, but not adopted yet.
Stored(e) == /\ artifact[e] = "uncached" /\ stored[e] = buildResult[e] /\ stored[e] # "none"
             /\ e \notin cachedSuccessfully

\* The artifact of e while a job for it is that far.
PullAt(st, e) == st \in {"start", "begun"} => Missing(e)
BuildAt(st, e) ==
  /\ st \notin {"original", "skip"}
  /\ st = "start" => Missing(e) \/ Failed(e)
  /\ st = "begun" => Missing(e)
  /\ st = "built" => Missing(e) /\ buildResult[e] # "none"
  /\ st = "ok" => Stored(e) /\ stored[e] = "success"
  /\ st \in {"fail", "term"} => Missing(e) \/ Failed(e) \/ Stored(e)

NotQueried(e) == /\ artifact[e] = "none" /\ buildResult[e] = "none"
                 /\ e \notin cachedSuccessfully /\ e \notin pullPending
Queried(e) == Depth(e) < position \/ (Depth(e) = position /\ phase = "queried")

Querying == phase \in {"query", "queried"}
NoBuild(e) == \A j \in jobs : j.elem = e => ~InQueue(j, "Build")
PullWaits(e) == \E q \in QueueId : Queues[q] = "Pull" /\ readyQueue[q][e] # 0

\* Outside of a build the element and the cache agree.
StoredInv ==
  /\ \A e \in Element : Querying => IF Queried(e) THEN Settled(e) ELSE NotQueried(e)
  /\ \A e \in Element : ~Querying /\ NoBuild(e) => Settled(e)
  /\ \A e \in Element : e \in pullPending /\ (Querying \/ e \in requiredCallback) => Missing(e)
  /\ \A e \in Element : PullWaits(e) => Missing(e)
  /\ \A j \in jobs : /\ InQueue(j, "Pull") => PullAt(j.st, j.elem)
                     /\ InQueue(j, "Build") => BuildAt(j.st, j.elem)

LEMMA DepthIs ==
  ASSUME NEW e \in Element
  PROVE  /\ Depth(e) \in 1..Len(Plan)
         /\ \A i \in 1..Len(Plan) : Plan[i] = e <=> Depth(e) = i
<1>1. Plan \in Seq(Element) /\ IsInjective(Plan) /\ Range(Plan) = Element
  BY PlanAssumption
<1>2. DOMAIN Plan = 1..Len(Plan)
  BY <1>1
<1>3. \E i \in DOMAIN Plan : Plan[i] = e
  BY <1>1 DEF Range
<1>4. Depth(e) \in DOMAIN Plan /\ Plan[Depth(e)] = e
  BY <1>3 DEF Depth
<1>5. \A i, k \in DOMAIN Plan : Plan[i] = Plan[k] => i = k
  BY <1>1 DEF IsInjective
<1> QED  BY <1>2, <1>4, <1>5

LEMMA StoredInit == Init => StoredInv
<1> SUFFICES ASSUME Init PROVE StoredInv
  OBVIOUS
<1>1. \A e \in Element : NotQueried(e)
  BY DEF Init, ElementInit, NotQueried
<1>2. \A e \in Element : ~Queried(e)
  BY DepthIs DEF Init, Queried
<1>3. phase = "query" /\ jobs = {} /\ \A e \in Element : ~PullWaits(e)
  BY DEF Init, PullWaits, NoArrivals, Nothing
<1> QED  BY <1>1, <1>2, <1>3 DEF StoredInv, Querying, NotQueried

LEMMA UntouchedStored ==
  ASSUME NEW e, Untouched(e)
  PROVE  /\ Missing(e)' <=> Missing(e)
         /\ Settled(e)' <=> Settled(e)
         /\ e \in pullPending' <=> e \in pullPending
         /\ \A st : (PullAt(st, e)' <=> PullAt(st, e)) /\ (BuildAt(st, e)' <=> BuildAt(st, e))
BY DEF Untouched, Missing, Failed, Succeeded, Settled, Stored, PullAt, BuildAt

\* Handlers that change no artifact and no success change nothing of this.
LEMMA SuccessStored ==
  ASSUME NEW e \in Element, UNCHANGED <<stored, buildResult, pullPending>>,
         artifact'[e] = artifact[e], CachedSuccess(e)' <=> CachedSuccess(e),
         cachedSuccessfully \subseteq cachedSuccessfully'
  PROVE  /\ Missing(e) => Missing(e)'
         /\ Settled(e) => Settled(e)'
         /\ NotQueried(e) => NotQueried(e)'
         /\ \A st : (PullAt(st, e) => PullAt(st, e)') /\ (BuildAt(st, e) => BuildAt(st, e)')
<1>1. ASSUME Missing(e) \/ Failed(e) \/ Stored(e) \/ NotQueried(e)
      PROVE  e \notin cachedSuccessfully'
  BY <1>1 DEF Missing, Failed, Stored, NotQueried, CachedSuccess, Successful
<1>2. /\ Missing(e) => Missing(e)'
      /\ Failed(e) => Failed(e)'
      /\ Stored(e) => Stored(e)'
      /\ Succeeded(e) => Succeeded(e)'
      /\ NotQueried(e) => NotQueried(e)'
  BY <1>1 DEF Missing, Failed, Stored, Succeeded, NotQueried
<1> QED  BY <1>2 DEF Settled, PullAt, BuildAt

-----------------------------------------------------------------------------
(* What the threads make of it. *)

\* A thread leaves its own element as its job's state says.
OwnRight(j, st) ==
  /\ InQueue(j, "Build") => BuildAt(st, j.elem)'
  /\ InQueue(j, "Pull") => PullAt(st, j.elem)'
  /\ ~InQueue(j, "Build") => Settled(j.elem)'
MovedRight(j) == \E st \in JobState \ {"start"} : ThreadAt(j, st) /\ OwnRight(j, st)

LEMMA ThreadStoresOwn ==
  ASSUME Strict, ~RetryFailed, JobInv, PlaceInv, ElementTyped, PastInv, StoredInv,
         NEW j \in jobs, ThreadStep(j)
  PROVE  MovedRight(j)
<1> DEFINE e == j.elem
<1>1. /\ e \in Element /\ j.queue \in QueueId /\ j.st \in JobState
      /\ \A k \in jobs : k.elem = e => k = j
  BY HasJob
<1>2. /\ InQueue(j, "Build") => BuildAt(j.st, e)
      /\ InQueue(j, "Pull") => PullAt(j.st, e)
  BY DEF StoredInv
<1>3. ~InQueue(j, "Build") => Settled(e)
  BY <1>1 DEF StoredInv, Querying, NoBuild, ThreadStep
<1>4. InQueue(j, "Build") => e \notin assembleDone
  BY DEF PastInv, PastBuild, InQueue
<1>5. ASSUME NEW st \in JobState \ {"start"}, ThreadAt(j, st), OwnRight(j, st)
      PROVE  MovedRight(j)
  BY <1>5 DEF MovedRight
<1>6. /\ stored \in [Element -> Result] /\ artifact \in [Element -> {"none", "uncached", "cached"}]
      /\ buildResult \in [Element -> Result]
  BY DEF ElementTyped, ArtifactsTyped
<1>7. cachedSuccessfully' = cachedSuccessfully
  BY ThreadMoves DEF cascadeVars
<1> HIDE DEF e
<1>8. ASSUME UNCHANGED <<stored, artifact, buildResult>>
      PROVE  /\ Missing(e)' <=> Missing(e)
             /\ Settled(e)' <=> Settled(e)
             /\ \A st : (PullAt(st, e)' <=> PullAt(st, e)) /\ (BuildAt(st, e)' <=> BuildAt(st, e))
  BY <1>7, <1>8 DEF Missing, Failed, Succeeded, Settled, Stored, PullAt, BuildAt
<1>9. ASSUME Begin(j) PROVE MovedRight(j)
  <2>1. j.st = "start" /\ UNCHANGED <<stored, artifact, buildResult>>
    BY <1>9 DEF Begin, PullBegins, elementVars, artifactVars
  <2>2. CASE ThreadAt(j, "term") \/ ThreadAt(j, "fail")
    <3>1. OwnRight(j, "term") /\ OwnRight(j, "fail")
      BY <1>2, <1>3, <1>8, <2>1 DEF OwnRight, PullAt, BuildAt, InQueue, e
    <3> QED  BY <1>5, <2>2, <3>1 DEF JobState
  <2>3. CASE ThreadAt(j, "begun") /\ ~(InQueue(j, "Build") /\ CachedFailure(e))
    <3>1. InQueue(j, "Build") => Missing(e)
      BY <1>2, <2>1, <2>3 DEF BuildAt, Failed, CachedFailure
    <3>2. InQueue(j, "Pull") => Missing(e)
      BY <1>2, <2>1 DEF PullAt
    <3>3. OwnRight(j, "begun")
      BY <1>3, <1>8, <2>1, <3>1, <3>2 DEF OwnRight, PullAt, BuildAt, InQueue, e
    <3> QED  BY <1>5, <2>3, <3>3 DEF JobState
  <2> QED  BY <1>4, <1>9, <2>2, <2>3 DEF Begin, e
<1>10. ASSUME PullStep(j) PROVE MovedRight(j)
  <2>1. InQueue(j, "Pull") /\ Missing(e)
    BY <1>2, <1>10 DEF PullStep, PullAt
  <2>2. ASSUME Settled(e)', NEW st \in {"ok", "skip", "fail"}, ThreadAt(j, st)
        PROVE  MovedRight(j)
    <3>1. OwnRight(j, st)
      BY <2>1, <2>2 DEF OwnRight, PullAt, InQueue, e
    <3> QED  BY <1>5, <2>2, <3>1 DEF JobState
  <2>3. CASE ThreadAt(j, "fail") /\ UNCHANGED artifactVars
    <3>1. Settled(e)'
      BY <1>8, <2>1, <2>3 DEF artifactVars, Settled
    <3> QED  BY <2>2, <2>3, <3>1
  <2>4. CASE \E found \in RemoteArtifacts, st \in {"ok", "skip"} :
               PullEnds(e, found, FALSE) /\ ThreadAt(j, st)
    <3>1. PICK found \in RemoteArtifacts, st \in {"ok", "skip"} :
            PullEnds(e, found, FALSE) /\ ThreadAt(j, st)
      BY <2>4
    <3>2. found \in {"none", "success", "failure"}
      BY ParameterAssumption DEF Result
    <3>3. Settled(e)'
      BY <1>1, <1>6, <1>7, <2>1, <3>1, <3>2
         DEF PullEnds, Missing, Failed, Succeeded, Settled, e
    <3> QED  BY <2>2, <3>1, <3>3
  <2> QED  BY <1>10, <2>3, <2>4 DEF PullStep, e
<1>11. ASSUME FetchStep(j) PROVE MovedRight(j)
  <2>1. InQueue(j, "Fetch") /\ UNCHANGED <<stored, artifact, buildResult>>
    BY <1>11 DEF FetchStep, artifactVars
  <2>2. \A st : OwnRight(j, st)
    BY <1>3, <1>8, <2>1 DEF OwnRight, InQueue, e
  <2> QED  BY <1>5, <1>11, <2>2 DEF FetchStep, JobState
<1>12. ASSUME Assemble(j) PROVE MovedRight(j)
  <2>1. InQueue(j, "Build") /\ Missing(e) /\ UNCHANGED <<stored, artifact>>
    BY <1>2, <1>12 DEF Assemble, BuildAt
  <2>2. Missing(e)'
    BY <1>7, <2>1 DEF Missing
  <2>3. CASE ThreadAt(j, "fail")
    <3>1. OwnRight(j, "fail")
      BY <2>1, <2>2 DEF OwnRight, BuildAt, InQueue, e
    <3> QED  BY <1>5, <2>3, <3>1 DEF JobState
  <2>4. CASE ThreadAt(j, "built") /\ \E result \in {"success", "failure"} :
               buildResult' = [buildResult EXCEPT ![e] = result]
    <3>1. buildResult'[e] # "none"
      BY <1>1, <1>6, <2>4
    <3>2. OwnRight(j, "built")
      BY <2>1, <2>2, <3>1 DEF OwnRight, BuildAt, InQueue, e
    <3> QED  BY <1>5, <2>4, <3>2 DEF JobState
  <2> QED  BY <1>12, <2>3, <2>4 DEF Assemble, e
<1>13. ASSUME CacheArtifact(j) PROVE MovedRight(j)
  <2>1. /\ InQueue(j, "Build") /\ Missing(e) /\ buildResult[e] # "none"
        /\ UNCHANGED <<artifact, buildResult>>
    BY <1>2, <1>13 DEF CacheArtifact, BuildAt
  <2>2. CASE ThreadAt(j, "fail") /\ UNCHANGED stored
    <3>1. OwnRight(j, "fail")
      BY <1>8, <2>1, <2>2 DEF OwnRight, BuildAt, InQueue, e
    <3> QED  BY <1>5, <2>2, <3>1 DEF JobState
  <2>3. CASE stored' = [stored EXCEPT ![e] = buildResult[e]]
    <3>1. PICK st \in {"ok", "fail", "term"} :
            ThreadAt(j, st) /\ (st = "ok" => buildResult[e] = "success")
      BY <1>13, <2>2, <2>3 DEF CacheArtifact, e
    <3>2. stored'[e] = buildResult[e]
      BY <1>1, <1>6, <2>3
    <3>3. Stored(e)'
      BY <1>7, <2>1, <3>2 DEF Stored, Missing
    <3>4. OwnRight(j, st)
      BY <2>1, <3>1, <3>2, <3>3 DEF OwnRight, BuildAt, InQueue, e
    <3> QED  BY <1>5, <3>1, <3>4 DEF JobState
  <2> QED  BY <1>13, <2>2, <2>3 DEF CacheArtifact, e
<1>14. ASSUME PushStep(j) \/ Terminate(j) PROVE MovedRight(j)
  <2>1. UNCHANGED <<stored, artifact, buildResult>>
    BY <1>14 DEF PushStep, Terminate, elementVars, artifactVars
  <2>2. CASE PushStep(j)
    <3>1. \A st : OwnRight(j, st)
      BY <1>3, <1>8, <2>1, <2>2 DEF PushStep, OwnRight, InQueue, e
    <3> QED  BY <1>5, <2>2, <3>1 DEF PushStep, JobState
  <2>3. CASE Terminate(j)
    <3>1. InQueue(j, "Build") => Missing(e)
      BY <1>1, <1>2, <2>3 DEF Terminate, Over, JobState, BuildAt
    <3>2. OwnRight(j, "term")
      BY <1>3, <1>8, <2>1, <3>1 DEF OwnRight, BuildAt, PullAt, InQueue, e
    <3> QED  BY <1>5, <2>3, <3>2 DEF Terminate, JobState
  <2> QED  BY <1>14, <2>2, <2>3
<1> QED
  BY <1>9, <1>10, <1>11, <1>12, <1>13, <1>14 DEF ThreadStep

LEMMA ThreadStored ==
  ASSUME Strict, ~RetryFailed, JobInv, PlaceInv, ElementTyped, PastInv, StoredInv,
         NEW j \in jobs, ThreadStep(j)
  PROVE  StoredInv'
<1>1. PICK st \in JobState \ {"start"} : ThreadAt(j, st) /\ OwnRight(j, st)
  BY ThreadStoresOwn DEF MovedRight
<1>2. /\ j \in JobRecord /\ j.elem \in Element /\ Idle(j.elem) /\ j.elem \notin requiredCallback
      /\ \A l \in jobs : l.elem = j.elem => l = j
  BY HasJob DEF JobInv, JobsTyped
<1> DEFINE k == [j EXCEPT !.st = st]
<1>3. k.queue = j.queue /\ k.elem = j.elem /\ k.st = st
  BY <1>2 DEF JobRecord
<1>4. jobs' = (jobs \ {j}) \cup {k}
  BY <1>1 DEF ThreadAt
<1> HIDE DEF k
<1>5. ~Querying /\ UNCHANGED <<phase, requiredCallback, readyQueue>>
  BY ThreadMoves DEF ThreadStep, Querying, mainVars, queueVars, callbackVars
<1>6. \A e \in Element : e # j.elem => Untouched(e)
  BY ThreadTouches
<1>7. ASSUME NEW e \in Element, NoBuild(e)' PROVE Settled(e)'
  <2>1. CASE e = j.elem
    <3>1. ~InQueue(j, "Build")
      BY <1>3, <1>4, <1>7, <2>1 DEF NoBuild, InQueue
    <3> QED  BY <1>1, <2>1, <3>1 DEF OwnRight
  <2>2. CASE e # j.elem
    <3>1. NoBuild(e)
      BY <1>4, <1>7, <2>2 DEF NoBuild, InQueue
    <3> QED  BY <1>5, <1>6, <2>2, <3>1, UntouchedStored DEF StoredInv
  <2> QED  BY <2>1, <2>2
<1>8. ASSUME NEW e \in Element
      PROVE  /\ e \in pullPending' /\ e \in requiredCallback' => Missing(e)'
             /\ PullWaits(e)' => Missing(e)'
  <2>1. CASE e = j.elem
    BY <1>2, <1>5, <2>1 DEF PullWaits, Idle, NoneOf
  <2>2. CASE e # j.elem
    <3>1. /\ Missing(e)' <=> Missing(e)
          /\ e \in pullPending' <=> e \in pullPending
      BY <1>6, <2>2, UntouchedStored
    <3> QED  BY <1>5, <3>1 DEF StoredInv, PullWaits
  <2> QED  BY <2>1, <2>2
<1>9. ASSUME NEW l \in jobs'
      PROVE  /\ InQueue(l, "Pull") => PullAt(l.st, l.elem)'
             /\ InQueue(l, "Build") => BuildAt(l.st, l.elem)'
  <2>1. CASE l = k
    BY <1>1, <1>3, <2>1 DEF OwnRight, InQueue
  <2>2. CASE l \in jobs /\ l # j
    <3>1. l.elem \in Element /\ l.elem # j.elem
      BY <1>2, <2>2 DEF JobInv, JobsTyped, JobRecord
    <3> QED  BY <1>6, <2>2, <3>1, UntouchedStored DEF StoredInv
  <2> QED  BY <1>4, <2>1, <2>2
<1> QED  BY <1>5, <1>7, <1>8, <1>9 DEF StoredInv, Querying, InQueue

-----------------------------------------------------------------------------
(* While the caches are queried, and when the scheduler starts. *)

LEMMA QueryStored ==
  ASSUME Strict, ~RetryFailed, JobInv, PlaceInv, ElementTyped, StoredInv, QueryArtifact
  PROVE  StoredInv'
<1>0. PICK x \in Element : position \in 1..Len(Plan) /\ x = Plan[position]
  BY PlanAssumption DEF QueryArtifact, JobInv, SessionTyped
<1>1. /\ phase = "query" /\ phase' = "queried" /\ position' = position
      /\ LoadArtifact(x) /\ UNCHANGED <<cascadeVars, queueVars, jobs>>
  BY <1>0 DEF QueryArtifact, JobInv, SessionTyped
<1>2. jobs = {} /\ requiredCallback = {} /\ readyQueue = NoArrivals
  BY <1>1 DEF PlaceInv, QueryEmpty
<1>3. Depth(x) = position
  BY <1>0, DepthIs
<1>4. \A e \in Element : e # x => Depth(e) # position
  BY <1>0, DepthIs
<1>5. /\ stored \in [Element -> Result] /\ artifact \in [Element -> {"none", "uncached", "cached"}]
      /\ buildResult \in [Element -> Result] /\ position \in Nat
      /\ cachedSuccessfully' = cachedSuccessfully
  BY <1>1 DEF ElementTyped, ArtifactsTyped, cascadeVars, JobInv, SessionTyped
<1>6. NotQueried(x)
  BY <1>1, <1>3, <1>5 DEF StoredInv, Querying, Queried
<1>7. Settled(x)' /\ (x \in pullPending' => Missing(x)')
  <2> DEFINE kept == stored[x] # "none"
  <2>1. stored[x] \in {"none", "success", "failure"}
    BY <1>5 DEF Result
  <2>2. /\ stored' = stored
        /\ artifact'[x] = IF kept THEN "cached" ELSE "uncached"
        /\ kept => buildResult'[x] = stored[x]
        /\ x \in pullPending' => x \in pullPending \/ ~kept
    <3>1. CASE stored[x] = "none"
      BY <1>1, <1>5, <3>1 DEF LoadArtifact
    <3>2. CASE stored[x] = "success"
      BY <1>1, <1>5, <3>2 DEF LoadArtifact
    <3>3. CASE stored[x] = "failure"
      BY <1>1, <1>5, <3>3 DEF LoadArtifact
    <3> QED  BY <2>1, <3>1, <3>2, <3>3
  <2>3. x \notin cachedSuccessfully' /\ x \notin pullPending
    BY <1>5, <1>6 DEF NotQueried
  <2> QED  BY <2>1, <2>2, <2>3 DEF Missing, Failed, Succeeded, Settled
<1>8. ASSUME NEW e \in Element, e # x
      PROVE  /\ Missing(e) => Missing(e)'
             /\ Settled(e) => Settled(e)'
             /\ NotQueried(e) => NotQueried(e)'
             /\ e \in pullPending' => e \in pullPending
  <2>1. /\ stored'[e] = stored[e] /\ artifact'[e] = artifact[e] /\ buildResult'[e] = buildResult[e]
        /\ e \in pullPending' <=> e \in pullPending
    BY <1>1, <1>5, <1>8 DEF LoadArtifact
  <2> QED  BY <1>5, <2>1 DEF Missing, Failed, Succeeded, Settled, NotQueried
<1>9. \A e \in Element : e # x => (Queried(e)' <=> Queried(e))
  BY <1>1, <1>4 DEF Queried
<1>10. Queried(x)' /\ Querying /\ Querying'
  BY <1>1, <1>3 DEF Queried, Querying
<1>11. jobs' = {} /\ \A e \in Element : ~PullWaits(e)'
  BY <1>1, <1>2 DEF PullWaits, queueVars, NoArrivals, Nothing
<1> QED  BY <1>7, <1>8, <1>9, <1>10, <1>11 DEF StoredInv

LEMMA QueryDoneStored ==
  ASSUME JobInv, PlaceInv, ElementTyped, StoredInv, QueryArtifactDone
  PROVE  StoredInv'
<1>1. /\ phase = "queried" /\ phase' = "query" /\ position' = position + 1
      /\ UNCHANGED <<stored, artifact, buildResult, pullPending, readyQueue, jobs>>
  BY DEF QueryArtifactDone, artifactVars, queueVars
<1>2. jobs = {} /\ readyQueue = NoArrivals
  BY <1>1 DEF PlaceInv, QueryEmpty
<1>3. UNCHANGED cascadeVars \/ LoadArtifactDone(Plan[position])
  BY DEF QueryArtifactDone
<1>4. ASSUME NEW e \in Element
      PROVE  (CachedSuccess(e)' <=> CachedSuccess(e)) /\ cachedSuccessfully \subseteq cachedSuccessfully'
  <2>1. CASE UNCHANGED cascadeVars
    BY <1>1, <2>1 DEF cascadeVars, CachedSuccess, Successful
  <2>2. CASE LoadArtifactDone(Plan[position])
    BY <1>1, <2>2, LoadDoneSuccess DEF LoadArtifactDone, Notify
  <2> QED  BY <1>3, <2>1, <2>2
<1>5. ASSUME NEW e \in Element
      PROVE  /\ Missing(e) => Missing(e)'
             /\ Settled(e) => Settled(e)'
             /\ NotQueried(e) => NotQueried(e)'
  BY <1>1, <1>4, SuccessStored
<1>6. \A e \in Element : Queried(e)' <=> Queried(e)
  BY <1>1, DepthIs DEF Queried, JobInv, SessionTyped
<1>7. Querying /\ Querying' /\ jobs' = {} /\ \A e \in Element : ~PullWaits(e)'
  BY <1>1, <1>2 DEF Querying, PullWaits, NoArrivals, Nothing
<1> QED  BY <1>1, <1>5, <1>6, <1>7 DEF StoredInv

LEMMA EnqueuePlanStored ==
  ASSUME JobInv, PlaceInv, StoredInv, EnqueuePlan
  PROVE  StoredInv'
<1>1. /\ phase = "query" /\ phase' = "run" /\ position > Len(Plan)
      /\ UNCHANGED <<stored, artifact, buildResult, pullPending, cachedSuccessfully>>
  BY DEF EnqueuePlan, elementVars, artifactVars, cascadeVars
<1>2. QueryEmpty /\ jobs' = {}
  BY <1>1 DEF EnqueuePlan, PlaceInv, QueryEmpty
<1>3. \A e \in Element : Queried(e)
  BY <1>1, DepthIs, PlanAssumption DEF Queried, JobInv, SessionTyped
<1>4. \A e \in Element : Settled(e) /\ (e \in pullPending => Missing(e))
  BY <1>1, <1>3 DEF StoredInv, Querying
<1>5. ASSUME NEW e \in Element, PullWaits(e)' PROVE e \in pullPending
  <2>1. PICK q \in QueueId : Queues[q] = "Pull" /\ readyQueue'[q][e] # 0
    BY <1>5 DEF PullWaits
  <2>2. Ready(q, e)'
    BY <1>2, <2>1, EnqueuePlanFlow
  <2> QED  BY <1>1, <2>1, <2>2 DEF Ready, Skipped
<1>6. \A e \in Element : (Missing(e)' <=> Missing(e)) /\ (Settled(e)' <=> Settled(e))
  BY <1>1 DEF Missing, Failed, Succeeded, Settled
<1> QED  BY <1>1, <1>2, <1>4, <1>5, <1>6 DEF StoredInv, Querying

-----------------------------------------------------------------------------
(* While the scheduler runs. *)

\* What is settled and not built is still to be built, or failed.
LEMMA SettledIsUnbuilt ==
  ASSUME NEW e \in Element, Settled(e), ~CachedSuccess(e)
  PROVE  Missing(e) \/ Failed(e)
BY DEF Settled, Succeeded, CachedSuccess, Successful

LEMMA RealScheduleStored ==
  ASSUME JobInv, PlaceInv, UnbuiltInv, StoredInv, RealSchedule
  PROVE  StoredInv'
<1>1. /\ ~Querying /\ ~Querying' /\ UNCHANGED <<elementVars, requiredCallback>>
  BY DEF RealSchedule, Querying
<1>2. UNCHANGED <<stored, artifact, buildResult, pullPending, cachedSuccessfully>>
  BY <1>1 DEF elementVars, artifactVars, cascadeVars
<1>3. \A e \in Element :
        /\ Missing(e)' <=> Missing(e)
        /\ Settled(e)' <=> Settled(e)
        /\ \A st : (PullAt(st, e)' <=> PullAt(st, e)) /\ (BuildAt(st, e)' <=> BuildAt(st, e))
  BY <1>2 DEF Missing, Failed, Succeeded, Settled, Stored, PullAt, BuildAt
<1>4. CASE terminated
  <2>1. UNCHANGED <<jobs, readyQueue>>
    BY <1>4 DEF RealSchedule
  <2>2. \A e \in Element : (NoBuild(e)' <=> NoBuild(e)) /\ (PullWaits(e)' <=> PullWaits(e))
    BY <2>1 DEF NoBuild, PullWaits, InQueue
  <2>3. \A j \in jobs : j.elem \in Element
    BY DEF JobInv, JobsTyped, JobRecord
  <2> QED  BY <1>1, <1>2, <1>3, <2>1, <2>2, <2>3 DEF StoredInv, InQueue
<1>5. CASE ~terminated
  <2>1. QueueJobs
    BY <1>5 DEF RealSchedule
  <2>2. jobs \subseteq jobs' /\ \A k \in jobs' : k.elem \in Element
    BY <2>1, QueueJobsKeeps DEF JobsTyped, JobRecord
  <2>3. \A e \in Element : NoBuild(e)' => NoBuild(e)
    BY <2>2 DEF NoBuild, InQueue
  <2>4. \A q \in QueueId, e \in Element : Queues[q] = "Pull" => ~Flowed(q, e)
    BY QueuesInOrder DEF Flowed
  <2>5. ASSUME NEW e \in Element, PullWaits(e)' PROVE Missing(e)
    <3>1. PICK q \in QueueId : Queues[q] = "Pull" /\ readyQueue'[q][e] # 0
      BY <2>5 DEF PullWaits
    <3>2. Single(e)
      BY DEF PlaceInv
    <3>3. readyQueue[q][e] # 0
      BY <1>1, <2>1, <2>4, <3>1, <3>2, QueueJobsFlow
    <3> QED  BY <3>1, <3>3 DEF StoredInv, PullWaits
  <2>6. ASSUME NEW k \in jobs'
        PROVE  /\ InQueue(k, "Pull") => PullAt(k.st, k.elem)
               /\ InQueue(k, "Build") => BuildAt(k.st, k.elem)
    <3>1. k.elem \in Element /\ Single(k.elem)
      BY <2>2 DEF PlaceInv
    <3>2. CASE k \in jobs
      BY <3>2 DEF StoredInv
    <3>3. CASE k \notin jobs
      <4>1. /\ k.queue \in QueueId /\ k.st = "start"
            /\ \/ readyQueue[k.queue][k.elem] # 0
               \/ Ready(k.queue, k.elem) /\ Flowed(k.queue, k.elem)
        BY <1>1, <2>1, <3>1, <3>3, QueueJobsFlow
      <4>2. ASSUME InQueue(k, "Pull") PROVE Missing(k.elem)
        BY <2>4, <3>1, <4>1, <4>2 DEF InQueue, StoredInv, PullWaits
      <4>3. ASSUME InQueue(k, "Build") PROVE Missing(k.elem) \/ Failed(k.elem)
        <5>1. ~CachedSuccess(k.elem)
          BY <3>1, <4>1, <4>3, ReadyIsUnbuilt DEF InQueue, UnbuiltInv, BuildWaits
        <5>2. ~NoneOf(readyQueue, k.elem) \/ ~NoneOf(doneQueue, k.elem)
          <6>1. CASE readyQueue[k.queue][k.elem] # 0
            BY <4>1, <6>1 DEF NoneOf
          <6>2. CASE Flowed(k.queue, k.elem)
            <7>1. PICK p \in 1..(k.queue - 1) : doneQueue[p][k.elem] # 0
              BY <6>2 DEF Flowed
            <7>2. p \in QueueId
              BY <4>1, QueuesTyped
            <7> QED  BY <7>1, <7>2 DEF NoneOf
          <6> QED  BY <4>1, <6>1, <6>2
        <5>3. NoBuild(k.elem)
          BY <3>1, <5>2 DEF Single, Idle, NoJob, NoBuild
        <5> QED  BY <1>1, <3>1, <5>1, <5>3, SettledIsUnbuilt DEF StoredInv
      <4> QED  BY <4>1, <4>2, <4>3 DEF PullAt, BuildAt
    <3> QED  BY <3>2, <3>3
  <2> QED  BY <1>1, <1>2, <1>3, <2>2, <2>3, <2>5, <2>6 DEF StoredInv, InQueue
<1> QED  BY <1>4, <1>5

\* The end of a build adopts what the cache has.
LEMMA BuildEnds ==
  ASSUME ElementTyped, NEW e \in Element, NEW st \in Over, BuildAt(st, e),
         AssembleDone(e, st = "ok")
  PROVE  /\ Settled(e)'
         /\ stored[e] # "success" => (Missing(e) \/ Failed(e))'
<1> DEFINE handle == [artifact EXCEPT ![e] = IF st = "ok" \/ stored[e] # "none" THEN "cached"
                                             ELSE "uncached"]
           built == IF st = "ok" THEN {e} ELSE {}
           keys == KeysUpdated(cacheKey, {e})
           S == NewlyReady(e, keys, Successful(handle) \cup built)
<1>1. /\ artifact' = handle /\ cachedSuccessfully' = cachedSuccessfully \cup (S \cup built)
      /\ UNCHANGED <<stored, buildResult>>
  BY DEF AssembleDone, Notify
<1>2. S \subseteq Successful(handle) \cup built
  <2> HIDE DEF keys, handle, built
  <2> QED  BY NewlyReadyIsNew
<1>3. handle[e] = IF st = "ok" \/ stored[e] # "none" THEN "cached" ELSE "uncached"
  BY DEF ElementTyped, ArtifactsTyped
<1>4. e \in built <=> st = "ok"
  OBVIOUS
<1>5. /\ stored[e] \in {"none", "success", "failure"}
  BY DEF ElementTyped, ArtifactsTyped, Result
<1> HIDE DEF handle, built, S
<1>6. \/ Missing(e) /\ st # "ok"
      \/ Failed(e) /\ st # "ok"
      \/ Stored(e) /\ (st = "ok" => stored[e] = "success")
  BY DEF BuildAt, Over
<1>7. CASE stored[e] = "none"
  <2>1. Missing(e) /\ st # "ok"
    BY <1>6, <1>7 DEF Failed, Stored
  <2>2. artifact'[e] = "uncached"
    BY <1>1, <1>3, <1>7, <2>1
  <2>3. e \notin Successful(handle) \cup built
    BY <1>1, <1>4, <2>1, <2>2 DEF Missing, Successful
  <2>4. Missing(e)'
    BY <1>1, <1>2, <1>7, <2>1, <2>2, <2>3 DEF Missing
  <2> QED  BY <2>4 DEF Settled
<1>8. CASE stored[e] = "failure"
  <2>1. buildResult[e] = "failure" /\ st # "ok" /\ e \notin cachedSuccessfully
    BY <1>6, <1>8 DEF Missing, Failed, Stored
  <2>2. artifact'[e] = "cached"
    BY <1>1, <1>3, <1>8
  <2>3. e \notin Successful(handle) \cup built
    BY <1>4, <2>1 DEF Successful
  <2>4. Failed(e)'
    BY <1>1, <1>2, <1>8, <2>1, <2>2, <2>3 DEF Failed
  <2> QED  BY <2>4 DEF Settled
<1>9. CASE stored[e] = "success"
  <2>1. buildResult[e] = "success"
    BY <1>6, <1>9 DEF Missing, Failed, Stored
  <2>2. artifact'[e] = "cached"
    BY <1>1, <1>3, <1>9
  <2> QED  BY <1>1, <1>9, <2>1, <2>2 DEF Succeeded, Settled
<1> QED  BY <1>5, <1>7, <1>8, <1>9

LEMMA JobDoneStored ==
  ASSUME JobInv, PlaceInv, ElementTyped, StoredInv,
         NEW j \in jobs, NEW raised \in BOOLEAN, NEW reaction, reaction # "retry",
         JobDone(j, raised, reaction)
  PROVE  StoredInv'
<1>1. /\ j.elem \in Element /\ j.queue \in QueueId /\ Idle(j.elem)
      /\ j.elem \notin requiredCallback /\ \A k \in jobs : k.elem = j.elem => k = j
  BY HasJob
<1>2. /\ jobs' = jobs \ {j} /\ ~Querying /\ ~Querying' /\ j.st \in Over
      /\ requiredCallback' \subseteq requiredCallback
  BY DEF JobDone, Querying
<1>3. UNCHANGED <<stored, buildResult, pullPending>> /\ cachedSuccessfully \subseteq cachedSuccessfully'
  BY <1>1, JobDoneTouches
<1>4. ASSUME NEW e \in Element, e # j.elem \/ ~InQueue(j, "Build")
      PROVE  /\ Missing(e) => Missing(e)'
             /\ Settled(e) => Settled(e)'
             /\ \A st : (PullAt(st, e) => PullAt(st, e)') /\ (BuildAt(st, e) => BuildAt(st, e)')
  <2>1. artifact'[e] = artifact[e] /\ (CachedSuccess(e)' <=> CachedSuccess(e))
    BY <1>1, <1>4, JobDoneTouches
  <2> QED  BY <1>3, <2>1, SuccessStored
<1>5. InQueue(j, "Build") => Settled(j.elem)'
  BY <1>1, <1>2, BuildEnds DEF JobDone, Finish, InQueue, StoredInv
<1>6. ASSUME NEW e \in Element, NoBuild(e)' PROVE Settled(e)'
  <2>1. CASE e = j.elem /\ InQueue(j, "Build")
    BY <1>5, <2>1
  <2>2. CASE ~(e = j.elem /\ InQueue(j, "Build"))
    <3>1. NoBuild(e)
      BY <1>2, <1>6, <2>2 DEF NoBuild, InQueue
    <3> QED  BY <1>2, <1>4, <2>2, <3>1 DEF StoredInv
  <2> QED  BY <2>1, <2>2
<1>7. \A q \in QueueId : ~Came(q, j.elem)
  BY <1>1 DEF Came, Idle, NotWaiting
<1>8. ASSUME NEW e \in Element, PullWaits(e)' PROVE Missing(e)'
  <2>1. PICK q \in QueueId : Queues[q] = "Pull" /\ readyQueue'[q][e] # 0
    BY <1>8 DEF PullWaits
  <2>2. readyQueue[q][e] # 0 \/ (Ready(q, e)' /\ Came(q, e))
    BY <2>1, JobDoneFlow
  <2>3. e # j.elem
    BY <1>1, <1>7, <2>2 DEF Idle, NoneOf
  <2>4. CASE readyQueue[q][e] # 0
    BY <1>4, <2>1, <2>3, <2>4 DEF StoredInv, PullWaits
  <2>5. CASE Ready(q, e)' /\ Came(q, e)
    <3>1. e \in pullPending
      BY <1>3, <2>1, <2>5 DEF Ready, Skipped
    <3>2. e \in requiredCallback
      BY <2>1, <2>5 DEF Came
    <3> QED  BY <1>4, <2>3, <3>1, <3>2 DEF StoredInv
  <2> QED  BY <2>2, <2>4, <2>5
<1>9. ASSUME NEW e \in Element, e \in pullPending', e \in requiredCallback' PROVE Missing(e)'
  BY <1>1, <1>2, <1>3, <1>4, <1>9 DEF StoredInv
<1>10. ASSUME NEW k \in jobs'
       PROVE  /\ InQueue(k, "Pull") => PullAt(k.st, k.elem)'
              /\ InQueue(k, "Build") => BuildAt(k.st, k.elem)'
  <2>1. k \in jobs /\ k.elem \in Element /\ k.elem # j.elem
    BY <1>1, <1>2 DEF JobInv, JobsTyped, JobRecord
  <2> QED  BY <1>4, <2>1 DEF StoredInv
<1> QED  BY <1>2, <1>6, <1>8, <1>9, <1>10 DEF StoredInv, InQueue

LEMMA StoredNext ==
  ASSUME Strict, ~RetryFailed, "retry" \notin OnFailure,
         JobInv, PlaceInv, ElementTyped, UnbuiltInv, PastInv, StoredInv, [Next]_vars
  PROVE  StoredInv'
<1>1. CASE \E j \in jobs : ThreadStep(j)
  BY <1>1, ThreadStored
<1>2. CASE Quiet
  <2>1. /\ UNCHANGED <<elementVars, phase, position, queueVars>>
        /\ \A k \in jobs' : \E l \in jobs : Alike(k, l)
        /\ \A l \in jobs : \E k \in jobs' : Alike(k, l)
    BY <1>2, QuietKeeps
  <2>2. /\ UNCHANGED <<stored, artifact, buildResult, pullPending, cachedSuccessfully>>
        /\ UNCHANGED <<phase, position, requiredCallback, readyQueue>>
    BY <2>1 DEF elementVars, artifactVars, cascadeVars, queueVars, callbackVars
  <2>3. \A e \in Element :
          /\ Missing(e)' <=> Missing(e)
          /\ Settled(e)' <=> Settled(e)
          /\ NotQueried(e)' <=> NotQueried(e)
          /\ Queried(e)' <=> Queried(e)
          /\ PullWaits(e)' <=> PullWaits(e)
          /\ \A st : (PullAt(st, e)' <=> PullAt(st, e)) /\ (BuildAt(st, e)' <=> BuildAt(st, e))
    BY <2>2 DEF Missing, Failed, Succeeded, Settled, Stored, PullAt, BuildAt, NotQueried, Queried,
                PullWaits
  <2>4. \A e \in Element : NoBuild(e)' => NoBuild(e)
    BY <2>1 DEF NoBuild, InQueue, Alike
  <2>5. \A j \in jobs : j.elem \in Element
    BY DEF JobInv, JobsTyped, JobRecord
  <2>6. \A k \in jobs' : /\ InQueue(k, "Pull") => PullAt(k.st, k.elem)'
                         /\ InQueue(k, "Build") => BuildAt(k.st, k.elem)'
    BY <2>1, <2>3, <2>5 DEF StoredInv, InQueue, Alike
  <2> QED  BY <2>2, <2>3, <2>4, <2>6 DEF StoredInv, Querying, InQueue
<1>3. CASE QueryArtifact \/ QueryArtifactDone \/ EnqueuePlan \/ RealSchedule
  BY <1>3, QueryStored, QueryDoneStored, EnqueuePlanStored, RealScheduleStored
<1>4. \A reaction \in OnFailure \cup {"none"} : reaction # "retry"
  OBVIOUS
<1>5. \A j \in jobs, raised \in BOOLEAN, reaction \in OnFailure \cup {"none"} :
        JobDone(j, raised, reaction) => StoredInv'
  BY <1>4, JobDoneStored
<1> QED
  BY <1>1, <1>2, <1>3, <1>5 DEF Next, MainStep, Quiet

LEMMA SpecStored ==
  ASSUME Strict, ~RetryFailed, "retry" \notin OnFailure
  PROVE  Spec => []StoredInv
<1>1. JobInv /\ PlaceInv /\ ElementTyped /\ UnbuiltInv /\ PastInv /\ StoredInv /\ [Next]_vars
        => StoredInv'
  BY StoredNext
<1> QED
  BY <1>1, StoredInit, SpecJobInv, SpecPlaceInv, SpecTyped, SpecUnbuilt, SpecPast, PTL DEF Spec

\* What is known to be cached successfully is in the cache as a success.
LEMMA SuccessIsStored ==
  ASSUME JobInv, StoredInv, NEW e \in Element, e \in cachedSuccessfully
  PROVE  Succeeded(e)
<1>1. CASE Querying
  BY <1>1 DEF StoredInv, NotQueried, Settled, Missing, Failed
<1>2. CASE ~Querying /\ NoBuild(e)
  BY <1>2 DEF StoredInv, Settled, Missing, Failed
<1>3. CASE ~NoBuild(e)
  <2>1. PICK j \in jobs : j.elem = e /\ InQueue(j, "Build")
    BY <1>3 DEF NoBuild
  <2>2. BuildAt(j.st, e) /\ j.st \in JobState
    BY <2>1 DEF StoredInv, JobInv, JobsTyped, JobRecord
  <2> QED  BY <2>2 DEF BuildAt, JobState, Missing, Failed, Stored
<1> QED  BY <1>1, <1>2, <1>3

\* In strict mode, when failed builds are kept and not retried, what is announced as
\* ready really is in the cache as a success, whatever is terminated on the way.
THEOREM ReadyIsReallyStored ==
  ASSUME Strict, ~RetryFailed, "retry" \notin OnFailure
  PROVE  Spec => []ReadyIsStored
<1>1. ASSUME JobInv, Inv, StoredInv PROVE ReadyIsStored
  BY <1>1, SuccessIsStored DEF Inv, Readiness, ReadySound, ReadyIsStored, Succeeded
<1> QED  BY <1>1, SpecJobInv, SpecInv, SpecStored, PTL

-----------------------------------------------------------------------------
(* The session implements BuildOrder. *)

Got == {e \in Element : stored[e] = "success"}
AtWork == {e \in Element : Building(e) # {}}
Ordered == [Order!Next]_<<Got, AtWork>>

AtBuild(j) == InQueue(j, "Build") /\ j.st \in {"begun", "built"}

LEMMA AtWorkIs == \A e \in Element : e \in AtWork <=> \E j \in jobs : j.elem = e /\ AtBuild(j)
BY DEF AtWork, Building, AtBuild

LEMMA AtWorkIsNext ==
  \A e \in Element : e \in AtWork' <=> \E j \in jobs' : j.elem = e /\ AtBuild(j)'
<1>1. (\A e \in Element : e \in AtWork <=> \E j \in jobs : j.elem = e /\ AtBuild(j))'
  BY AtWorkIs, PTL
<1> QED  BY <1>1

\* Four ways to keep the order.
LEMMA Same ==
  ASSUME Got' = Got, AtWork' = AtWork
  PROVE  Ordered
BY DEF Ordered

LEMMA Found ==
  ASSUME NEW e \in Element, e \notin Got \cup AtWork,
         Got' = Got \cup {e}, AtWork' = AtWork
  PROVE  Ordered
<1>1. Order!Find(e)
  BY DEF Order!Find, Got, AtWork
<1> QED  BY <1>1 DEF Ordered, Order!Next

LEMMA Started ==
  ASSUME NEW e \in Element, e \notin Got \cup AtWork, BuildScope[e] \subseteq Got,
         Got' = Got, AtWork' = AtWork \cup {e}
  PROVE  Ordered
<1>1. Order!Start(e)
  BY DEF Order!Start, Got, AtWork
<1> QED  BY <1>1 DEF Ordered, Order!Next

LEMMA Finished ==
  ASSUME NEW e \in Element, e \in AtWork,
         Got' \in {Got, Got \cup {e}}, AtWork' = AtWork \ {e}
  PROVE  Ordered
<1>1. Order!Finish(e)
  BY DEF Order!Finish, Got, AtWork
<1> QED  BY <1>1 DEF Ordered, Order!Next

\* What a thread starts or ends.
LEMMA AtWorkMoves ==
  ASSUME JobInv, PlaceInv, NEW j \in jobs, NEW st \in JobState, ThreadAt(j, st)
  PROVE  /\ j.elem \in AtWork <=> AtBuild(j)
         /\ AtWork' = IF InQueue(j, "Build") /\ st \in {"begun", "built"}
                      THEN AtWork \cup {j.elem} ELSE AtWork \ {j.elem}
<1>1. /\ j \in JobRecord /\ j.elem \in Element /\ \A l \in jobs : l.elem = j.elem => l = j
  BY HasJob DEF JobInv, JobsTyped
<1> DEFINE k == [j EXCEPT !.st = st]
<1>2. k.queue = j.queue /\ k.elem = j.elem /\ k.st = st
  BY <1>1 DEF JobRecord
<1>3. jobs' = (jobs \ {j}) \cup {k}
  BY DEF ThreadAt
<1> HIDE DEF k
<1>4. AtBuild(k)' <=> InQueue(j, "Build") /\ st \in {"begun", "built"}
  BY <1>2 DEF AtBuild, InQueue
<1>5. \A l \in jobs : AtBuild(l)' <=> AtBuild(l)
  BY DEF AtBuild, InQueue
<1>6. \A e \in Element : e # j.elem => (e \in AtWork' <=> e \in AtWork)
  BY <1>1, <1>2, <1>3, <1>5, AtWorkIs, AtWorkIsNext
<1>7. j.elem \in AtWork' <=> InQueue(j, "Build") /\ st \in {"begun", "built"}
  BY <1>1, <1>2, <1>3, <1>4, AtWorkIsNext
<1>8. j.elem \in AtWork <=> AtBuild(j)
  BY <1>1, AtWorkIs
<1>9. AtWork \subseteq Element /\ AtWork' \subseteq Element
  BY DEF AtWork
<1> QED  BY <1>1, <1>6, <1>7, <1>8, <1>9

\* What a build stages is in the cache.
LEMMA InputsAreGot ==
  ASSUME JobInv, Inv, StoredInv, NEW j \in jobs, InQueue(j, "Build")
  PROVE  BuildScope[j.elem] \subseteq Got
<1>1. j.elem \in Element /\ BuildDeps[j.elem] \subseteq ready
  BY DEF Inv, BuildJobs, JobInv, JobsTyped, JobRecord
<1>2. ReadySound /\ ready \subseteq Element
  BY DEF Inv, Readiness
<1>3. BuildScope[j.elem] \subseteq ready
  BY <1>1, <1>2, ReadyHasBuildScope
<1>4. \A e \in ready : e \in Element /\ e \in cachedSuccessfully
  BY <1>2 DEF ReadySound
<1> QED  BY <1>3, <1>4, SuccessIsStored DEF Got, Succeeded

LEMMA ThreadOrdered ==
  ASSUME JobInv, PlaceInv, Inv, ElementTyped, StoredInv, NEW j \in jobs, ThreadStep(j)
  PROVE  Ordered
<1>1. j.elem \in Element /\ j.st \in JobState
  BY HasJob
<1>2. /\ InQueue(j, "Build") => BuildAt(j.st, j.elem)
      /\ InQueue(j, "Pull") => PullAt(j.st, j.elem)
  BY DEF StoredInv
<1>3. stored \in [Element -> Result]
  BY DEF ElementTyped, ArtifactsTyped
<1>4. (UNCHANGED stored => Got' = Got) /\ Got \subseteq Element
  BY DEF Got
<1>5. ASSUME NEW result, stored' = [stored EXCEPT ![j.elem] = result], stored[j.elem] = "none"
      PROVE  Got' = IF result = "success" THEN Got \cup {j.elem} ELSE Got
  BY <1>1, <1>3, <1>5 DEF Got
<1>6. ASSUME ~InQueue(j, "Build"), NEW st \in JobState, ThreadAt(j, st)
      PROVE  AtWork' = AtWork /\ j.elem \notin AtWork
  BY <1>6, AtWorkMoves DEF AtBuild
<1>7. CASE Begin(j)
  <2>1. j.st = "start" /\ UNCHANGED stored
    BY <1>7 DEF Begin, PullBegins, elementVars, artifactVars
  <2>2. PICK st \in {"term", "fail", "begun"} : ThreadAt(j, st)
    BY <1>7 DEF Begin
  <2>3. st \in JobState
    BY DEF JobState
  <2>4. j.elem \notin AtWork
    BY <2>1, <2>2, <2>3, AtWorkMoves DEF AtBuild
  <2>5. CASE InQueue(j, "Build") /\ st = "begun"
    <3>1. j.elem \notin Got
      BY <1>2, <2>1, <2>5 DEF BuildAt, Missing, Failed, Got
    <3>2. AtWork' = AtWork \cup {j.elem}
      BY <2>2, <2>3, <2>5, AtWorkMoves
    <3> QED  BY <1>1, <1>4, <2>1, <2>4, <2>5, <3>1, <3>2, InputsAreGot, Started
  <2>6. CASE ~(InQueue(j, "Build") /\ st = "begun")
    <3>1. AtWork' = AtWork
      BY <2>2, <2>3, <2>4, <2>6, AtWorkMoves
    <3> QED  BY <1>4, <2>1, <3>1, Same
  <2> QED  BY <2>5, <2>6
<1>8. CASE PullStep(j)
  <2>1. InQueue(j, "Pull") /\ ~InQueue(j, "Build") /\ stored[j.elem] = "none"
    BY <1>2, <1>8 DEF PullStep, PullAt, Missing, InQueue
  <2>2. \E st \in {"ok", "skip", "fail"} : ThreadAt(j, st)
    BY <1>8 DEF PullStep
  <2>3. AtWork' = AtWork /\ j.elem \notin AtWork
    BY <1>6, <2>1, <2>2 DEF JobState
  <2>4. UNCHANGED stored \/ \E result : stored' = [stored EXCEPT ![j.elem] = result]
    BY <1>8 DEF PullStep, PullEnds, artifactVars
  <2>5. j.elem \notin Got
    BY <2>1 DEF Got
  <2>6. Got' = Got \/ Got' = Got \cup {j.elem}
    BY <1>4, <1>5, <2>1, <2>4
  <2> QED  BY <1>1, <2>3, <2>5, <2>6, Same, Found
<1>9. CASE FetchStep(j) \/ PushStep(j)
  <2>1. ~InQueue(j, "Build") /\ UNCHANGED stored
    BY <1>9 DEF FetchStep, PushStep, InQueue, elementVars, artifactVars
  <2>2. \E st \in JobState : ThreadAt(j, st)
    BY <1>9 DEF FetchStep, PushStep, JobState
  <2> QED  BY <1>4, <1>6, <2>1, <2>2, Same
<1>10. CASE Assemble(j)
  <2>1. InQueue(j, "Build") /\ AtBuild(j) /\ UNCHANGED stored
    BY <1>10 DEF Assemble, AtBuild
  <2>2. PICK st \in {"fail", "built"} : ThreadAt(j, st)
    BY <1>10 DEF Assemble
  <2>3. /\ j.elem \in AtWork
        /\ AtWork' = IF st = "built" THEN AtWork \cup {j.elem} ELSE AtWork \ {j.elem}
    BY <2>1, <2>2, AtWorkMoves DEF JobState
  <2>4. AtWork' = AtWork \/ AtWork' = AtWork \ {j.elem}
    BY <2>3
  <2> QED  BY <1>1, <1>4, <2>1, <2>3, <2>4, Same, Finished
<1>11. CASE CacheArtifact(j)
  <2>1. InQueue(j, "Build") /\ AtBuild(j) /\ stored[j.elem] = "none"
    BY <1>2, <1>11 DEF CacheArtifact, AtBuild, BuildAt, Missing
  <2>2. PICK st \in {"ok", "fail", "term"} : ThreadAt(j, st)
    BY <1>11 DEF CacheArtifact
  <2>3. j.elem \in AtWork /\ AtWork' = AtWork \ {j.elem}
    BY <2>1, <2>2, AtWorkMoves DEF JobState
  <2>4. UNCHANGED stored \/ \E result : stored' = [stored EXCEPT ![j.elem] = result]
    BY <1>11 DEF CacheArtifact
  <2>5. Got' \in {Got, Got \cup {j.elem}}
    BY <1>4, <1>5, <2>1, <2>4
  <2> QED  BY <1>1, <2>3, <2>5, Finished
<1>12. CASE Terminate(j)
  <2>1. UNCHANGED stored /\ ThreadAt(j, "term")
    BY <1>12 DEF Terminate, elementVars, artifactVars
  <2>2. AtWork' = AtWork \ {j.elem}
    BY <2>1, AtWorkMoves DEF JobState
  <2>3. AtWork' = AtWork \/ j.elem \in AtWork
    BY <2>2
  <2> QED  BY <1>1, <1>4, <2>1, <2>2, <2>3, Same, Finished
<1> QED
  BY <1>7, <1>8, <1>9, <1>10, <1>11, <1>12 DEF ThreadStep

LEMMA StepOrdered ==
  ASSUME JobInv, PlaceInv, Inv, ElementTyped, StoredInv, [Next]_vars
  PROVE  Ordered
<1>1. UNCHANGED stored => Got' = Got
  BY DEF Got
<1>2. AtWork \subseteq Element /\ AtWork' \subseteq Element
  BY DEF AtWork
<1>3. CASE \E j \in jobs : ThreadStep(j)
  BY <1>3, ThreadOrdered
<1>4. CASE Quiet
  <2>1. /\ UNCHANGED stored
        /\ \A k \in jobs' : \E l \in jobs : Alike(k, l)
        /\ \A l \in jobs : \E k \in jobs' : Alike(k, l)
    BY <1>4, QuietKeeps DEF elementVars, artifactVars
  <2>2. \A e \in Element : e \in AtWork' <=> e \in AtWork
    BY <2>1, AtWorkIs, AtWorkIsNext DEF Alike, AtBuild, InQueue
  <2> QED  BY <1>1, <1>2, <2>1, <2>2, Same
<1>5. CASE QueryArtifact \/ QueryArtifactDone \/ EnqueuePlan
  <2>1. /\ UNCHANGED stored /\ jobs = {} /\ jobs' = {}
    BY <1>5 DEF QueryArtifact, QueryArtifactDone, EnqueuePlan, LoadArtifact, elementVars,
                artifactVars, PlaceInv, QueryEmpty
  <2>2. \A e \in Element : e \in AtWork' <=> e \in AtWork
    BY <2>1, AtWorkIs, AtWorkIsNext
  <2> QED  BY <1>1, <1>2, <2>1, <2>2, Same
<1>6. CASE RealSchedule
  <2>1. UNCHANGED <<stored, elementVars>>
    BY <1>6 DEF RealSchedule, elementVars, artifactVars
  <2>2. jobs \subseteq jobs' /\ \A k \in jobs' : k \in jobs \/ k.st = "start"
    <3>1. CASE terminated
      BY <1>6, <3>1 DEF RealSchedule
    <3>2. CASE ~terminated
      <4>1. QueueJobs
        BY <1>6, <3>2 DEF RealSchedule
      <4>2. jobs' = jobs \cup UNION {New(q) : q \in QueueId}
        BY <4>1, QueueJobsKeeps
      <4> QED  BY <4>2, NewOfQueue
    <3> QED  BY <3>1, <3>2
  <2>3. \A e \in Element : e \in AtWork' <=> e \in AtWork
    BY <2>2, AtWorkIs, AtWorkIsNext DEF AtBuild, InQueue
  <2> QED  BY <1>1, <1>2, <2>1, <2>3, Same
<1>7. ASSUME NEW j \in jobs, NEW raised \in BOOLEAN, NEW reaction, JobDone(j, raised, reaction)
      PROVE  Ordered
  <2>1. j.elem \in Element /\ jobs' = jobs \ {j} /\ j.st \in Over
    BY <1>7, HasJob DEF JobDone
  <2>2. UNCHANGED stored
    BY <1>7, <2>1, JobDoneTouches
  <2>3. \A e \in Element : e \in AtWork' <=> e \in AtWork
    BY <2>1, AtWorkIs, AtWorkIsNext DEF AtBuild, InQueue, Over
  <2> QED  BY <1>1, <1>2, <2>2, <2>3, Same
<1> QED
  BY <1>3, <1>4, <1>5, <1>6, <1>7 DEF Next, MainStep, Quiet

\* In strict mode, when failed builds are kept and not retried, the session implements
\* the order of builds: whatever its queues and threads do, an element is built only
\* while all that it is built on is stored, one build at a time and never again.
THEOREM BuildsAreInOrder ==
  ASSUME Strict, ~RetryFailed, "retry" \notin OnFailure
  PROVE  Spec => BuildsInOrder
<1>1. Init => Order!Init
  BY DEF Init, Order!Init, Building
<1>2. JobInv /\ PlaceInv /\ Inv /\ ElementTyped /\ StoredInv /\ [Next]_vars
        => [Order!Next]_<<{e \in Element : stored[e] = "success"},
                          {e \in Element : Building(e) # {}}>>
  BY StepOrdered DEF Ordered, Got, AtWork
<1> QED
  BY <1>1, <1>2, SpecJobInv, SpecPlaceInv, SpecInv, SpecTyped, SpecStored, PTL
     DEF Spec, BuildsInOrder, Order!Spec

-----------------------------------------------------------------------------
(* A failed build stays a failure. *)

FailsUnstored(j) ==
  j.st = "fail" \/ (j.st = "term" /\ j.stop # "yes") => stored[j.elem] # "success"

\* What a failed build job leaves, and what is left of it once the job is gone.
FailedInv ==
  /\ \A j \in jobs : InQueue(j, "Build") => FailsUnstored(j)
  /\ \A q \in QueueId, e \in Element :
       Queues[q] = "Build" /\ failedTasks[q][e] # 0 => e \in assembleDone /\ ~CachedSuccess(e)

LEMMA FailedInit == Init => FailedInv
<1> SUFFICES ASSUME Init PROVE FailedInv
  OBVIOUS
<1>1. jobs = {} /\ \A q \in QueueId, e \in Element : failedTasks[q][e] = 0
  BY DEF Init, NoArrivals, Nothing
<1> QED  BY <1>1 DEF FailedInv

\* A build that fails in its thread has stored no success.
Unstored(j) == \E st \in JobState \ {"start"} :
  /\ ThreadAt(j, st)
  /\ st = "fail" \/ (st = "term" /\ j.stop # "yes") => stored'[j.elem] # "success"

LEMMA ThreadFails ==
  ASSUME "collect" \notin Faults, JobInv, PlaceInv, ElementTyped, StoredInv,
         NEW j \in jobs, InQueue(j, "Build"), ThreadStep(j)
  PROVE  Unstored(j)
<1>1. /\ j.elem \in Element /\ BuildAt(j.st, j.elem) /\ Queues[j.queue] = "Build"
  BY HasJob DEF StoredInv, InQueue
<1>2. stored \in [Element -> Result]
  BY DEF ElementTyped, ArtifactsTyped
<1>3. ASSUME NEW st \in JobState \ {"start"}, ThreadAt(j, st),
             st = "fail" \/ (st = "term" /\ j.stop # "yes") => stored'[j.elem] # "success"
      PROVE  Unstored(j)
  BY <1>3 DEF Unstored
<1>4. ASSUME Begin(j) PROVE Unstored(j)
  <2>1. /\ j.st = "start" /\ stored' = stored
        /\ \E st \in JobState \ {"start"} : ThreadAt(j, st)
    BY <1>4 DEF Begin, PullBegins, elementVars, artifactVars, JobState
  <2>2. stored[j.elem] # "success"
    BY <1>1, <2>1 DEF BuildAt, Missing, Failed
  <2> QED  BY <1>3, <2>1, <2>2
<1>5. ASSUME Assemble(j) PROVE Unstored(j)
  <2>1. j.st = "begun" /\ stored' = stored /\ \E st \in {"fail", "built"} : ThreadAt(j, st)
    BY <1>5 DEF Assemble
  <2>2. stored[j.elem] # "success"
    BY <1>1, <2>1 DEF BuildAt, Missing
  <2> QED  BY <1>3, <2>1, <2>2 DEF JobState
<1>6. ASSUME CacheArtifact(j) PROVE Unstored(j)
  <2>1. CASE j.elem \notin cacheKey
    <3>1. j.st = "built" /\ stored' = stored /\ ThreadAt(j, "fail")
      BY <1>6, <2>1 DEF CacheArtifact
    <3>2. stored[j.elem] # "success"
      BY <1>1, <3>1 DEF BuildAt, Missing
    <3> QED  BY <1>3, <3>1, <3>2 DEF JobState
  <2>2. CASE j.elem \in cacheKey
    <3>1. /\ stored' = [stored EXCEPT ![j.elem] = buildResult[j.elem]]
          /\ \E st \in {"ok", "fail", "term"} :
               /\ st = "fail" => buildResult[j.elem] = "failure"
               /\ st = "term" => j.stop = "yes"
               /\ ThreadAt(j, st)
      BY <1>6, <2>2 DEF CacheArtifact
    <3>2. stored'[j.elem] = buildResult[j.elem]
      BY <1>1, <1>2, <3>1
    <3> QED  BY <1>3, <3>1, <3>2 DEF JobState
  <2> QED  BY <2>1, <2>2
<1>7. ASSUME Terminate(j) PROVE Unstored(j)
  BY <1>3, <1>7 DEF Terminate, JobState
<1> QED
  BY <1>1, <1>4, <1>5, <1>6, <1>7 DEF ThreadStep, PullStep, FetchStep, PushStep, InQueue

LEMMA ThreadFailed ==
  ASSUME "collect" \notin Faults, JobInv, PlaceInv, ElementTyped, PastInv, StoredInv, FailedInv,
         NEW j \in jobs, ThreadStep(j)
  PROVE  FailedInv'
<1>1. /\ j \in JobRecord /\ j.elem \in Element /\ \A k \in jobs : k.elem = j.elem => k = j
  BY HasJob DEF JobInv, JobsTyped
<1>2. UNCHANGED <<assembleDone, failedTasks>>
  BY ThreadMoves DEF mainVars, queueVars, cascadeVars
<1>3. ASSUME NEW k \in jobs, k # j, InQueue(k, "Build") PROVE FailsUnstored(k)'
  <2>1. k.elem \in Element /\ k.elem # j.elem
    BY <1>1, <1>3 DEF JobInv, JobsTyped, JobRecord
  <2>2. stored'[k.elem] = stored[k.elem]
    BY <2>1, ThreadTouches DEF Untouched
  <2> QED  BY <1>3, <2>2 DEF FailedInv, FailsUnstored
<1>4. ASSUME NEW st \in JobState, ThreadAt(j, st)
      PROVE  /\ jobs' = (jobs \ {j}) \cup {[j EXCEPT !.st = st]}
             /\ [j EXCEPT !.st = st].queue = j.queue /\ [j EXCEPT !.st = st].elem = j.elem
             /\ [j EXCEPT !.st = st].st = st /\ [j EXCEPT !.st = st].stop = j.stop
  BY <1>1, <1>4 DEF ThreadAt, JobRecord
<1>5. \A k \in jobs' : InQueue(k, "Build") => FailsUnstored(k)'
  <2>1. CASE InQueue(j, "Build")
    <3>1. PICK st \in JobState \ {"start"} :
            /\ ThreadAt(j, st)
            /\ st = "fail" \/ (st = "term" /\ j.stop # "yes") => stored'[j.elem] # "success"
      BY <2>1, ThreadFails DEF Unstored
    <3>2. ASSUME NEW k \in jobs', InQueue(k, "Build"), k \notin jobs PROVE FailsUnstored(k)'
      BY <1>4, <3>1, <3>2 DEF FailsUnstored
    <3>3. j \in jobs' => j.st = st
      BY <1>4, <3>1
    <3>4. FailsUnstored(j)' \/ j \notin jobs'
      BY <3>1, <3>3 DEF FailsUnstored
    <3> QED  BY <1>3, <3>2, <3>4
  <2>2. CASE ~InQueue(j, "Build")
    <3>1. PICK st \in JobState : ThreadAt(j, st)
      BY ThreadMoves DEF ThreadAt
    <3>2. \A k \in jobs' : InQueue(k, "Build") => k \in jobs /\ k # j
      BY <1>4, <2>2, <3>1 DEF InQueue
    <3> QED  BY <1>3, <3>2
  <2> QED  BY <2>1, <2>2
<1>6. ASSUME NEW e \in assembleDone, ~CachedSuccess(e) PROVE ~CachedSuccess(e)'
  <2>1. e \in Element /\ \A k \in jobs : k.elem = e => InQueue(k, "Push")
    BY DEF PastInv, PastBuild
  <2>2. CASE e # j.elem
    BY <1>6, <2>1, <2>2, ThreadTouches, UntouchedSuccess
  <2>3. CASE e = j.elem
    <3>1. InQueue(j, "Push")
      BY <2>1, <2>3
    <3>2. UNCHANGED elementVars
      <4>1. ~InQueue(j, "Pull") /\ ~InQueue(j, "Build") /\ ~InQueue(j, "Fetch")
        BY <3>1 DEF InQueue
      <4> QED
        BY <4>1 DEF ThreadStep, Begin, PullStep, FetchStep, Assemble, CacheArtifact, PushStep,
                    Terminate, elementVars
    <3> QED  BY <1>6, <3>2 DEF elementVars, artifactVars, cascadeVars, CachedSuccess, Successful
  <2> QED  BY <2>2, <2>3
<1> QED  BY <1>2, <1>5, <1>6 DEF FailedInv, InQueue

LEMMA JobDoneFailed ==
  ASSUME JobInv, PlaceInv, ElementTyped, PastInv, StoredInv, FailedInv,
         NEW j \in jobs, NEW raised \in BOOLEAN, NEW reaction, reaction # "retry",
         JobDone(j, raised, reaction)
  PROVE  FailedInv'
<1>1. j.elem \in Element /\ j.queue \in QueueId
  BY HasJob
<1>2. jobs' = jobs \ {j} /\ j.st \in Over /\ stored' = stored
  BY <1>1, JobDoneTouches DEF JobDone
<1>3. /\ failedTasks \in [QueueId -> [Element -> Nat]]
      /\ \A q \in QueueId, e \in Element :
           failedTasks'[q][e] # failedTasks[q][e] =>
             /\ q = j.queue /\ e = j.elem
             /\ raised \/ (j.st \in {"fail", "term"} /\ j.stop # "yes")
  <2> DEFINE more == IF raised \/ (j.st \in {"fail", "term"} /\ j.stop # "yes") THEN 1 ELSE 0
  <2>1. failedTasks \in [QueueId -> [Element -> Nat]]
    BY DEF JobInv, SessionTyped, Counts, Heap
  <2>2. failedTasks' = [failedTasks EXCEPT ![j.queue][j.elem] = failedTasks[j.queue][j.elem] + more]
    BY DEF JobDone
  <2>3. ~(raised \/ (j.st \in {"fail", "term"} /\ j.stop # "yes")) => more = 0
    OBVIOUS
  <2> HIDE DEF more
  <2> QED  BY <1>1, <2>1, <2>2, <2>3
<1>4. raised => ~InQueue(j, "Build")
  BY DEF JobDone, InQueue
<1>5. assembleDone \subseteq assembleDone'
  BY DEF JobDone, Finish, LoadArtifactDone, FetchDone, AssembleDone, elementVars, cascadeVars
<1>6. ASSUME NEW e \in assembleDone, ~CachedSuccess(e) PROVE ~CachedSuccess(e)'
  <2>1. e \in Element /\ (e = j.elem => ~InQueue(j, "Build"))
    BY DEF PastInv, PastBuild, InQueue
  <2> QED  BY <1>1, <1>6, <2>1, JobDoneTouches
<1>7. ASSUME InQueue(j, "Build"), stored[j.elem] # "success"
      PROVE  j.elem \in assembleDone' /\ ~CachedSuccess(j.elem)'
  <2>1. AssembleDone(j.elem, j.st = "ok")
    BY <1>7 DEF JobDone, Finish, InQueue
  <2>2. (Missing(j.elem) \/ Failed(j.elem))'
    BY <1>1, <1>2, <1>7, <2>1, BuildEnds DEF StoredInv
  <2> QED  BY <2>1, <2>2 DEF AssembleDone, Missing, Failed, CachedSuccess, Successful
<1>8. ASSUME NEW q \in QueueId, NEW e \in Element, Queues[q] = "Build", failedTasks'[q][e] # 0
      PROVE  e \in assembleDone' /\ ~CachedSuccess(e)'
  <2>1. CASE failedTasks[q][e] # 0
    BY <1>5, <1>6, <1>8, <2>1 DEF FailedInv
  <2>2. CASE failedTasks[q][e] = 0
    <3>1. /\ q = j.queue /\ e = j.elem
          /\ raised \/ (j.st \in {"fail", "term"} /\ j.stop # "yes")
      BY <1>3, <1>8, <2>2
    <3>2. InQueue(j, "Build")
      BY <1>8, <3>1 DEF InQueue
    <3>3. stored[j.elem] # "success"
      BY <1>4, <3>1, <3>2 DEF FailedInv, FailsUnstored
    <3> QED  BY <1>7, <3>1, <3>2, <3>3
  <2> QED  BY <2>1, <2>2
<1>9. \A k \in jobs' : InQueue(k, "Build") => FailsUnstored(k)'
  BY <1>2 DEF FailedInv, FailsUnstored
<1> QED  BY <1>8, <1>9 DEF FailedInv, InQueue

LEMMA FailedNext ==
  ASSUME "retry" \notin OnFailure, "collect" \notin Faults, JobInv, PlaceInv, ElementTyped,
         PastInv, StoredInv, FailedInv, [Next]_vars
  PROVE  FailedInv'
<1>1. CASE \E j \in jobs : ThreadStep(j)
  BY <1>1, ThreadFailed
<1>2. CASE TerminateJobs
  <2> DEFINE told(j) == [j EXCEPT !.stop = IF @ # "no" \/ j.st \in Over THEN @
                                           ELSE IF j.st = "start" THEN "unnoticed" ELSE "yes"]
  <2>1. jobs' = {told(j) : j \in jobs} /\ UNCHANGED <<elementVars, failedTasks>>
    BY <1>2 DEF TerminateJobs, loopVars, queueVars
  <2>2. ASSUME NEW j \in jobs
        PROVE  /\ Alike(told(j), j)
               /\ j.st \in {"fail", "term"} => told(j).stop = j.stop
    BY DEF Alike, JobInv, JobsTyped, JobRecord, Over
  <2> HIDE DEF told
  <2>3. stored' = stored /\ assembleDone' = assembleDone /\ \A e : CachedSuccess(e)' <=> CachedSuccess(e)
    BY <2>1 DEF elementVars, artifactVars, cascadeVars, CachedSuccess, Successful
  <2>4. \A k \in jobs' : InQueue(k, "Build") => FailsUnstored(k)'
    BY <2>1, <2>2, <2>3 DEF FailedInv, FailsUnstored, Alike, InQueue
  <2> QED  BY <2>1, <2>3, <2>4 DEF FailedInv, InQueue
<1>3. CASE Environment \/ Stopped \/ UNCHANGED vars \/ EnqueuePlan
  <2>1. UNCHANGED <<elementVars, failedTasks, jobs>>
    BY <1>3 DEF Environment, Quit, TerminateStream, TerminateScheduler, Stopped, vars, loopVars,
                queueVars, EnqueuePlan
  <2> QED
    BY <2>1 DEF FailedInv, FailsUnstored, InQueue, CachedSuccess, Successful, elementVars,
                artifactVars, cascadeVars
<1>4. CASE QueryArtifact \/ QueryArtifactDone
  <2>1. /\ assembleDone = {} /\ UNCHANGED <<stored, failedTasks, jobs>>
    BY <1>4 DEF QueryArtifact, QueryArtifactDone, LoadArtifact, PastInv, queueVars, artifactVars
  <2>2. \A q \in QueueId, e \in Element : Queues[q] = "Build" => failedTasks'[q][e] = 0
    BY <2>1 DEF FailedInv
  <2> QED  BY <2>1, <2>2 DEF FailedInv, FailsUnstored, InQueue
<1>5. CASE RealSchedule
  <2>1. UNCHANGED <<elementVars, failedTasks>>
    BY <1>5 DEF RealSchedule
  <2>2. \A k \in jobs' : k \in jobs \/ k.st = "start"
    <3>1. CASE terminated
      BY <1>5, <3>1 DEF RealSchedule
    <3>2. CASE ~terminated
      <4>1. QueueJobs
        BY <1>5, <3>2 DEF RealSchedule
      <4>2. ASSUME NEW k \in jobs' PROVE k \in jobs \/ k.st = "start"
        <5>1. k.elem \in Element
          BY <4>1, QueueJobsKeeps DEF JobsTyped, JobRecord
        <5>2. Single(k.elem)
          BY <5>1 DEF PlaceInv
        <5> QED  BY <2>1, <4>1, <5>1, <5>2, QueueJobsFlow
      <4> QED  BY <4>2
    <3> QED  BY <3>1, <3>2
  <2> QED
    BY <2>1, <2>2 DEF FailedInv, FailsUnstored, InQueue, CachedSuccess, Successful, elementVars,
                      artifactVars, cascadeVars
<1>6. \A reaction \in OnFailure \cup {"none"} : reaction # "retry"
  OBVIOUS
<1>7. \A j \in jobs, raised \in BOOLEAN, reaction \in OnFailure \cup {"none"} :
        JobDone(j, raised, reaction) => FailedInv'
  BY <1>6, JobDoneFailed
<1> QED
  BY <1>1, <1>2, <1>3, <1>4, <1>5, <1>7 DEF Next, MainStep

LEMMA SpecFailed ==
  ASSUME Strict, ~RetryFailed, "retry" \notin OnFailure, "collect" \notin Faults
  PROVE  Spec => []FailedInv
<1>1. JobInv /\ PlaceInv /\ ElementTyped /\ PastInv /\ StoredInv /\ FailedInv /\ [Next]_vars
        => FailedInv'
  BY FailedNext
<1> QED
  BY <1>1, FailedInit, SpecJobInv, SpecPlaceInv, SpecTyped, SpecPast, SpecStored, PTL DEF Spec

\* In strict mode, when failed builds are kept and not retried and no directory to collect
\* is missing, an element whose build is among the failed tasks is never announced as ready,
\* so nothing is built with it.
THEOREM FailuresAreContained ==
  ASSUME Strict, ~RetryFailed, "retry" \notin OnFailure, "collect" \notin Faults
  PROVE  Spec => []FailureContained
<1>1. ASSUME JobInv, Inv, FailedInv PROVE FailureContained
  <2>1. ASSUME NEW q \in QueueId, NEW e \in Element, Queues[q] = "Build", failedTasks[q][e] > 0
        PROVE  e \notin ready
    <3>1. ~CachedSuccess(e)
      BY <1>1, <2>1 DEF FailedInv
    <3> QED  BY <1>1, <3>1 DEF CachedSuccess, Successful, Inv, Readiness, ReadySound
  <2> QED  BY <2>1 DEF FailureContained
<1> QED  BY <1>1, SpecJobInv, SpecInv, SpecFailed, PTL
=============================================================================

------------------------------ MODULE Pipeline ------------------------------
(***************************************************************************)
(* A build session: Stream.build() looks every element of the plan up in   *)
(* the caches, then runs the Scheduler, which moves the elements through   *)
(* its queues and runs jobs for them in threads, within the resources it   *)
(* has, until no job is left.                                              *)
(*                                                                         *)
(* Two kinds of actor: the main thread (the asyncio loop, one callback an  *)
(* action) and the job threads.  They share the elements of ElementState;  *)
(* a job's thread and the main thread may both be at work on one element.  *)
(* What a job does inside its thread, its automatic retries and how it is  *)
(* terminated is the subject of the module Job.                            *)
(***************************************************************************)
EXTENDS ElementState, Sequences, FiniteSetsExt

CONSTANTS
  Plan,            \* the elements in the order of _Planner.plan()
  Queues,          \* the queues of the session, as Stream.build() adds them
  MaxResources,    \* the limit of every resource, 0 for none
  LocalArtifacts,  \* what the local artifact cache may hold of an element
  LocalSources,    \* what the local source cache may hold of an element
  RemoteArtifacts, \* what a pull may find
  Faults,          \* what may go wrong
  OnFailure,       \* how the user or the configuration may react to a failure
  Interrupts,      \* what may interrupt the session
  MaxUserRetries   \* bound of the model: how often the user retries a job

QueueId == DOMAIN Queues
Resource == {"CACHE", "DOWNLOAD", "PROCESS", "UPLOAD"}

ASSUME PlanAssumption == Plan \in Seq(Element) /\ IsInjective(Plan) /\ Range(Plan) = Element

QueueOrder == [Pull |-> 1, Fetch |-> 2, Build |-> 3, Push |-> 4]

ASSUME QueuesAssumption ==
  /\ Queues \in Seq(DOMAIN QueueOrder)
  /\ \A p, q \in QueueId : p < q => QueueOrder[Queues[p]] < QueueOrder[Queues[q]]
  /\ {"Fetch", "Build"} \subseteq Range(Queues)
  /\ HasFetchRemotes <=> "Pull" \in Range(Queues)

ASSUME ParameterAssumption ==
  /\ MaxResources \in [Resource -> Nat]
  /\ LocalArtifacts \subseteq Result /\ RemoteArtifacts \subseteq Result
  /\ LocalSources \subseteq {"none", "original", "staged"}
  /\ Faults \subseteq {"pull", "fetch", "build", "collect", "push", "post"}
  /\ OnFailure \subseteq {"continue", "quit", "terminate", "retry"} /\ OnFailure # {}
  /\ Interrupts \subseteq {"quit", "terminate", "casd"}
  /\ MaxUserRetries \in Nat

VARIABLES
  phase,             \* "query", "queried", "run" or "stopped"
  position,          \* the next element of the plan to look up
  readyQueue,        \* Queue._ready_queue: how often each element is in each
  doneQueue,         \* Queue._done_queue, likewise
  failedTasks,       \* TaskGroup.failed_tasks, likewise
  requiredCallback,  \* the elements with a __required_callback
  canQueryCallback,  \* ... a __can_query_cache_callback
  buildableCallback, \* ... a __buildable_callback
  used,              \* Resources._used_resources
  jobs,              \* Scheduler._active_jobs
  schedHandle,       \* a call of real_schedule is pending in the loop
  queueJobs,         \* Scheduler._queue_jobs
  terminated,        \* Scheduler.terminated
  streamTerminated,  \* Stream.terminated
  terminatePending,  \* a call of _terminate_jobs_real is pending in the loop
  userRetries        \* retries the user has asked for

callbackVars == <<requiredCallback, canQueryCallback, buildableCallback>>
queueVars == <<readyQueue, doneQueue, failedTasks, callbackVars>>
flagVars == <<queueJobs, terminated, streamTerminated, terminatePending>>
vars == <<elementVars, phase, position, queueVars, used, jobs, schedHandle, flagVars,
          userRetries>>

\* A job: its queue and element, a number that tells it from other jobs for the
\* same, how far its thread is, and whether terminate() was called: "unnoticed"
\* when it was called too early for get_terminated() to say so.
JobState == {"start", "begun", "original", "built", "ok", "skip", "fail", "term"}
JobRecord == [queue : QueueId, elem : Element, copy : Nat, st : JobState,
              stop : {"no", "unnoticed", "yes"}]
\* A job whose thread has returned.  (Mutant: a terminated one is not noticed.)
OverUnlessTerminated == {"ok", "skip", "fail"}
Over == {"ok", "skip", "fail", "term"}

Nothing == [e \in Element |-> 0]

\* Every element of S one time.  (Mutant: those not in S too.)
OnceEach(S) == [e \in Element |-> 1]
Once(S) == [e \in Element |-> IF e \in S THEN 1 ELSE 0]

TypeOK ==
  /\ ElementTypeOK
  /\ phase \in {"query", "queried", "run", "stopped"}
  /\ position \in Nat
  /\ readyQueue \in [QueueId -> [Element -> Nat]]
  /\ doneQueue \in [QueueId -> [Element -> Nat]]
  /\ failedTasks \in [QueueId -> [Element -> Nat]]
  /\ requiredCallback \subseteq Element
  /\ canQueryCallback \subseteq Element
  /\ buildableCallback \subseteq Element
  /\ used \in [Resource -> Nat]
  /\ jobs \subseteq JobRecord
  /\ schedHandle \in BOOLEAN
  /\ queueJobs \in BOOLEAN
  /\ terminated \in BOOLEAN
  /\ streamTerminated \in BOOLEAN
  /\ terminatePending \in BOOLEAN
  /\ userRetries \in 0..MaxUserRetries

-----------------------------------------------------------------------------
(* Queues and resources. *)

Depth(e) == CHOOSE i \in DOMAIN Plan : Plan[i] = e

\* The resources a job of queue q holds (Queue.resources).
Needs(q) == CASE Queues[q] = "Pull"  -> {"DOWNLOAD", "CACHE"}
              [] Queues[q] = "Fetch" -> {"DOWNLOAD"}
              [] Queues[q] = "Build" -> {"PROCESS", "CACHE"}
              [] Queues[q] = "Push"  -> {"UPLOAD"}

\* The answers of the status() methods: pull what is pending; fetch what is not
\* cached; build what is not cached, once it can be; push what is cached.
\* (Mutant: cached originals need no staging.)
NothingToFetchOrStage(e) == artifact[e] # "none" /\ (CachedSuccess(e) \/ ~FetchNeeded(e))
NothingToFetch(e) == artifact[e] # "none" /\ (CachedSuccess(e) \/ e \in sourcesCached)

NothingToBuild(e) == CachedSuccess(e)

Pending(q, e) == \/ Queues[q] = "Fetch" /\ artifact[e] = "none"
                 \/ Queues[q] = "Build" /\ ~NothingToBuild(e) /\ ~Buildable(e)

Skipped(q, e) == \/ Queues[q] = "Pull" /\ e \notin pullPending
                 \/ Queues[q] = "Fetch" /\ NothingToFetch(e)
                 \/ Queues[q] = "Build" /\ NothingToBuild(e)
                 \/ Queues[q] = "Push" /\ artifact[e] # "cached"

Ready(q, e) == ~Pending(q, e) /\ ~Skipped(q, e)

\* Elements that wait in a queue once those of arrivals have been registered.
\* (Mutant: ready ones are registered too.)
RegisteredAnyway(name, arrivals) ==
  {e \in Element : \E q \in QueueId : Queues[q] = name /\ arrivals[q][e] > 0}
Registered(name, arrivals) ==
  {e \in Element : \E q \in QueueId : Queues[q] = name /\ arrivals[q][e] > 0 /\ Pending(q, e)'}

\* Queue._enqueue_element() on all of arrivals (per queue and element a count)
\* after the callbacks of fired were used up.  An element is judged by the
\* state the handler that called back leaves it in.
Enqueue(arrivals, done, fired) ==
  /\ readyQueue' = [q \in QueueId |-> [e \in Element |->
       readyQueue[q][e] + (IF Ready(q, e)' THEN arrivals[q][e] ELSE 0)]]
  /\ doneQueue' = [q \in QueueId |-> [e \in Element |->
       done[q][e] + (IF Skipped(q, e)' THEN arrivals[q][e] ELSE 0)]]
  /\ canQueryCallback' = (canQueryCallback \ fired.canQuery) \cup Registered("Fetch", arrivals)
  /\ buildableCallback' = (buildableCallback \ fired.buildable) \cup Registered("Build", arrivals)

NoArrivals == [q \in QueueId |-> Nothing]
NoneFired == [canQuery |-> {}, buildable |-> {}]

-----------------------------------------------------------------------------
(* Before the scheduler runs. *)

Init ==
  /\ ElementInit(LocalArtifacts, LocalSources)
  /\ phase = "query" /\ position = 1
  /\ readyQueue = NoArrivals /\ doneQueue = NoArrivals /\ failedTasks = NoArrivals
  /\ requiredCallback = {} /\ canQueryCallback = {} /\ buildableCallback = {}
  /\ used = [r \in Resource |-> 0]
  /\ jobs = {}
  /\ schedHandle = FALSE
  /\ queueJobs = TRUE
  /\ terminated = FALSE /\ streamTerminated = FALSE /\ terminatePending = FALSE
  /\ userRetries = 0

\* Stream.query_cache(), the body of its loop: load the artifact of the next
\* element of the plan ...
QueryArtifact ==
  /\ phase = "query" /\ position <= Len(Plan)
  /\ LoadArtifact(Plan[position])
  /\ phase' = "queried"
  /\ UNCHANGED <<sourceVars, cascadeVars, position, queueVars, used, jobs, schedHandle,
                 flagVars, userRetries>>

\* ... and unless it is still to be pulled, tell the element it is loaded.
QueryArtifactDone ==
  /\ phase = "queried"
  /\ IF Plan[position] \in pullPending
     THEN UNCHANGED cascadeVars
     ELSE LoadArtifactDone(Plan[position])
  /\ phase' = "query"
  /\ position' = position + 1
  /\ UNCHANGED <<artifactVars, sourceVars, queueVars, used, jobs, schedHandle, flagVars,
                 userRetries>>

\* _enqueue_plan(), then Scheduler.run(): the first queue takes what is required
\* and leaves a callback in the rest.
EnqueuePlan ==
  /\ phase = "query" /\ position > Len(Plan)
  /\ phase' = "run"
  /\ schedHandle' = TRUE
  /\ UNCHANGED <<elementVars, position, failedTasks, used, jobs, flagVars, userRetries>>
  /\ requiredCallback' = Element \ required
  /\ Enqueue([NoArrivals EXCEPT ![1] = Once(required)], doneQueue, NoneFired)

-----------------------------------------------------------------------------
(* One run of real_schedule. *)

\* What leaves queue q for the next one: what is done there, and what the
\* queue skips of the elements it is just given.
Leaving[q \in 0..Len(Queues)] ==
  IF q = 0 THEN Nothing
  ELSE LET given == Leaving[q - 1]
       IN [e \in Element |-> doneQueue[q][e] + (IF Skipped(q, e) THEN given[e] ELSE 0)]

\* Mutant of Harvested: quitting does not stop the queueing.
HarvestedAnyway == QueueId

\* The queues that may start jobs: once the user quits, those after the build.
Harvested == {q \in QueueId : queueJobs \/ \E b \in QueueId : Queues[b] = "Build" /\ b < q}

\* A heap as the set of its copies of elements, and its order: by depth, and then the first
\* that came.
Copies(heap) == UNION {{e} \X (1..heap[e]) : e \in Element}
Before(c, d) == Depth(c[1]) < Depth(d[1]) \/ (c[1] = d[1] /\ c[2] < d[2])

\* Mutant of Taken: one more than the limit is reserved.
TakenBeyond(q, heap, left) ==
  IF q \notin Harvested THEN 0
  ELSE Max({n \in 0..Cardinality(Copies(heap)) :
              \A r \in Needs(q) : MaxResources[r] = 0 \/ left[r] + n <= MaxResources[r] + 1})

\* harvest_jobs() of every queue, from the last to the first: a queue starts as
\* many of its ready elements as the resources left by the later queues allow.
Taken(q, heap, left) ==
  IF q \notin Harvested THEN 0
  ELSE Max({n \in 0..Cardinality(Copies(heap)) :
              \A r \in Needs(q) : MaxResources[r] = 0 \/ left[r] + n <= MaxResources[r]})

UsedAfter(queued) ==
  LET after[q \in 1..(Len(Queues) + 1)] ==
        IF q > Len(Queues) THEN used
        ELSE LET left == after[q + 1]
                 taken == Taken(q, queued[q], left)
             IN [r \in Resource |-> left[r] + (IF r \in Needs(q) THEN taken ELSE 0)]
  IN after

\* The first n copies of a queue's heap.
Popped(heap, n) ==
  {c \in Copies(heap) : Cardinality({d \in Copies(heap) : Before(d, c)}) < n}

\* New jobs for the copies popped from queue q, told from the active ones by their number.
JobsOf(q, popped) ==
  LET latest(e) == Max({0} \cup {j.copy : j \in {k \in jobs : k.queue = q /\ k.elem = e}})
  IN {[queue |-> q, elem |-> c[1], copy |-> latest(c[1]) + c[2], st |-> "start", stop |-> "no"] :
        c \in popped}

\* _sched_queue_jobs(): every element moves as far as it goes without a job, then
\* jobs are started.
QueueJobs ==
  LET arrived == [q \in QueueId |-> Leaving[q - 1]]
      queued == [q \in QueueId |-> [e \in Element |->
                   readyQueue[q][e] + (IF Ready(q, e) THEN arrived[q][e] ELSE 0)]]
      after == UsedAfter(queued)
      popped == [q \in QueueId |-> Popped(queued[q], Taken(q, queued[q], after[q + 1]))]
  IN /\ readyQueue' = [q \in QueueId |-> [e \in Element |->
                          queued[q][e] - Cardinality({c \in popped[q] : c[1] = e})]]
     /\ doneQueue' = NoArrivals
     /\ canQueryCallback' = canQueryCallback \cup Registered("Fetch", arrived)
     /\ buildableCallback' = buildableCallback \cup Registered("Build", arrived)
     /\ used' = after[1]
     /\ jobs' = jobs \cup UNION {JobsOf(q, popped[q]) : q \in QueueId}

\* real_schedule(): queue jobs unless terminated, stop the loop if none is left.
RealSchedule ==
  /\ phase = "run" /\ schedHandle
  /\ UNCHANGED elementVars
  /\ IF terminated THEN UNCHANGED <<readyQueue, doneQueue, canQueryCallback,
                                    buildableCallback, used, jobs>>
     ELSE QueueJobs
  /\ schedHandle' = FALSE
  /\ phase' = IF jobs' = {} THEN "stopped" ELSE "run"
  /\ UNCHANGED <<position, failedTasks, requiredCallback, flagVars, userRetries>>

-----------------------------------------------------------------------------
(* Job threads. *)

mainVars == <<phase, position, queueVars, used, schedHandle, flagVars, userRetries>>

InQueue(j, name) == Queues[j.queue] = name

ThreadAt(j, st) == jobs' = (jobs \ {j}) \cup {[j EXCEPT !.st = st]}

\* child_action() up to the start of the job's action, which fails at once where
\* the action does: a failed build that is cached is not repeated, a build of
\* what is built already breaks an assertion, what is not cached is not pushed.
Begin(j) ==
  /\ j.st = "start"
  /\ IF j.stop = "unnoticed" THEN ThreadAt(j, "term") /\ UNCHANGED elementVars
     ELSE IF \/ InQueue(j, "Build") /\ CachedFailure(j.elem) /\ j.elem \notin assembleDone
             \/ InQueue(j, "Build") /\ CachedSuccess(j.elem)
             \/ InQueue(j, "Push") /\ artifact[j.elem] # "cached"
     THEN ThreadAt(j, "fail") /\ UNCHANGED elementVars
     ELSE /\ ThreadAt(j, "begun")
          /\ IF InQueue(j, "Pull") THEN PullBegins(j.elem) ELSE UNCHANGED artifactVars
          /\ UNCHANGED <<sourceVars, cascadeVars>>

\* _pull_or_skip(): a job that pulls nothing is skipped.  In non-strict mode the
\* local cache may after all hold an artifact under the weak key.
PullStep(j) ==
  /\ InQueue(j, "Pull") /\ j.st = "begun"
  /\ UNCHANGED <<sourceVars, cascadeVars>>
  /\ \/ \E found \in RemoteArtifacts, discarded, local \in BOOLEAN :
          /\ discarded => found = "failure" /\ (RetryFailed \/ ~Strict)
          /\ found = "failure" /\ RetryFailed => discarded
          /\ local => found = "success" /\ ~Strict
          /\ PullEnds(j.elem, found, discarded)
          /\ ThreadAt(j, IF found = "none" \/ discarded \/ local THEN "skip" ELSE "ok")
     \/ /\ "pull" \in Faults
        /\ ThreadAt(j, "fail") /\ UNCHANGED artifactVars

\* Element._fetch(): the original sources unless a source cache has them, then
\* the sources are staged into the cache.  Either may fail.
FetchStep(j) ==
  /\ InQueue(j, "Fetch")
  /\ UNCHANGED <<artifactVars, cascadeVars>>
  /\ \/ /\ j.st = "begun" /\ j.elem \notin sourcesCached
        /\ originalCached' = originalCached \cup {j.elem}
        /\ ThreadAt(j, "original") /\ UNCHANGED sourcesCached
     \/ /\ j.st \in {"begun", "original"}
        /\ sourcesCached' = sourcesCached \cup {j.elem}
        /\ ThreadAt(j, "ok") /\ UNCHANGED originalCached
     \/ /\ j.st \in {"begun", "original"} /\ "fetch" \in Faults
        /\ ThreadAt(j, "fail") /\ UNCHANGED sourceVars

\* Element._assemble(): staging needs the cached sources; the result is set as
\* soon as the commands have run ...
Assemble(j) ==
  /\ InQueue(j, "Build") /\ j.st = "begun"
  /\ UNCHANGED <<stored, artifact, pullPending, sourceVars, cascadeVars>>
  /\ IF j.elem \notin sourcesCached THEN ThreadAt(j, "fail") /\ UNCHANGED buildResult
     ELSE \E result \in {"success"} \cup (IF "build" \in Faults THEN {"failure"} ELSE {}) :
            /\ buildResult' = [buildResult EXCEPT ![j.elem] = result]
            /\ ThreadAt(j, "built")

\* ... and _cache_artifact() stores the artifact, under a key it asserts to be
\* known; a missing directory to collect is only reported after that.
CacheArtifact(j) ==
  /\ InQueue(j, "Build") /\ j.st = "built"
  /\ UNCHANGED <<artifact, buildResult, pullPending, sourceVars, cascadeVars>>
  /\ IF j.elem \notin cacheKey THEN ThreadAt(j, "fail") /\ UNCHANGED stored
     ELSE /\ stored' = [stored EXCEPT ![j.elem] = buildResult[j.elem]]
          /\ \E st \in {"ok", "fail", "term"} :
               /\ st = "ok" => buildResult[j.elem] = "success"
               /\ st = "fail" => buildResult[j.elem] = "failure" \/ "collect" \in Faults
               /\ st = "term" => j.stop = "yes"
               /\ ThreadAt(j, st)

\* ArtifactPushQueue._push_or_skip().
PushStep(j) ==
  /\ InQueue(j, "Push") /\ j.st = "begun"
  /\ \E st \in {"ok", "skip"} \cup (IF "push" \in Faults THEN {"fail"} ELSE {}) : ThreadAt(j, st)
  /\ UNCHANGED elementVars

\* The exception that terminate() raises in the thread of a job at work.
Terminate(j) ==
  /\ j.stop = "yes" /\ j.st \notin Over \cup {"start"}
  /\ ThreadAt(j, "term")
  /\ UNCHANGED elementVars

ThreadStep(j) ==
  /\ phase = "run"
  /\ \/ Begin(j) \/ PullStep(j) \/ FetchStep(j) \/ Assemble(j) \/ CacheArtifact(j)
     \/ PushStep(j) \/ Terminate(j)
  /\ UNCHANGED mainVars

-----------------------------------------------------------------------------
(* The end of a job, in the main thread. *)

\* Queue.done(), which for a build also looks at what a failed job left.  It may
\* raise where a fetch finds its sources gone from the cache again.
Finish(j, raised) ==
  CASE InQueue(j, "Pull") /\ j.st \in {"ok", "skip"} ->
         LoadArtifactDone(j.elem) /\ UNCHANGED <<artifactVars, sourceVars>>
    [] InQueue(j, "Fetch") /\ j.st = "ok" /\ ~raised ->
         FetchDone(j.elem) /\ UNCHANGED <<artifactVars, cascadeVars>>
    [] InQueue(j, "Build") ->
         AssembleDone(j.elem, j.st = "ok") /\ UNCHANGED sourceVars
    [] OTHER -> UNCHANGED elementVars

\* The callbacks that the handlers of Finish call.
Fired(j) ==
  [required  |-> requiredCallback \cap (required' \ required),
   canQuery  |-> IF InQueue(j, "Pull") /\ j.st \in {"ok", "skip"}
                 THEN canQueryCallback \cap {j.elem} ELSE {},
   buildable |-> buildableCallback \cap Woken(ready' \ ready)]

\* What the callbacks and a retry put into each queue.
Arrivals(fired, again) ==
  LET Reasons(q, e) == {why \in {"required", "canQuery", "buildable", "again"} :
        CASE why = "required"  -> q = 1 /\ e \in fired.required
          [] why = "canQuery"  -> Queues[q] = "Fetch" /\ e \in fired.canQuery
          [] why = "buildable" -> Queues[q] = "Build" /\ e \in fired.buildable
          [] why = "again"     -> <<q, e>> \in again}
  IN [q \in QueueId |-> [e \in Element |-> Cardinality(Reasons(q, e))]]

\* Queue._job_done(), Scheduler.job_completed() and the frontend's handling of a
\* failure, which happens inside the latter.  A job that get_terminated() knows of
\* counts as skipped.  A retry takes the element off the failed tasks and gives it
\* to the queue again; if it is not among them the call breaks off right there.
JobDone(j, raised, reaction) ==
  LET q == j.queue
      e == j.elem
      failed == raised \/ (j.st \in {"fail", "term"} /\ j.stop # "yes")
      tasks == failedTasks[q][e] + (IF failed THEN 1 ELSE 0)
      again == reaction = "retry" /\ tasks > 0
      done == IF raised THEN doneQueue ELSE [doneQueue EXCEPT ![q][e] = @ + 1]
  IN /\ phase = "run" /\ j.st \in Over
     /\ raised => "post" \in Faults /\ InQueue(j, "Fetch") /\ j.st = "ok"
     /\ reaction # "none" <=> j.st = "fail" /\ ~streamTerminated
     /\ reaction = "retry" => userRetries < MaxUserRetries
     /\ Finish(j, raised)
     /\ used' = [r \in Resource |-> IF r \in Needs(q) THEN used[r] - 1 ELSE used[r]]
     /\ jobs' = jobs \ {j}
     /\ failedTasks' = [failedTasks EXCEPT ![q][e] = IF again THEN tasks - 1 ELSE tasks]
     /\ requiredCallback' = requiredCallback \ Fired(j).required
     /\ Enqueue(Arrivals(Fired(j), IF again THEN {<<q, e>>} ELSE {}), done, Fired(j))
     /\ schedHandle' = (schedHandle \/ reaction # "retry" \/ again)
     /\ userRetries' = IF reaction = "retry" THEN userRetries + 1 ELSE userRetries
     /\ queueJobs' = (queueJobs /\ reaction # "quit")
     /\ terminated' = (terminated \/ reaction = "terminate")
     /\ streamTerminated' = (streamTerminated \/ reaction = "terminate")
     /\ terminatePending' = (terminatePending \/ reaction = "terminate")
     /\ UNCHANGED <<phase, position>>

-----------------------------------------------------------------------------
(* Interruption. *)

loopVars == <<elementVars, phase, position, queueVars, used, schedHandle, userRetries>>

\* _terminate_jobs_real(): a job whose thread is not at work yet is told to stop
\* before it is, but does not count as terminated.
TerminateJobs ==
  /\ phase = "run" /\ terminatePending
  /\ terminatePending' = FALSE
  /\ jobs' = {[j EXCEPT !.stop = IF @ # "no" \/ j.st \in Over THEN @
                                 ELSE IF j.st = "start" THEN "unnoticed" ELSE "yes"] : j \in jobs}
  /\ UNCHANGED <<loopVars, queueJobs, terminated, streamTerminated>>

\* ^C, answered by the user with quit: the scheduler stops queueing builds.
Quit ==
  /\ phase = "run" /\ "quit" \in Interrupts /\ ~terminated /\ queueJobs
  /\ queueJobs' = FALSE
  /\ UNCHANGED <<loopVars, jobs, terminated, streamTerminated, terminatePending>>

\* ^C, answered with terminate, or not interactive.
TerminateStream ==
  /\ phase = "run" /\ "terminate" \in Interrupts /\ ~terminated
  /\ terminated' = TRUE /\ streamTerminated' = TRUE /\ terminatePending' = TRUE
  /\ UNCHANGED <<loopVars, jobs, queueJobs>>

\* The death of buildbox-casd: only the scheduler learns of it.
TerminateScheduler ==
  /\ phase = "run" /\ "casd" \in Interrupts /\ ~terminated
  /\ terminated' = TRUE /\ terminatePending' = TRUE
  /\ UNCHANGED <<loopVars, jobs, queueJobs, streamTerminated>>

-----------------------------------------------------------------------------

MainStep ==
  \/ QueryArtifact \/ QueryArtifactDone \/ EnqueuePlan
  \/ RealSchedule \/ TerminateJobs
  \/ \E j \in jobs, raised \in BOOLEAN, reaction \in OnFailure \cup {"none"} :
       JobDone(j, raised, reaction)

Environment == Quit \/ TerminateStream \/ TerminateScheduler

Stopped == phase = "stopped" /\ UNCHANGED vars

Next == MainStep \/ (\E j \in jobs : ThreadStep(j)) \/ Environment \/ Stopped

Spec == Init /\ [][Next]_vars

\* The loop runs the callbacks that are pending and the pool runs its threads;
\* nobody is bound to interrupt.
FairSpec == Spec /\ WF_vars(MainStep) /\ WF_vars(\E j \in jobs : ThreadStep(j))

-----------------------------------------------------------------------------
(* Properties. *)

InThread(e) == {j \in jobs : j.elem = e}
Building(e) == {j \in jobs : j.elem = e /\ InQueue(j, "Build") /\ j.st \in {"begun", "built"}}

\* Nothing that could be announced is forgotten (Element._load_artifact_done,
\* _assemble_done): outside of a job, whose end announces it, an element that has
\* all it takes is ready.
ReadyComplete ==
  \A e \in cacheKey \ ready :
    phase = "run" /\ CachedSuccess(e) /\ runtimeDepsUncached[e] = 0 => InThread(e) # {}

\* No lost wake-up: nothing waits in a queue for what has already happened.
NoMissedWakeup ==
  /\ requiredCallback \cap required = {}
  /\ \A e \in canQueryCallback : artifact[e] = "none" \/ InThread(e) # {}
  /\ \A e \in buildableCallback : ~Buildable(e)

\* While an element is built, all that is staged for it is ready, so the build
\* reads no artifact that another job is still producing.
BuildInputsReady ==
  \A e \in Element : Building(e) # {} => BuildScope[e] \subseteq ready

\* What is announced as ready really is in the cache as a success.
ReadyIsStored == \A e \in ready : stored[e] = "success"

\* A job that has built knows the key that its artifact is to be stored under (the
\* assertion in Element._cache_artifact, "assert self.__cache_key is not None").
KeyKnownToBuild ==
  \A j \in jobs : InQueue(j, "Build") /\ j.st = "built" => j.elem \in cacheKey

\* No build job runs for an element that is built (the assertion in
\* Element._assemble, "Assert call ordering").
NotBuiltTwice ==
  \A j \in jobs : InQueue(j, "Build") /\ j.st = "start" => ~CachedSuccess(j.elem)

\* An element is in one place: one job, or one place in one queue, or waiting for
\* one thing.
Places(e) ==
  {<<"job", j>> : j \in InThread(e)}
  \cup {<<"required", c>> : c \in {e} \cap requiredCallback}
  \cup {<<"canQuery", c>> : c \in {e} \cap canQueryCallback}
  \cup {<<"buildable", c>> : c \in {e} \cap buildableCallback}
  \cup (UNION {{"ready"} \X {q} \X (1..readyQueue[q][e]) : q \in QueueId})
  \cup (UNION {{"done"} \X {q} \X (1..doneQueue[q][e]) : q \in QueueId})

OnePlace == \A e \in Element : Cardinality(Places(e)) <= 1

\* The resources counted as used are those of the active jobs, within the limits.
ResourcesExact ==
  \A r \in Resource : /\ used[r] = Cardinality({j \in jobs : r \in Needs(j.queue)})
                      /\ MaxResources[r] > 0 => used[r] <= MaxResources[r]

\* No needless work: whatever is fetched or built is a target or is needed by an
\* element that is itself required, to run it or to assemble it.
OnlyNeededWork ==
  \A j \in jobs :
    InQueue(j, "Fetch") \/ InQueue(j, "Build") =>
      \/ j.elem \in Targets
      \/ \E e \in required : j.elem \in RuntimeDeps[e] \/
                            (e \in assembleScheduled /\ j.elem \in BuildDeps[e])

\* Mutant of Status: failed tasks are not looked at.
StatusUnchecked == IF terminated THEN "TERMINATED" ELSE "SUCCESS"

\* Scheduler.run(): the status the session ends with.
Status == IF \E q \in QueueId, e \in Element : failedTasks[q][e] > 0 THEN "ERROR"
          ELSE IF terminated THEN "TERMINATED" ELSE "SUCCESS"

\* A session that says it succeeded and that the user did not quit has built, or
\* found, every element that was required.
SuccessMeansBuilt ==
  phase = "stopped" /\ Status = "SUCCESS" /\ queueJobs =>
    \A e \in required : CachedSuccess(e) /\ stored[e] = "success"

\* Nothing is built on a failure: an element among the failed tasks of the build
\* queue is not ready for others to be built with.
FailureContained ==
  \A q \in QueueId, e \in Element :
    Queues[q] = "Build" /\ failedTasks[q][e] > 0 => e \notin ready

\* An element that is being built has its sources staged in the cache.
SourcesCachedToBuild ==
  \A e \in Element : Building(e) # {} => e \in sourcesCached

\* The session implements the order of builds: a start of the action of a build job
\* is a start, the store of its artifact or its failure is the end, and a pull that
\* stores a success finds it.
Order == INSTANCE BuildOrder WITH
  Inputs <- BuildScope,
  have <- {e \in Element : stored[e] = "success"},
  building <- {e \in Element : Building(e) # {}}

BuildsInOrder == Order!Spec

\* After the user quits, no more jobs are started in the queues up to the build;
\* after a termination none at all.
NewJobs ==
  {j \in jobs' : \A k \in jobs : <<k.queue, k.elem, k.copy>> # <<j.queue, j.elem, j.copy>>}

QuitIsHonoured ==
  [][\A j \in NewJobs : /\ ~terminated
                        /\ queueJobs \/ InQueue(j, "Push")]_vars

\* The session ends.
SessionEnds == <>(phase = "stopped")
=============================================================================

------------------------- MODULE PipelineEndsProofs -------------------------
(***************************************************************************)
(* What TLAPS proves of Pipeline about where a session ends up, for any    *)
(* graph of elements, queues, limits and faults: nothing that could be     *)
(* announced is forgotten, what was required is there when a session says  *)
(* it succeeded, and what is built has its key.                            *)
(***************************************************************************)
EXTENDS PipelineBuildsProofs

-----------------------------------------------------------------------------
(* Nothing that could be announced is forgotten. *)

\* The end of a job that announces its element if it can.
Announces(j) == InQueue(j, "Build") \/ (InQueue(j, "Pull") /\ j.st \in {"ok", "skip"})
Announced(e) == \E j \in jobs : j.elem = e /\ Announces(j)

ToPull(e) == PullWaits(e) \/ (e \in pullPending /\ (Querying \/ e \in requiredCallback))
PullRight(j) == j.elem \notin assembleScheduled /\ (Announces(j) \/ ~CachedSuccess(j.elem))
Built(e) == CachedSuccess(e) => BuildDeps[e] \subseteq ready
Complete(e) == e \in cacheKey /\ CachedSuccess(e) /\ runtimeDepsUncached[e] = 0
                 => e \in ready \/ Announced(e) \/ (Querying /\ ~(Depth(e) < position))

CompleteInv ==
  /\ \A e \in Element : Querying /\ ~Queried(e) => NotQueried(e) /\ e \notin assembleScheduled
  /\ \A e \in Element : ToPull(e) => /\ ~CachedSuccess(e) /\ e \in pullPending
                                     /\ e \notin assembleScheduled
  /\ \A j \in jobs : InQueue(j, "Pull") => PullRight(j)
  /\ \A e \in assembleScheduled : Built(e)
  /\ \A e \in Element : Complete(e)

LEMMA CompleteInit == Init => CompleteInv
<1> SUFFICES ASSUME Init PROVE CompleteInv
  OBVIOUS
<1>1. /\ assembleScheduled = {} /\ jobs = {} /\ pullPending = {}
      /\ \A e \in Element : NotQueried(e) /\ ~CachedSuccess(e) /\ ~PullWaits(e)
  BY DEF Init, ElementInit, NotQueried, CachedSuccess, Successful, PullWaits, NoArrivals, Nothing
<1> QED  BY <1>1 DEF CompleteInv, ToPull, Complete

\* Who is woken has build dependencies that were not ready.
LEMMA WokenIsUnbuilt ==
  ASSUME NEW S, S \cap ready = {}, NEW x, x \in Woken(S)
  PROVE  x \in assembleScheduled /\ ~(BuildDeps[x] \subseteq ready)
BY DEF Woken

LEMMA KeysAreOf ==
  ASSUME NEW keys, NEW S
  PROVE  KeysUpdated(keys, S) \subseteq keys \cup S
BY DEF KeysUpdated

\* What the handlers leave unannounced though it had all it takes, they did not come by.
LEMMA LoadDoneCompletes ==
  ASSUME CountersExact, NEW e \in Element, LoadArtifactDone(e), UNCHANGED <<artifact, buildResult>>,
         \A x \in assembleScheduled : Built(x),
         NEW x \in Element, x \in cacheKey', CachedSuccess(x)', runtimeDepsUncached'[x] = 0,
         x \notin ready'
  PROVE  x # e /\ x \in cacheKey /\ CachedSuccess(x) /\ runtimeDepsUncached[x] = 0 /\ x \notin ready
<1> DEFINE keys == IF artifact[e] = "cached" THEN KeysUpdated(cacheKey, {e}) ELSE cacheKey
           new == NewlyReady(e, keys, Successful(artifact))
           scheduled == {y \in {e} \cap required : Assemblable(y)}
           nowRequired == NewlyRequired(UNION {BuildDeps[y] : y \in scheduled})
           nowScheduled == scheduled \cup {y \in nowRequired : Assemblable(y)}
<1>1. /\ Notify(new, new)
      /\ cacheKey' = KeysUpdated(KeysUpdated(keys, Woken(new)), nowScheduled)
  BY DEF LoadArtifactDone
<1>2. CachedSuccess(x) /\ x \in Successful(artifact)
  BY LoadDoneSuccess DEF CachedSuccess
<1>3. keys \subseteq cacheKey \cup {e}
  BY KeysAreOf
<1>4. x \in keys \cup Woken(new) \cup nowScheduled
  BY <1>1, KeysAreOf
<1>5. new \cap ready = {} /\ Successful(artifact) \subseteq Element
  <2> HIDE DEF keys
  <2> QED  BY NewlyReadyIsNew DEF Successful
<1>6. x \notin nowScheduled
  BY <1>2 DEF Assemblable
<1> HIDE DEF keys, new, nowScheduled
<1>7. x \notin Woken(new)
  BY <1>2, <1>5, WokenIsUnbuilt DEF Built
<1>8. x \in (keys \cap Successful(artifact)) \ ready'
  BY <1>2, <1>4, <1>6, <1>7
<1>9. x \notin ready /\ x # e /\ runtimeDepsUncached[x] = 0
  BY <1>1, <1>5, <1>8, CascadeCompletes DEF new
<1> QED  BY <1>2, <1>3, <1>8, <1>9

LEMMA AssembleDoneCompletes ==
  ASSUME CountersExact, artifact \in [Element -> {"none", "uncached", "cached"}],
         NEW e \in Element, BuildDeps[e] \subseteq ready,
         NEW successful, AssembleDone(e, successful), \A x \in assembleScheduled : Built(x),
         NEW x \in Element, x \in cacheKey', CachedSuccess(x)', runtimeDepsUncached'[x] = 0,
         x \notin ready'
  PROVE  x # e /\ x \in cacheKey /\ CachedSuccess(x) /\ runtimeDepsUncached[x] = 0 /\ x \notin ready
<1> DEFINE handle == [artifact EXCEPT ![e] = IF successful \/ stored[e] # "none" THEN "cached"
                                             ELSE "uncached"]
           built == IF successful THEN {e} ELSE {}
           keys == KeysUpdated(cacheKey, {e})
           successes == Successful(handle) \cup built
           new == NewlyReady(e, keys, successes)
<1>1. /\ Notify(new, new \cup built) /\ cacheKey' = KeysUpdated(keys, Woken(new))
      /\ artifact' = handle /\ UNCHANGED buildResult
  BY DEF AssembleDone
<1>2. built \subseteq {e} /\ (x # e => handle[x] = artifact[x])
  OBVIOUS
<1>3. keys \subseteq cacheKey \cup {e}
  BY KeysAreOf
<1>4. x \in keys \cup Woken(new)
  BY <1>1, KeysAreOf
<1>5. successes \subseteq Element
  BY DEF Successful
<1> HIDE DEF keys, built, handle
<1>6. new \cap ready = {} /\ new \subseteq successes
  BY NewlyReadyIsNew
<1> HIDE DEF new
<1>7. x \in successes
  BY <1>1, <1>6 DEF CachedSuccess, Successful, Notify
<1>8. x # e => CachedSuccess(x)
  BY <1>2, <1>7 DEF CachedSuccess, Successful
<1>9. x \notin Woken(new)
  BY <1>6, <1>8, WokenIsUnbuilt DEF Built
<1> HIDE DEF successes
<1>10. x \in (keys \cap successes) \ ready'
  BY <1>4, <1>7, <1>9
<1>11. x \notin ready /\ x # e /\ runtimeDepsUncached[x] = 0
  BY <1>1, <1>5, <1>10, CascadeCompletes DEF new
<1> QED  BY <1>3, <1>8, <1>10, <1>11

\* What a thread makes of its job and of the success of its element.
Told(j, st) ==
  \/ InQueue(j, "Build")
  \/ InQueue(j, "Pull") /\ st \in {"ok", "skip"}
  \/ /\ CachedSuccess(j.elem)' <=> CachedSuccess(j.elem)
     /\ ~(InQueue(j, "Pull") /\ j.st \in {"ok", "skip"})
Tells(j) == \E st \in JobState \ {"start"} : ThreadAt(j, st) /\ Told(j, st)

LEMMA ThreadTells ==
  ASSUME JobInv, NEW j \in jobs, ThreadStep(j)
  PROVE  Tells(j)
<1>1. ASSUME NEW st \in JobState \ {"start"}, ThreadAt(j, st), Told(j, st) PROVE Tells(j)
  BY <1>1 DEF Tells
<1>2. UNCHANGED <<artifact, buildResult, cachedSuccessfully>>
        => (CachedSuccess(j.elem)' <=> CachedSuccess(j.elem))
  BY DEF CachedSuccess, Successful
<1>3. CASE Begin(j)
  <2>1. j.st = "start" /\ UNCHANGED <<artifact, buildResult, cachedSuccessfully>>
    BY <1>3 DEF Begin, elementVars, artifactVars, cascadeVars, PullBegins
  <2>2. \E st \in {"term", "fail", "begun"} : ThreadAt(j, st)
    BY <1>3 DEF Begin
  <2> QED  BY <1>1, <1>2, <2>1, <2>2 DEF JobState, Told
<1>4. CASE PullStep(j)
  <2>1. InQueue(j, "Pull") /\ j.st = "begun"
    BY <1>4 DEF PullStep
  <2>2. CASE \E s \in {"ok", "skip"} : ThreadAt(j, s)
    BY <1>1, <2>1, <2>2 DEF JobState, Told
  <2>3. CASE ThreadAt(j, "fail") /\ UNCHANGED artifactVars
    <3>1. UNCHANGED <<artifact, buildResult, cachedSuccessfully>>
      BY <1>4, <2>3 DEF PullStep, artifactVars, cascadeVars
    <3> QED  BY <1>1, <1>2, <2>1, <2>3, <3>1 DEF JobState, Told
  <2> QED  BY <1>4, <2>2, <2>3 DEF PullStep
<1>5. CASE FetchStep(j) \/ PushStep(j)
  <2>1. /\ ~InQueue(j, "Pull") /\ UNCHANGED <<artifact, buildResult, cachedSuccessfully>>
    BY <1>5 DEF FetchStep, PushStep, InQueue, elementVars, artifactVars, cascadeVars
  <2>2. \E st \in {"ok", "skip", "fail", "original"} : ThreadAt(j, st)
    BY <1>5 DEF FetchStep, PushStep
  <2> QED  BY <1>1, <1>2, <2>1, <2>2 DEF JobState, Told
<1>6. CASE Assemble(j) \/ CacheArtifact(j)
  <2>1. InQueue(j, "Build") /\ \E st \in {"ok", "fail", "term", "built"} : ThreadAt(j, st)
    BY <1>6 DEF Assemble, CacheArtifact
  <2> QED  BY <1>1, <2>1 DEF JobState, Told
<1>7. CASE Terminate(j)
  <2>1. /\ j.st \notin {"ok", "skip"} /\ ThreadAt(j, "term")
        /\ UNCHANGED <<artifact, buildResult, cachedSuccessfully>>
    BY <1>7 DEF Terminate, Over, elementVars, artifactVars, cascadeVars
  <2> QED  BY <1>1, <1>2, <2>1 DEF JobState, Told
<1> QED  BY <1>3, <1>4, <1>5, <1>6, <1>7 DEF ThreadStep

LEMMA ThreadComplete ==
  ASSUME JobInv, Inv, PlaceInv, ElementTyped, CompleteInv, NEW j \in jobs, ThreadStep(j)
  PROVE  CompleteInv'
<1>1. PICK st \in JobState \ {"start"} : ThreadAt(j, st) /\ Told(j, st)
  BY ThreadTells DEF Tells
<1>2. /\ j \in JobRecord /\ j.elem \in Element /\ Idle(j.elem) /\ j.elem \notin requiredCallback
      /\ \A l \in jobs : l.elem = j.elem => l = j
  BY HasJob DEF JobInv, JobsTyped
<1> DEFINE k == [j EXCEPT !.st = st]
<1>3. k.queue = j.queue /\ k.elem = j.elem /\ k.st = st
  BY <1>2 DEF JobRecord
<1>4. jobs' = (jobs \ {j}) \cup {k}
  BY <1>1 DEF ThreadAt
<1> HIDE DEF k
<1>5. /\ ~Querying /\ UNCHANGED <<phase, requiredCallback, readyQueue>>
      /\ UNCHANGED <<cacheKey, assembleScheduled, ready, runtimeDepsUncached>>
  BY ThreadMoves DEF ThreadStep, Querying, mainVars, queueVars, callbackVars, cascadeVars
<1>6. \A e \in Element : e # j.elem => Untouched(e) /\ (CachedSuccess(e)' <=> CachedSuccess(e))
  BY ThreadTouches, UntouchedSuccess
<1>7. ASSUME NEW e \in Element, ToPull(e)'
      PROVE  ~CachedSuccess(e)' /\ e \in pullPending' /\ e \notin assembleScheduled'
  <2>1. e # j.elem
    BY <1>2, <1>5, <1>7 DEF ToPull, PullWaits, Querying, Idle, NoneOf
  <2>2. ToPull(e)
    BY <1>5, <1>6, <1>7, <2>1 DEF ToPull, PullWaits, Querying, Untouched
  <2> QED  BY <1>5, <1>6, <2>1, <2>2 DEF CompleteInv, Untouched
<1>8. Announces(j) => Announces(k)
  BY <1>1, <1>3 DEF Told, Announces, InQueue
<1>9. ~Announces(k) => (CachedSuccess(j.elem)' <=> CachedSuccess(j.elem))
  BY <1>1, <1>3 DEF Told, Announces, InQueue
<1>10. ASSUME NEW l \in jobs', InQueue(l, "Pull") PROVE PullRight(l)'
  <2>1. CASE l = k
    BY <1>3, <1>5, <1>8, <1>9, <1>10, <2>1 DEF CompleteInv, PullRight, InQueue, Announces
  <2>2. CASE l \in jobs /\ l # j
    <3>1. l.elem \in Element /\ l.elem # j.elem
      BY <1>2, <2>2 DEF JobInv, JobsTyped, JobRecord
    <3> QED  BY <1>5, <1>6, <1>10, <2>2, <3>1 DEF CompleteInv, PullRight, Announces, InQueue
  <2> QED  BY <1>4, <1>10, <2>1, <2>2
<1>11. ASSUME NEW e \in assembleScheduled' PROVE Built(e)'
  <2>1. e \in Element /\ Built(e)
    BY <1>5, <1>11 DEF ElementTyped, FlagsTyped, CompleteInv
  <2>2. CASE e # j.elem
    BY <1>5, <1>6, <2>1, <2>2 DEF Built
  <2>3. CASE e = j.elem
    <3>1. ~InQueue(j, "Pull")
      BY <1>5, <1>11, <2>3 DEF CompleteInv, PullRight
    <3>2. InQueue(j, "Build") => BuildDeps[e] \subseteq ready
      BY <2>3 DEF Inv, BuildJobs
    <3>3. InQueue(j, "Build") \/ (CachedSuccess(e)' <=> CachedSuccess(e))
      BY <1>1, <2>3, <3>1 DEF Told
    <3> QED  BY <1>5, <2>1, <3>2, <3>3 DEF Built
  <2> QED  BY <2>2, <2>3
<1>12. ASSUME NEW e \in Element PROVE Complete(e)'
  <2>1. Announced(e) => Announced(e)'
    BY <1>3, <1>4, <1>8 DEF Announced, Announces, InQueue
  <2>2. CASE e # j.elem
    BY <1>5, <1>6, <2>1, <2>2 DEF CompleteInv, Complete, Querying
  <2>3. CASE e = j.elem
    <3>1. CASE Announces(k)
      BY <1>3, <1>4, <2>3, <3>1 DEF Complete, Announced, Announces, InQueue
    <3>2. CASE ~Announces(k)
      BY <1>5, <1>9, <2>1, <2>3, <3>2 DEF CompleteInv, Complete, Querying
    <3> QED  BY <3>1, <3>2
  <2> QED  BY <2>2, <2>3
<1> QED  BY <1>5, <1>7, <1>10, <1>11, <1>12 DEF CompleteInv, Querying, InQueue

LEMMA FinishIs ==
  ASSUME NEW j \in jobs, NEW raised \in BOOLEAN, NEW reaction, JobDone(j, raised, reaction)
  PROVE  \/ /\ InQueue(j, "Pull") /\ Announces(j) /\ LoadArtifactDone(j.elem)
            /\ UNCHANGED <<artifactVars, sourceVars>>
         \/ InQueue(j, "Build") /\ AssembleDone(j.elem, j.st = "ok")
         \/ ~Announces(j) /\ UNCHANGED <<artifactVars, cascadeVars>>
<1>1. Finish(j, raised)
  BY DEF JobDone
<1>2. CASE InQueue(j, "Pull") /\ j.st \in {"ok", "skip"}
  BY <1>1, <1>2 DEF Finish, Announces, InQueue
<1>3. CASE InQueue(j, "Build")
  BY <1>1, <1>3 DEF Finish, InQueue
<1>4. CASE ~(InQueue(j, "Pull") /\ j.st \in {"ok", "skip"}) /\ ~InQueue(j, "Build")
  BY <1>1, <1>4 DEF Finish, Announces, elementVars
<1> QED  BY <1>2, <1>3, <1>4

\* What the end of a job schedules was not required, or is its own element.
LEMMA LoadDoneSchedules ==
  ASSUME NEW e, LoadArtifactDone(e)
  PROVE  /\ required \subseteq required'
         /\ \A x \in assembleScheduled' :
              x \in assembleScheduled \/ (Assemblable(x) /\ (x = e \/ x \notin required))
BY DEF LoadArtifactDone, NewlyRequired

LEMMA JobDoneComplete ==
  ASSUME JobInv, Inv, PlaceInv, NeedInv, ElementTyped, ElementTyped', CompleteInv,
         NEW j \in jobs, NEW raised \in BOOLEAN, NEW reaction, reaction # "retry",
         JobDone(j, raised, reaction)
  PROVE  CompleteInv'
<1>1. /\ j.elem \in Element /\ j.queue \in QueueId /\ Idle(j.elem)
      /\ j.elem \notin requiredCallback /\ \A k \in jobs : k.elem = j.elem => k = j
  BY HasJob
<1>2. /\ jobs' = jobs \ {j} /\ ~Querying /\ ~Querying'
      /\ requiredCallback' \subseteq requiredCallback
  BY DEF JobDone, Querying
<1>3. /\ UNCHANGED <<stored, buildResult, pullPending>>
      /\ \A e \in Element : e # j.elem \/ ~InQueue(j, "Build")
                              => (CachedSuccess(e)' <=> CachedSuccess(e))
  BY <1>1, JobDoneTouches
<1>4. \/ /\ InQueue(j, "Pull") /\ Announces(j) /\ LoadArtifactDone(j.elem)
         /\ UNCHANGED <<artifactVars, sourceVars>>
      \/ InQueue(j, "Build") /\ AssembleDone(j.elem, j.st = "ok")
      \/ ~Announces(j) /\ UNCHANGED <<artifactVars, cascadeVars>>
  BY FinishIs
<1>5. ready \subseteq ready'
  <2>1. CountersExact /\ ReadySound
    BY DEF Inv, Readiness
  <2> QED  BY <1>1, <1>4, <2>1, LoadArtifactDoneKeeps, AssembleDoneKeeps DEF cascadeVars
<1>6. ~(InQueue(j, "Pull") /\ InQueue(j, "Build"))
  BY DEF InQueue
<1>7. \A x \in assembleScheduled' :
        \/ x \in assembleScheduled
        \/ ~InQueue(j, "Build") /\ Assemblable(x) /\ (x = j.elem \/ x \notin required)
  BY <1>4, <1>6, LoadDoneSchedules DEF AssembleDone, cascadeVars
<1>8. assembleScheduled' \subseteq Element
  BY DEF ElementTyped, FlagsTyped
<1>9. ASSUME NEW e \in Element, ToPull(e)'
      PROVE  ~CachedSuccess(e)' /\ e \in pullPending' /\ e \notin assembleScheduled'
  <2>1. ToPull(e) /\ e # j.elem
    <3>1. CASE PullWaits(e)'
      <4>1. PICK q \in QueueId : Queues[q] = "Pull" /\ readyQueue'[q][e] # 0
        BY <3>1 DEF PullWaits
      <4>2. readyQueue[q][e] # 0 \/ (Ready(q, e)' /\ Came(q, e))
        BY <4>1, JobDoneFlow
      <4>3. Ready(q, e)' => e \in pullPending
        BY <1>3, <4>1 DEF Ready, Skipped
      <4> QED  BY <1>1, <4>1, <4>2, <4>3 DEF Came, ToPull, PullWaits, Idle, NoneOf
    <3>2. CASE e \in pullPending' /\ e \in requiredCallback'
      BY <1>1, <1>2, <1>3, <3>2 DEF ToPull
    <3> QED  BY <1>2, <1>9, <3>1, <3>2 DEF ToPull
  <2>2. ~CachedSuccess(e) /\ e \in pullPending /\ e \notin assembleScheduled
    BY <2>1 DEF CompleteInv
  <2> QED  BY <1>3, <1>7, <2>1, <2>2 DEF Assemblable
<1>10. ASSUME NEW k \in jobs', InQueue(k, "Pull") PROVE PullRight(k)'
  <2>1. k \in jobs /\ k.elem \in Element /\ k.elem # j.elem
    BY <1>1, <1>2 DEF JobInv, JobsTyped, JobRecord
  <2>2. k.elem \in required
    BY <2>1 DEF NeedInv, Unplaced, NoJob
  <2> QED  BY <1>3, <1>7, <1>10, <2>1, <2>2 DEF CompleteInv, PullRight, Announces, InQueue
<1>11. ASSUME NEW e \in assembleScheduled' PROVE Built(e)'
  <2>1. CASE e = j.elem /\ InQueue(j, "Build")
    BY <1>5, <2>1 DEF Built, Inv, BuildJobs
  <2>2. CASE ~(e = j.elem /\ InQueue(j, "Build"))
    <3>1. e \in Element /\ (CachedSuccess(e)' <=> CachedSuccess(e))
      BY <1>3, <1>8, <1>11, <2>2
    <3> QED  BY <1>5, <1>7, <1>11, <3>1 DEF CompleteInv, Built, Assemblable
  <2> QED  BY <2>1, <2>2
<1>12. ASSUME NEW e \in Element PROVE Complete(e)'
  <2> SUFFICES ASSUME e \in cacheKey', CachedSuccess(e)', runtimeDepsUncached'[e] = 0, e \notin ready'
               PROVE  Announced(e)'
    BY DEF Complete
  <2>1. \A x \in assembleScheduled : Built(x)
    BY DEF CompleteInv
  <2>2. CountersExact /\ artifact \in [Element -> {"none", "uncached", "cached"}]
    BY DEF Inv, Readiness, ElementTyped, ArtifactsTyped
  <2>3. /\ e \in cacheKey /\ CachedSuccess(e) /\ runtimeDepsUncached[e] = 0 /\ e \notin ready
        /\ e # j.elem \/ ~Announces(j)
    <3>1. CASE /\ LoadArtifactDone(j.elem) /\ UNCHANGED <<artifactVars, sourceVars>>
      <4>1. UNCHANGED <<artifact, buildResult>>
        BY <3>1 DEF artifactVars
      <4> QED  BY <1>1, <2>1, <2>2, <3>1, <4>1, LoadDoneCompletes
    <3>2. CASE InQueue(j, "Build") /\ AssembleDone(j.elem, j.st = "ok")
      <4>1. BuildDeps[j.elem] \subseteq ready
        BY <3>2 DEF Inv, BuildJobs
      <4> QED  BY <1>1, <2>1, <2>2, <3>2, <4>1, AssembleDoneCompletes
    <3>3. CASE ~Announces(j) /\ UNCHANGED <<artifactVars, cascadeVars>>
      BY <3>3 DEF artifactVars, cascadeVars, CachedSuccess, Successful
    <3> QED  BY <1>4, <3>1, <3>2, <3>3
  <2>4. PICK l \in jobs : l.elem = e /\ Announces(l)
    BY <1>2, <2>3 DEF CompleteInv, Complete, Announced
  <2> QED  BY <1>2, <2>3, <2>4 DEF Announced, Announces, InQueue
<1> QED  BY <1>2, <1>9, <1>10, <1>11, <1>12 DEF CompleteInv, InQueue

LEMMA QueryComplete ==
  ASSUME JobInv, PlaceInv, ElementTyped, CompleteInv, QueryArtifact
  PROVE  CompleteInv'
<1>1. PICK x \in Element : position \in 1..Len(Plan) /\ x = Plan[position]
  BY PlanAssumption DEF QueryArtifact, JobInv, SessionTyped
<1>2. /\ phase = "query" /\ phase' = "queried" /\ position' = position
      /\ LoadArtifact(x) /\ UNCHANGED <<cascadeVars, queueVars, jobs>>
  BY <1>1 DEF QueryArtifact, JobInv, SessionTyped
<1>3. jobs = {} /\ requiredCallback = {} /\ readyQueue = NoArrivals
  BY <1>2 DEF PlaceInv, QueryEmpty
<1>4. Depth(x) = position /\ \A e \in Element : e # x => Depth(e) # position
  BY <1>1, DepthIs
<1>5. /\ artifact \in [Element -> {"none", "uncached", "cached"}]
      /\ buildResult \in [Element -> Result] /\ position \in Nat
      /\ UNCHANGED <<cachedSuccessfully, assembleScheduled, cacheKey, ready, runtimeDepsUncached>>
  BY <1>2 DEF ElementTyped, ArtifactsTyped, cascadeVars, JobInv, SessionTyped
<1>6. NotQueried(x) /\ x \notin assembleScheduled
  BY <1>2, <1>4, <1>5 DEF CompleteInv, Querying, Queried
<1>7. /\ x \in pullPending' => artifact'[x] # "cached"
      /\ \A e \in Element : e # x => /\ artifact'[e] = artifact[e] /\ buildResult'[e] = buildResult[e]
                                     /\ e \in pullPending' <=> e \in pullPending
  <2>1. CASE stored[x] = "none" /\ HasFetchRemotes
    BY <1>2, <1>5, <2>1 DEF LoadArtifact
  <2>2. CASE ~(stored[x] = "none" /\ HasFetchRemotes)
    BY <1>2, <1>5, <1>6, <2>2 DEF LoadArtifact, NotQueried
  <2> QED  BY <2>1, <2>2
<1>8. \A e \in Element : /\ e # x => (CachedSuccess(e)' <=> CachedSuccess(e))
                         /\ e = x /\ e \in pullPending' => ~CachedSuccess(e)'
  BY <1>5, <1>6, <1>7 DEF NotQueried, CachedSuccess, Successful
<1>9. /\ Querying /\ Querying' /\ jobs' = {} /\ \A e \in Element : ~PullWaits(e)'
      /\ \A e \in Element : e # x => (Queried(e)' <=> Queried(e))
      /\ Queried(x)'
  BY <1>2, <1>3, <1>4 DEF Querying, Queried, PullWaits, queueVars, NoArrivals, Nothing
<1>10. \A e \in Element : e # x /\ NotQueried(e) => NotQueried(e)'
  BY <1>5, <1>7 DEF NotQueried
<1>11. \A e \in Element : ToPull(e)' => e \in pullPending' /\ (e # x => ToPull(e))
  BY <1>7, <1>9 DEF ToPull
<1>12. \A e \in assembleScheduled' : Built(e)'
  <2>1. assembleScheduled \subseteq Element
    BY DEF ElementTyped, FlagsTyped
  <2> QED  BY <1>5, <1>6, <1>8, <2>1 DEF CompleteInv, Built
<1>13. ASSUME NEW e \in Element PROVE Complete(e)'
  <2>1. CASE e = x
    BY <1>2, <1>4, <1>5, <1>9, <2>1 DEF Complete
  <2>2. CASE e # x
    BY <1>2, <1>3, <1>5, <1>8, <1>9, <2>2 DEF CompleteInv, Complete, Announced
  <2> QED  BY <2>1, <2>2
<1> QED  BY <1>5, <1>6, <1>7, <1>8, <1>9, <1>10, <1>11, <1>12, <1>13 DEF CompleteInv

LEMMA QueryDoneComplete ==
  ASSUME JobInv, Inv, PlaceInv, ElementTyped, ElementTyped', CompleteInv, QueryArtifactDone
  PROVE  CompleteInv'
<1>1. PICK x \in Element : x = Plan[position]
  <2>1. position \in 1..Len(Plan)
    BY DEF QueryArtifactDone, PlaceInv, QueryEmpty, JobInv, SessionTyped
  <2> QED  BY <2>1, PlanAssumption
<1>2. /\ phase = "queried" /\ phase' = "query" /\ position' = position + 1 /\ position \in Nat
      /\ UNCHANGED <<stored, artifact, buildResult, pullPending, readyQueue, requiredCallback, jobs>>
  BY DEF QueryArtifactDone, artifactVars, queueVars, callbackVars, JobInv, SessionTyped
<1>3. jobs = {} /\ readyQueue = NoArrivals
  BY <1>2 DEF PlaceInv, QueryEmpty
<1>4. \/ x \in pullPending /\ UNCHANGED cascadeVars
      \/ LoadArtifactDone(x)
  BY <1>1 DEF QueryArtifactDone
<1>5. \A e \in Element : CachedSuccess(e)' <=> CachedSuccess(e)
  <2>1. CASE UNCHANGED cascadeVars
    BY <1>2, <2>1 DEF cascadeVars, CachedSuccess, Successful
  <2>2. CASE LoadArtifactDone(x)
    BY <1>2, <2>2, LoadDoneSuccess
  <2> QED  BY <1>4, <2>1, <2>2
<1>6. ready \subseteq ready'
  <2>1. CountersExact /\ ReadySound
    BY DEF Inv, Readiness
  <2> QED  BY <1>4, <2>1, LoadArtifactDoneKeeps DEF cascadeVars
<1>7. \A e \in assembleScheduled' : e \in Element /\ (e \in assembleScheduled \/ Assemblable(e))
  <2>1. assembleScheduled' \subseteq Element
    BY DEF ElementTyped, FlagsTyped
  <2> QED  BY <1>4, <2>1, LoadDoneSchedules DEF cascadeVars
<1>8. /\ \A e \in Element : Queried(e)' <=> Queried(e)
      /\ \A e \in Element : e # x /\ ~(Depth(e) < position) => ~(Depth(e) < position')
  BY <1>1, <1>2, DepthIs DEF Queried
<1>9. Querying /\ Querying' /\ jobs' = {} /\ \A e \in Element : ~PullWaits(e)' /\ ~PullWaits(e)
  BY <1>2, <1>3 DEF Querying, PullWaits, NoArrivals, Nothing
<1>10. ASSUME NEW e \in Element, ~Queried(e)' PROVE NotQueried(e)' /\ e \notin assembleScheduled'
  <2>1. NotQueried(e) /\ e \notin assembleScheduled
    BY <1>8, <1>9, <1>10 DEF CompleteInv
  <2>2. ~CachedSuccess(e)
    BY <2>1 DEF NotQueried, CachedSuccess, Successful
  <2> QED  BY <1>2, <1>5, <1>7, <2>1, <2>2 DEF NotQueried, Assemblable, CachedSuccess, Successful
<1>11. ASSUME NEW e \in Element, ToPull(e)'
       PROVE  ~CachedSuccess(e)' /\ e \in pullPending' /\ e \notin assembleScheduled'
  <2>1. ToPull(e) /\ e \in pullPending
    BY <1>2, <1>9, <1>11 DEF ToPull
  <2> QED  BY <1>2, <1>5, <1>7, <2>1 DEF CompleteInv, Assemblable
<1>12. \A e \in assembleScheduled' : Built(e)'
  BY <1>5, <1>6, <1>7 DEF CompleteInv, Built, Assemblable
<1>13. ASSUME NEW e \in Element PROVE Complete(e)'
  <2> SUFFICES ASSUME e \in cacheKey', CachedSuccess(e)', runtimeDepsUncached'[e] = 0, e \notin ready'
               PROVE  ~(Depth(e) < position')
    BY <1>9 DEF Complete
  <2>1. /\ e \in cacheKey /\ CachedSuccess(e) /\ runtimeDepsUncached[e] = 0 /\ e \notin ready
        /\ e # x
    <3>1. CASE x \in pullPending /\ UNCHANGED cascadeVars
      <4>1. ~CachedSuccess(x)
        BY <1>9, <3>1 DEF CompleteInv, ToPull
      <4> QED  BY <1>5, <3>1, <4>1 DEF cascadeVars
    <3>2. CASE LoadArtifactDone(x)
      <4>1. CountersExact /\ \A y \in assembleScheduled : Built(y)
        BY DEF Inv, Readiness, CompleteInv
      <4> QED  BY <1>2, <3>2, <4>1, LoadDoneCompletes
    <3> QED  BY <1>4, <3>1, <3>2
  <2>2. ~Announced(e)
    BY <1>3 DEF Announced
  <2> QED  BY <1>8, <2>1, <2>2 DEF CompleteInv, Complete
<1> QED  BY <1>9, <1>10, <1>11, <1>12, <1>13 DEF CompleteInv

LEMMA EnqueuePlanComplete ==
  ASSUME JobInv, PlaceInv, CompleteInv, EnqueuePlan
  PROVE  CompleteInv'
<1>1. /\ phase = "query" /\ phase' = "run" /\ position > Len(Plan)
      /\ UNCHANGED elementVars /\ position' = position
  BY DEF EnqueuePlan
<1>2. QueryEmpty /\ jobs = {} /\ jobs' = {}
  BY <1>1 DEF EnqueuePlan, PlaceInv, QueryEmpty
<1>3. \A e \in Element : Depth(e) < position
  BY <1>1, DepthIs, PlanAssumption DEF JobInv, SessionTyped
<1>4. UNCHANGED <<artifact, buildResult, pullPending, cachedSuccessfully, assembleScheduled, cacheKey,
                  ready, runtimeDepsUncached>>
  BY <1>1 DEF elementVars, artifactVars, cascadeVars
<1>5. \A e \in Element : CachedSuccess(e)' <=> CachedSuccess(e)
  BY <1>1, SameSuccess
<1>6. ASSUME NEW e \in Element, ToPull(e)' PROVE ToPull(e) /\ e \in pullPending
  <2>1. CASE PullWaits(e)'
    <3>1. PICK q \in QueueId : Queues[q] = "Pull" /\ readyQueue'[q][e] # 0
      BY <2>1 DEF PullWaits
    <3>2. Ready(q, e)'
      BY <1>2, <3>1, EnqueuePlanFlow
    <3> QED  BY <1>1, <1>4, <3>1, <3>2 DEF Ready, Skipped, ToPull, Querying
  <2> QED  BY <1>1, <1>4, <1>6, <2>1 DEF ToPull, Querying
<1>7. \A e \in Element : Complete(e)'
  BY <1>2, <1>3, <1>4, <1>5 DEF CompleteInv, Complete, Announced
<1>8. \A e \in assembleScheduled' : Built(e)'
  BY <1>4, SameSuccess, <1>1 DEF CompleteInv, Built, CachedSuccess, Successful
<1> QED  BY <1>1, <1>2, <1>4, <1>5, <1>6, <1>7, <1>8 DEF CompleteInv, Querying

LEMMA RealScheduleComplete ==
  ASSUME JobInv, PlaceInv, CompleteInv, RealSchedule
  PROVE  CompleteInv'
<1>1. /\ ~Querying /\ ~Querying' /\ UNCHANGED <<elementVars, requiredCallback>>
  BY DEF RealSchedule, Querying
<1>2. UNCHANGED <<artifact, buildResult, pullPending, cachedSuccessfully, assembleScheduled, cacheKey,
                  ready, runtimeDepsUncached>>
  BY <1>1 DEF elementVars, artifactVars, cascadeVars
<1>3. /\ jobs \subseteq jobs'
      /\ \A e \in Element : PullWaits(e)' => PullWaits(e)
      /\ \A k \in jobs' \ jobs : /\ k.elem \in Element /\ k.st = "start"
                                 /\ InQueue(k, "Pull") => PullWaits(k.elem)
  <2>1. CASE terminated
    BY <2>1 DEF RealSchedule, PullWaits
  <2>2. CASE ~terminated
    <3>1. QueueJobs
      BY <2>2 DEF RealSchedule
    <3>2. jobs \subseteq jobs' /\ \A k \in jobs' : k.elem \in Element
      BY <3>1, QueueJobsKeeps DEF JobsTyped, JobRecord
    <3>3. \A q \in QueueId, e \in Element : Queues[q] = "Pull" => ~Flowed(q, e)
      BY QueuesInOrder DEF Flowed
    <3>4. ASSUME NEW e \in Element
          PROVE  /\ PullWaits(e)' => PullWaits(e)
                 /\ \A k \in jobs' \ jobs : k.elem = e =>
                      k.st = "start" /\ (InQueue(k, "Pull") => PullWaits(e))
      <4>1. Single(e)
        BY DEF PlaceInv
      <4> QED  BY <1>1, <3>1, <3>3, <4>1, QueueJobsFlow DEF PullWaits, InQueue
    <3> QED  BY <3>2, <3>4
  <2> QED  BY <2>1, <2>2
<1>4. \A e \in Element : (ToPull(e)' => ToPull(e)) /\ (CachedSuccess(e)' <=> CachedSuccess(e))
  BY <1>1, <1>2, <1>3, SameSuccess DEF ToPull
<1>5. ASSUME NEW k \in jobs', InQueue(k, "Pull") PROVE PullRight(k)'
  <2>1. CASE k \in jobs
    <3>1. k.elem \in Element
      BY <2>1 DEF JobInv, JobsTyped, JobRecord
    <3> QED  BY <1>2, <1>4, <1>5, <2>1, <3>1 DEF CompleteInv, PullRight, Announces, InQueue
  <2>2. CASE k \notin jobs
    <3>1. k.elem \in Element /\ ToPull(k.elem)
      BY <1>3, <1>5, <2>2 DEF ToPull
    <3> QED  BY <1>2, <1>4, <3>1 DEF CompleteInv, PullRight
  <2> QED  BY <2>1, <2>2
<1>6. ASSUME NEW e \in Element PROVE Complete(e)'
  <2>1. Announced(e) => Announced(e)'
    BY <1>3 DEF Announced, Announces, InQueue
  <2> QED  BY <1>1, <1>2, <1>4, <2>1 DEF CompleteInv, Complete
<1>7. \A e \in assembleScheduled' : Built(e)'
  BY <1>2 DEF CompleteInv, Built, CachedSuccess, Successful
<1> QED  BY <1>1, <1>2, <1>4, <1>5, <1>6, <1>7 DEF CompleteInv, InQueue

LEMMA CompleteNext ==
  ASSUME "retry" \notin OnFailure, JobInv, Inv, PlaceInv, NeedInv, ElementTyped, ElementTyped',
         CompleteInv, [Next]_vars
  PROVE  CompleteInv'
<1>1. CASE \E j \in jobs : ThreadStep(j)
  BY <1>1, ThreadComplete
<1>2. CASE Quiet
  <2>1. /\ UNCHANGED <<elementVars, phase, position, queueVars>>
        /\ \A k \in jobs' : \E l \in jobs : Alike(k, l)
        /\ \A l \in jobs : \E k \in jobs' : Alike(k, l)
    BY <1>2, QuietKeeps
  <2>2. /\ UNCHANGED <<artifact, buildResult, pullPending, cachedSuccessfully, assembleScheduled,
                       cacheKey, ready, runtimeDepsUncached>>
        /\ UNCHANGED <<phase, position, requiredCallback, readyQueue>>
    BY <2>1 DEF elementVars, artifactVars, cascadeVars, queueVars, callbackVars
  <2>3. \A e \in Element :
          /\ NotQueried(e)' <=> NotQueried(e)
          /\ Queried(e)' <=> Queried(e)
          /\ ToPull(e)' <=> ToPull(e)
          /\ CachedSuccess(e)' <=> CachedSuccess(e)
    BY <2>2 DEF NotQueried, Queried, ToPull, PullWaits, Querying, CachedSuccess, Successful
  <2>4. \A k \in jobs' : InQueue(k, "Pull") => PullRight(k)'
    <3>1. \A j \in jobs : j.elem \in Element
      BY DEF JobInv, JobsTyped, JobRecord
    <3> QED  BY <2>1, <2>2, <2>3, <3>1 DEF CompleteInv, PullRight, Announces, InQueue, Alike
  <2>5. \A e \in Element : Announced(e) => Announced(e)'
    BY <2>1 DEF Announced, Announces, InQueue, Alike
  <2>6. \A e \in Element : Complete(e)'
    BY <2>2, <2>3, <2>5 DEF CompleteInv, Complete, Querying
  <2>7. \A e \in assembleScheduled' : Built(e)'
    BY <2>2 DEF CompleteInv, Built, CachedSuccess, Successful
  <2> QED  BY <2>2, <2>3, <2>4, <2>6, <2>7 DEF CompleteInv, Querying, InQueue
<1>3. CASE QueryArtifact \/ QueryArtifactDone \/ EnqueuePlan \/ RealSchedule
  BY <1>3, QueryComplete, QueryDoneComplete, EnqueuePlanComplete, RealScheduleComplete
<1>4. \A reaction \in OnFailure \cup {"none"} : reaction # "retry"
  OBVIOUS
<1>5. \A j \in jobs, raised \in BOOLEAN, reaction \in OnFailure \cup {"none"} :
        JobDone(j, raised, reaction) => CompleteInv'
  BY <1>4, JobDoneComplete
<1> QED
  BY <1>1, <1>2, <1>3, <1>5 DEF Next, MainStep, Quiet

LEMMA SpecComplete ==
  ASSUME "retry" \notin OnFailure
  PROVE  Spec => []CompleteInv
<1>1. JobInv /\ Inv /\ PlaceInv /\ NeedInv /\ ElementTyped /\ ElementTyped' /\ CompleteInv /\ [Next]_vars
        => CompleteInv'
  BY CompleteNext
<1> QED
  BY <1>1, CompleteInit, SpecJobInv, SpecInv, SpecPlaceInv, SpecNeedInv, SpecTyped, PTL DEF Spec

\* Nothing that could be announced is forgotten: unless the user retries a failed job, an
\* element that has all it takes is ready, or a job whose end announces it is under way.
THEOREM NothingIsForgotten ==
  ASSUME "retry" \notin OnFailure
  PROVE  Spec => []ReadyComplete
<1>1. CompleteInv => ReadyComplete
  <2> SUFFICES ASSUME CompleteInv, NEW e \in cacheKey \ ready,
                      phase = "run", CachedSuccess(e), runtimeDepsUncached[e] = 0
               PROVE  InThread(e) # {}
    BY DEF ReadyComplete
  <2>1. e \in Element
    BY DEF CachedSuccess, Successful
  <2>2. Announced(e)
    BY <2>1 DEF CompleteInv, Complete, Querying
  <2> QED  BY <2>2 DEF Announced, InThread
<1> QED  BY <1>1, SpecComplete, PTL

-----------------------------------------------------------------------------
(* What an element needs is required with it. *)

IsDep(d) == \E e \in Element : d \in BuildDeps[e] \cup RuntimeDeps[e]

\* A session that requires its targets alone is given, with a target that is needed by
\* an element, what that target needs at runtime.
TargetsClosed ==
  RequiredScope = "none" => \A t \in Targets : IsDep(t) => RuntimeDeps[t] \subseteq Targets

RequireInv ==
  /\ \A d \in required : IsDep(d) => RuntimeDeps[d] \subseteq required
  /\ \A e \in assembleScheduled : BuildDeps[e] \subseteq required
  /\ assembleDone \subseteq assembleScheduled

\* The cascade requires all that it should.
LEMMA NewlyRequiredIsClosed ==
  ASSUME NEW roots \in SUBSET Element
  PROVE  /\ roots \subseteq required \cup NewlyRequired(roots)
         /\ \A e \in NewlyRequired(roots) :
              /\ RuntimeDeps[e] \subseteq required \cup NewlyRequired(roots)
              /\ Assemblable(e) => BuildDeps[e] \subseteq required \cup NewlyRequired(roots)
<1> DEFINE Wants(e) == RuntimeDeps[e] \cup (IF Assemblable(e) THEN BuildDeps[e] ELSE {})
           Closed(S) == /\ roots \subseteq required \cup S
                        /\ \A e \in S : Wants(e) \subseteq required \cup S
<1>1. \A e : e \in NewlyRequired(roots) <=>
                /\ e \in Element \ required
                /\ \A S \in SUBSET Element : Closed(S) => e \in S
  BY DEF NewlyRequired
<1>2. \A e \in Element : Wants(e) \subseteq Element
  BY FiniteDeps
<1>3. \A S : Closed(S) => /\ roots \subseteq required \cup S
                          /\ \A e \in S : Wants(e) \subseteq required \cup S
  OBVIOUS
<1>4. \A e : RuntimeDeps[e] \subseteq Wants(e) /\ (Assemblable(e) => BuildDeps[e] \subseteq Wants(e))
  OBVIOUS
<1> HIDE DEF Wants, Closed
<1>5. roots \subseteq required \cup NewlyRequired(roots)
  BY <1>1, <1>3
<1>6. ASSUME NEW e \in NewlyRequired(roots)
      PROVE  Wants(e) \subseteq required \cup NewlyRequired(roots)
  BY <1>1, <1>2, <1>3, <1>6
<1> QED  BY <1>4, <1>5, <1>6

LEMMA RequireInit ==
  ASSUME TargetsClosed
  PROVE  Init => RequireInv
<1> SUFFICES ASSUME Init PROVE RequireInv
  OBVIOUS
<1>1. /\ required = IF RequiredScope = "none" THEN Targets ELSE Reach(RuntimeDeps, Targets)
      /\ assembleScheduled = {} /\ assembleDone = {}
  BY DEF Init, ElementInit
<1>2. \A d \in Reach(RuntimeDeps, Targets) : RuntimeDeps[d] \subseteq Reach(RuntimeDeps, Targets)
  <2> SUFFICES ASSUME NEW d \in Reach(RuntimeDeps, Targets), NEW x \in RuntimeDeps[d]
               PROVE  x \in Reach(RuntimeDeps, Targets)
    OBVIOUS
  <2>1. d \in Element /\ x \in Element
    BY FiniteDeps DEF Reach
  <2>2. ASSUME NEW S \in SUBSET Element, Targets \subseteq S, ClosedUnder(RuntimeDeps, S)
        PROVE  x \in S
    BY <2>2 DEF Reach, ClosedUnder
  <2> QED  BY <2>1, <2>2 DEF Reach
<1> QED  BY <1>1, <1>2 DEF RequireInv, TargetsClosed

LEMMA LoadDoneRequires ==
  ASSUME RequireInv, assembleScheduled \subseteq Element, NEW e \in Element, LoadArtifactDone(e)
  PROVE  RequireInv'
<1> DEFINE scheduled == {x \in {e} \cap required : Assemblable(x)}
           roots == UNION {BuildDeps[x] : x \in scheduled}
           nowRequired == NewlyRequired(roots)
           nowScheduled == scheduled \cup {x \in nowRequired : Assemblable(x)}
<1>1. /\ required' = required \cup nowRequired
      /\ assembleScheduled' = assembleScheduled \cup nowScheduled
      /\ assembleDone' = assembleDone
  BY DEF LoadArtifactDone
<1>2. roots \subseteq Element /\ \A x \in scheduled : BuildDeps[x] \subseteq roots
  BY FiniteDeps
<1>3. /\ roots \subseteq required'
      /\ \A x \in nowRequired : /\ RuntimeDeps[x] \subseteq required'
                                /\ Assemblable(x) => BuildDeps[x] \subseteq required'
  <2> HIDE DEF roots
  <2> QED  BY <1>1, <1>2, NewlyRequiredIsClosed
<1> HIDE DEF scheduled, roots, nowRequired
<1>4. \A d \in required' : IsDep(d) => RuntimeDeps[d] \subseteq required'
  BY <1>1, <1>3 DEF RequireInv
<1>5. \A x \in assembleScheduled' : BuildDeps[x] \subseteq required'
  BY <1>1, <1>2, <1>3 DEF RequireInv
<1> QED  BY <1>1, <1>4, <1>5 DEF RequireInv, IsDep

LEMMA RequireNext ==
  ASSUME JobInv, ElementTyped, RequireInv, [Next]_vars
  PROVE  RequireInv'
<1>1. assembleScheduled \subseteq Element
  BY DEF ElementTyped, FlagsTyped
<1>2. CASE UNCHANGED cascadeVars
  BY <1>2 DEF cascadeVars, RequireInv, IsDep
<1>3. CASE QueryArtifactDone
  <2>1. Plan[position] \in Element
    BY <1>3, PlanAssumption DEF QueryArtifactDone, JobInv, SessionTyped
  <2>2. CASE LoadArtifactDone(Plan[position])
    BY <1>1, <2>1, <2>2, LoadDoneRequires
  <2> QED  BY <1>2, <1>3, <2>2 DEF QueryArtifactDone
<1>4. CASE \E j \in jobs, raised \in BOOLEAN, reaction \in OnFailure \cup {"none"} :
             JobDone(j, raised, reaction)
  <2>1. PICK j \in jobs, raised \in BOOLEAN, reaction \in OnFailure \cup {"none"} :
               JobDone(j, raised, reaction)
    BY <1>4
  <2>2. j.elem \in Element
    BY DEF JobInv, JobsTyped, JobRecord
  <2>3. CASE LoadArtifactDone(j.elem)
    BY <1>1, <2>2, <2>3, LoadDoneRequires
  <2>4. CASE AssembleDone(j.elem, j.st = "ok")
    BY <2>4 DEF AssembleDone, RequireInv, IsDep
  <2> QED  BY <1>2, <2>1, <2>3, <2>4, FinishIs DEF cascadeVars
<1>5. CASE \E j \in jobs : ThreadStep(j)
  BY <1>2, <1>5, ThreadMoves
<1>6. CASE Quiet
  BY <1>2, <1>6, QuietKeeps DEF elementVars
<1>7. CASE QueryArtifact \/ EnqueuePlan \/ RealSchedule
  BY <1>2, <1>7 DEF QueryArtifact, EnqueuePlan, RealSchedule, elementVars
<1> QED  BY <1>3, <1>4, <1>5, <1>6, <1>7 DEF Next, MainStep, Quiet

LEMMA SpecRequire ==
  ASSUME TargetsClosed
  PROVE  Spec => []RequireInv
<1>1. JobInv /\ ElementTyped /\ RequireInv /\ [Next]_vars => RequireInv'
  BY RequireNext
<1> QED  BY <1>1, RequireInit, SpecJobInv, SpecTyped, PTL DEF Spec
-----------------------------------------------------------------------------
(* The scheduler stops only when there is nothing that it could start. *)

NothingQueued == \A e \in Element : NoneOf(readyQueue, e) /\ NoneOf(doneQueue, e)

StopInv ==
  phase = "stopped" => jobs = {} /\ (~terminated /\ queueJobs => NothingQueued)

\* With all the resources to give, a queue takes something of a heap that is not empty.
LEMMA TakesSome ==
  ASSUME NEW q \in Harvested, NEW heap \in Heap, NEW left \in Within,
         \A r \in Resource : left[r] = 0, NEW e \in Element, heap[e] # 0
  PROVE  Taken(q, heap, left) # 0
<1> DEFINE size == Cardinality(Copies(heap))
           fits == {n \in 0..size :
                      \A r \in Needs(q) : MaxResources[r] = 0 \/ left[r] + n <= MaxResources[r]}
<1>1. size \in Nat /\ size # 0
  <2>1. <<e, 1>> \in Copies(heap)
    BY CopiesAre DEF Heap
  <2> QED  BY <2>1, CopiesAre, FS_CardinalityType, FS_EmptySet
<1>2. \A r \in Needs(q) : left[r] = 0 /\ MaxResources[r] \in Nat
  BY QueuesTyped, ParameterAssumption DEF Harvested
<1> HIDE DEF size
<1>3. 1 \in fits
  BY <1>1, <1>2
<1>4. fits \in SUBSET Nat /\ \A n \in fits : n <= size
  BY <1>1
<1>5. Max(fits) \in Nat /\ 1 <= Max(fits)
  <2> HIDE DEF fits
  <2> QED  BY <1>1, <1>3, <1>4, Greatest
<1>6. Taken(q, heap, left) = Max(fits)
  BY DEF Taken, size
<1> QED  BY <1>5, <1>6

LEMMA QueuesAreEmptied ==
  ASSUME JobInv, QueueJobs, jobs' = {}, queueJobs
  PROVE  NothingQueued'
<1> DEFINE N == Len(Queues)
           T == {i \in 0..N : \A r \in Resource : After[N + 1 - i][r] = 0}
<1>1. N \in Nat /\ QueueId = 1..N /\ Harvested = QueueId
  BY QueuesTyped DEF Harvested
<1>2. jobs = {} /\ \A q \in QueueId : New(q) = {}
  BY QueueJobsKeeps
<1>3. \A q \in QueueId : /\ IsFiniteSet(PoppedOf(q)) /\ Cardinality(PoppedOf(q)) = 0
                         /\ After[q + 1] \in Within
                         /\ \A r \in Resource : After[q][r] = After[q + 1][r]
  <2> SUFFICES ASSUME NEW q \in QueueId
               PROVE  /\ IsFiniteSet(PoppedOf(q)) /\ Cardinality(PoppedOf(q)) = 0
                      /\ After[q + 1] \in Within
                      /\ \A r \in Resource : After[q][r] = After[q + 1][r]
    OBVIOUS
  <2>1. Cardinality(PoppedOf(q)) = 0
    BY <1>2, NewOfQueue, FS_EmptySet
  <2>2. /\ After[q + 1] \in Within
        /\ After[q] = [r \in Resource |-> After[q + 1][r] +
             (IF r \in Needs(q) THEN Cardinality(PoppedOf(q)) ELSE 0)]
    BY QueuedAndPopped
  <2>3. \A r \in Resource : After[q + 1][r] \in Nat
    BY <2>2 DEF Within
  <2>4. \A r \in Resource : After[q][r] = After[q + 1][r]
    BY <2>1, <2>2, <2>3
  <2> QED  BY <2>1, <2>2, <2>4, QueuedAndPopped
<1>4. 0 \in T
  <2>1. \A r \in Resource : used[r] = 0
    <3>1. \A r : {j \in jobs : r \in Needs(j.queue)} = {}
      BY <1>2
    <3> QED  BY <3>1, FS_EmptySet DEF JobInv, ResourcesExact
  <2>2. After[N + 1] = used
    BY QueuedAndPopped
  <2> HIDE DEF N
  <2> QED  BY <1>1, <2>1, <2>2
<1>5. ASSUME NEW i \in 0..(N - 1), i \in T PROVE i + 1 \in T
  <2>1. N - i \in QueueId /\ (N - i) + 1 = N + 1 - i /\ N + 1 - (i + 1) = N - i /\ i + 1 \in 0..N
    BY <1>1
  <2> HIDE DEF N
  <2> QED  BY <1>3, <1>5, <2>1
<1>6. \A i \in 0..N : i \in T
  <2> HIDE DEF N, T
  <2> QED  BY <1>1, <1>4, <1>5, Climb
<1>7. ASSUME NEW q \in QueueId, NEW e \in Element PROVE Queued[q][e] = 0
  <2>1. N - q \in 0..N /\ N + 1 - (N - q) = q + 1
    BY <1>1
  <2>2. \A r \in Resource : After[q + 1][r] = 0
    <3> HIDE DEF N
    <3> QED  BY <1>6, <2>1
  <2>3. Queued[q] \in Heap /\ After[q + 1] \in Within
    BY <1>3, QueuedAndPopped DEF Counts
  <2>4. Taken(q, Queued[q], After[q + 1]) = 0
    <3>1. Taken(q, Queued[q], After[q + 1]) \in 0..Cardinality(Copies(Queued[q]))
      BY <2>3, TakenFits
    <3> QED  BY <1>3, <2>3, <3>1, PoppedCounted DEF PoppedOf
  <2> QED  BY <1>1, <2>2, <2>3, <2>4, TakesSome
<1>8. \A q \in QueueId, e \in Element :
        /\ readyQueue'[q][e] = 0
        /\ doneQueue'[q][e] = 0
  <2>1. doneQueue' = NoArrivals
    BY QueueJobsDoes
  <2> QED  BY <1>7, <2>1, QueueJobsTake DEF NoArrivals, Nothing
<1> QED  BY <1>8 DEF NothingQueued, NoneOf

LEMMA StopInit == Init => StopInv
BY DEF Init, StopInv

LEMMA StopNext ==
  ASSUME JobInv, StopInv, [Next]_vars
  PROVE  StopInv'
<1>1. CASE RealSchedule
  <2>1. CASE jobs' = {} /\ ~terminated /\ queueJobs
    <3>1. QueueJobs
      BY <1>1, <2>1 DEF RealSchedule
    <3> QED  BY <2>1, <3>1, QueuesAreEmptied DEF StopInv
  <2>2. CASE jobs' # {}
    BY <1>1, <2>2 DEF RealSchedule, StopInv
  <2>3. CASE jobs' = {} /\ ~(~terminated /\ queueJobs)
    BY <1>1, <2>3 DEF RealSchedule, StopInv, flagVars
  <2> QED  BY <2>1, <2>2, <2>3
<1>2. CASE Stopped \/ UNCHANGED vars
  BY <1>2 DEF Stopped, vars, queueVars, flagVars, StopInv, NothingQueued, NoneOf
<1>3. CASE phase' # "stopped"
  BY <1>3 DEF StopInv
<1>4. QueryArtifact \/ QueryArtifactDone \/ EnqueuePlan => phase' # "stopped"
  BY DEF QueryArtifact, QueryArtifactDone, EnqueuePlan
<1>5. \A j \in jobs, raised \in BOOLEAN : \A reaction :
        JobDone(j, raised, reaction) => phase' # "stopped"
  BY DEF JobDone
<1>6. \A j \in jobs : ThreadStep(j) => phase' # "stopped"
  BY DEF ThreadStep, mainVars
<1>7. TerminateJobs \/ Environment => phase' # "stopped"
  BY DEF TerminateJobs, Environment, Quit, TerminateStream, TerminateScheduler, loopVars
<1> QED  BY <1>1, <1>2, <1>3, <1>4, <1>5, <1>6, <1>7 DEF Next, MainStep

LEMMA SpecStop == Spec => []StopInv
<1>1. JobInv /\ StopInv /\ [Next]_vars => StopInv'
  BY StopNext
<1> QED  BY <1>1, StopInit, SpecJobInv, PTL DEF Spec
-----------------------------------------------------------------------------
(* No element is lost on its way. *)

\* While an element is built, and until its pull has found something, it is no success.
LEMMA BuildIsNoSuccess ==
  ASSUME JobInv, StoredInv, NEW j \in jobs, InQueue(j, "Build")
  PROVE  ~CachedSuccess(j.elem)
<1>1. BuildAt(j.st, j.elem) /\ j.st \in JobState
  BY DEF StoredInv, JobInv, JobsTyped, JobRecord
<1> QED  BY <1>1 DEF BuildAt, JobState, Missing, Failed, Stored, CachedSuccess, Successful

LEMMA ThreadKeepsSuccess ==
  ASSUME JobInv, ElementTyped, StoredInv, NEW j \in jobs, ThreadStep(j),
         NEW e \in Element, CachedSuccess(e)
  PROVE  CachedSuccess(e)'
<1>1. CASE e # j.elem
  BY <1>1, ThreadTouches, UntouchedSuccess
<1>2. CASE e = j.elem /\ InQueue(j, "Build")
  BY <1>2, BuildIsNoSuccess
<1>3. CASE e = j.elem /\ ~InQueue(j, "Build")
  <2>1. InQueue(j, "Pull") /\ j.st \in {"start", "begun"} => ~CachedSuccess(e)
    BY <1>3 DEF StoredInv, PullAt, Missing, CachedSuccess, Successful
  <2>2. UNCHANGED <<artifact, buildResult, cachedSuccessfully>>
    BY <1>3, <2>1
       DEF ThreadStep, Begin, PullStep, FetchStep, Assemble, CacheArtifact, PushStep, Terminate,
           elementVars, artifactVars, cascadeVars
  <2> QED  BY <2>2 DEF CachedSuccess, Successful
<1> QED  BY <1>1, <1>2, <1>3

LEMMA JobDoneKeepsSuccess ==
  ASSUME JobInv, ElementTyped, StoredInv, NEW j \in jobs, NEW raised \in BOOLEAN, NEW reaction,
         JobDone(j, raised, reaction), NEW e \in Element, CachedSuccess(e)
  PROVE  CachedSuccess(e)'
<1>1. j.elem \in Element
  BY DEF JobInv, JobsTyped, JobRecord
<1> QED  BY <1>1, JobDoneTouches, BuildIsNoSuccess

\* What arrives in a queue waits there, or is called back, or is done there.
Landed(q, e) ==
  \/ readyQueue[q][e] # 0
  \/ doneQueue[q][e] # 0
  \/ Queues[q] = "Fetch" /\ e \in canQueryCallback
  \/ Queues[q] = "Build" /\ e \in buildableCallback

LEMMA EnqueueKeeps ==
  ASSUME JobInv, NEW arrivals \in Counts, NEW done \in Counts, NEW fired,
         Enqueue(arrivals, done, fired), NEW e \in Element
  PROVE  /\ \A q \in QueueId :
              /\ readyQueue[q][e] # 0 => readyQueue'[q][e] # 0
              /\ done[q][e] # 0 => doneQueue'[q][e] # 0
              /\ arrivals[q][e] # 0 => Landed(q, e)'
              /\ arrivals[q][e] # 0 /\ Ready(q, e)' => readyQueue'[q][e] # 0
         /\ e \in canQueryCallback => e \in canQueryCallback' \/ e \in fired.canQuery
         /\ e \in buildableCallback => e \in buildableCallback' \/ e \in fired.buildable
<1>1. \A q \in QueueId : arrivals[q][e] \in Nat /\ readyQueue[q][e] \in Nat /\ done[q][e] \in Nat
  BY DEF JobInv, SessionTyped, Counts, Heap
<1>2. \A q \in QueueId :
        /\ readyQueue'[q][e] = readyQueue[q][e] + (IF Ready(q, e)' THEN arrivals[q][e] ELSE 0)
        /\ doneQueue'[q][e] = done[q][e] + (IF Skipped(q, e)' THEN arrivals[q][e] ELSE 0)
  BY DEF Enqueue
<1>3. /\ canQueryCallback' = (canQueryCallback \ fired.canQuery) \cup Registered("Fetch", arrivals)
      /\ buildableCallback' = (buildableCallback \ fired.buildable) \cup Registered("Build", arrivals)
  BY DEF Enqueue
<1>4. ASSUME NEW q \in QueueId, arrivals[q][e] # 0 PROVE Landed(q, e)'
  <2>1. arrivals[q][e] > 0
    BY <1>1, <1>4
  <2>2. CASE Ready(q, e)'
    BY <1>1, <1>2, <2>1, <2>2 DEF Landed
  <2>3. CASE Skipped(q, e)'
    BY <1>1, <1>2, <2>1, <2>3 DEF Landed
  <2>4. CASE Pending(q, e)'
    <3>1. Queues[q] \in {"Fetch", "Build"} /\ e \in Registered(Queues[q], arrivals)
      BY <2>1, <2>4 DEF Pending, Registered
    <3> QED  BY <1>3, <3>1 DEF Landed
  <2>5. Ready(q, e)' \/ Skipped(q, e)' \/ Pending(q, e)'
    BY DEF Ready
  <2> QED  BY <2>2, <2>3, <2>4, <2>5
<1>5. \A q \in QueueId : /\ readyQueue[q][e] # 0 => readyQueue'[q][e] # 0
                         /\ done[q][e] # 0 => doneQueue'[q][e] # 0
                         /\ arrivals[q][e] # 0 /\ Ready(q, e)' => readyQueue'[q][e] # 0
  BY <1>1, <1>2
<1> QED  BY <1>3, <1>4, <1>5

LEMMA FiredArrives ==
  ASSUME NEW fired, NEW q \in QueueId, NEW e \in Element,
         \/ q = 1 /\ e \in fired.required
         \/ Queues[q] = "Fetch" /\ e \in fired.canQuery
         \/ Queues[q] = "Build" /\ e \in fired.buildable
  PROVE  Arrivals(fired, {})[q][e] # 0
<1> DEFINE Reasons == {why \in {"required", "canQuery", "buildable", "again"} :
             CASE why = "required"  -> q = 1 /\ e \in fired.required
               [] why = "canQuery"  -> Queues[q] = "Fetch" /\ e \in fired.canQuery
               [] why = "buildable" -> Queues[q] = "Build" /\ e \in fired.buildable
               [] why = "again"     -> <<q, e>> \in {}}
<1>1. Arrivals(fired, {})[q][e] = Cardinality(Reasons)
  BY DEF Arrivals
<1>2. Reasons # {}
  <2>1. "required" \in Reasons \/ "canQuery" \in Reasons \/ "buildable" \in Reasons
    OBVIOUS
  <2> QED  BY <2>1
<1>3. IsFiniteSet(Reasons)
  <2>1. IsFiniteSet({"required", "canQuery", "buildable", "again"})
    BY ReasonsAreFinite
  <2>2. Reasons \subseteq {"required", "canQuery", "buildable", "again"}
    OBVIOUS
  <2> HIDE DEF Reasons
  <2> QED  BY <2>1, <2>2, FS_Subset
<1> HIDE DEF Reasons
<1> QED  BY <1>1, <1>2, <1>3, FS_EmptySet

\* An element is somewhere: it has a job or a place in a queue, or waits to be called back.
Here(e) ==
  \/ ~NoJob(e)
  \/ e \in requiredCallback
  \/ \E q \in QueueId : Landed(q, e)

LEMMA JobDoneLands ==
  ASSUME JobInv, NEW j \in jobs, NEW reaction, reaction # "retry", JobDone(j, FALSE, reaction),
         NEW e \in Element
  PROVE  /\ e = j.elem => doneQueue'[j.queue][e] # 0
         /\ \A q \in QueueId : /\ Landed(q, e) => Landed(q, e)'
                               /\ readyQueue[q][e] # 0 => readyQueue'[q][e] # 0
         /\ e \in requiredCallback =>
              \/ e \in requiredCallback'
              \/ Landed(1, e)' /\ (Ready(1, e)' => readyQueue'[1][e] # 0)
<1> DEFINE done == [doneQueue EXCEPT ![j.queue][j.elem] = @ + 1]
           fired == Fired(j)
           arrivals == Arrivals(fired, {})
<1>1. j.queue \in QueueId /\ j.elem \in Element /\ 1 \in QueueId
  BY QueuesInOrder DEF JobInv, JobsTyped, JobRecord
<1>2. arrivals \in Counts /\ doneQueue \in Counts
  BY ArrivalsTyped DEF JobInv, SessionTyped
<1>3. /\ Enqueue(arrivals, done, fired)
      /\ requiredCallback' = requiredCallback \ fired.required
  BY DEF JobDone
<1>4. /\ done \in Counts
      /\ e = j.elem => done[j.queue][e] # 0
      /\ \A q \in QueueId : doneQueue[q][e] # 0 => done[q][e] # 0
  <2>1. doneQueue \in [QueueId -> [Element -> Nat]]
    BY <1>2 DEF Counts, Heap
  <2>2. done = [doneQueue EXCEPT ![j.queue] = [doneQueue[j.queue] EXCEPT ![j.elem] = @ + 1]]
    OBVIOUS
  <2>3. /\ [doneQueue[j.queue] EXCEPT ![j.elem] = @ + 1] \in [Element -> Nat]
        /\ [doneQueue[j.queue] EXCEPT ![j.elem] = @ + 1][j.elem] = doneQueue[j.queue][j.elem] + 1
        /\ e # j.elem => [doneQueue[j.queue] EXCEPT ![j.elem] = @ + 1][e] = doneQueue[j.queue][e]
    BY <1>1, <2>1
  <2>4. doneQueue[j.queue][j.elem] \in Nat
    BY <1>1, <2>1
  <2> HIDE DEF done
  <2>5. done \in [QueueId -> [Element -> Nat]]
    BY <2>1, <2>2, <2>3
  <2>6. done[j.queue] = [doneQueue[j.queue] EXCEPT ![j.elem] = @ + 1]
        /\ \A q \in QueueId : q # j.queue => done[q] = doneQueue[q]
    BY <1>1, <2>1, <2>2
  <2>7. done[j.queue][j.elem] # 0 /\ (e # j.elem => done[j.queue][e] = doneQueue[j.queue][e])
    BY <2>3, <2>4, <2>6
  <2> QED  BY <2>5, <2>6, <2>7 DEF Counts, Heap
<1>5. ASSUME NEW q \in QueueId,
             \/ q = 1 /\ e \in fired.required
             \/ Queues[q] = "Fetch" /\ e \in fired.canQuery
             \/ Queues[q] = "Build" /\ e \in fired.buildable
      PROVE  arrivals[q][e] # 0
  <2> HIDE DEF fired
  <2> QED  BY <1>5, FiredArrives
<1> HIDE DEF done, fired, arrivals
<1>6. /\ \A q \in QueueId :
           /\ readyQueue[q][e] # 0 => readyQueue'[q][e] # 0
           /\ done[q][e] # 0 => doneQueue'[q][e] # 0
           /\ arrivals[q][e] # 0 => Landed(q, e)'
           /\ arrivals[q][e] # 0 /\ Ready(q, e)' => readyQueue'[q][e] # 0
      /\ e \in canQueryCallback => e \in canQueryCallback' \/ e \in fired.canQuery
      /\ e \in buildableCallback => e \in buildableCallback' \/ e \in fired.buildable
  BY <1>2, <1>3, <1>4, EnqueueKeeps
<1>7. ASSUME NEW q \in QueueId, Landed(q, e) PROVE Landed(q, e)'
  BY <1>4, <1>5, <1>6, <1>7 DEF Landed
<1> QED  BY <1>1, <1>3, <1>4, <1>5, <1>6, <1>7

\* What a queue has of an element it keeps, or starts a job for.
LEMMA QueuedStays ==
  ASSUME JobInv, QueueJobs, NEW q \in QueueId, NEW e \in Element, Queued[q][e] # 0
  PROVE  \/ readyQueue'[q][e] # 0
         \/ \E j \in jobs' : j.queue = q /\ j.elem = e /\ j.st = "start"
<1> SUFFICES ASSUME readyQueue'[q][e] = 0
             PROVE  \E j \in jobs' : j.queue = q /\ j.elem = e /\ j.st = "start"
  OBVIOUS
<1> DEFINE mine == {c \in PoppedOf(q) : c[1] = e}
           job(c) == [queue |-> q, elem |-> c[1], copy |-> Latest(q, c[1]) + c[2],
                      st |-> "start", stop |-> "no"]
<1>1. readyQueue'[q][e] = Queued[q][e] - Cardinality(mine)
  BY QueueJobsDoes
<1>2. Queued[q][e] \in Nat
  BY QueueJobsTake
<1>3. mine # {}
  <2> HIDE DEF mine
  <2>1. Cardinality(mine) # 0
    <3>1. CASE Cardinality(mine) = 0
      BY <1>1, <1>2, <3>1
    <3> QED  BY <3>1
  <2> QED  BY <2>1, FS_EmptySet
<1>4. PICK c \in PoppedOf(q) : c[1] = e
  BY <1>3
<1>5. New(q) = {job(d) : d \in PoppedOf(q)}
  BY DEF New, JobsOf, Latest
<1>6. job(c) \in jobs'
  BY <1>5, QueueJobsKeeps
<1>7. job(c).queue = q /\ job(c).elem = e /\ job(c).st = "start"
  BY <1>4
<1> HIDE DEF job
<1> QED  BY <1>6, <1>7

LEMMA QueueJobsKeepsReady ==
  ASSUME JobInv, QueueJobs, NEW q \in QueueId, NEW e \in Element, readyQueue[q][e] # 0
  PROVE  \/ readyQueue'[q][e] # 0
         \/ \E j \in jobs' : j.queue = q /\ j.elem = e /\ j.st = "start"
<1>1. Queued[q][e] # 0
  <2>1. readyQueue[q][e] \in Nat /\ Arrived[q][e] \in Nat
    BY QueuedAndPopped DEF JobInv, SessionTyped, Counts, Heap
  <2>2. Queued[q][e] = readyQueue[q][e] + (IF Ready(q, e) THEN Arrived[q][e] ELSE 0)
    BY DEF Queued
  <2> QED  BY <2>1, <2>2
<1> QED  BY <1>1, QueuedStays

\* What has passed the build is a success.
Passed(e) ==
  \/ \E q \in QueueId : /\ Queues[q] = "Push"
                        /\ readyQueue[q][e] # 0 \/ doneQueue[q][e] # 0
  \/ \E q \in QueueId : Queues[q] = "Build" /\ doneQueue[q][e] # 0
  \/ \E j \in jobs : InQueue(j, "Push") /\ j.elem = e

LEMMA PendingStays ==
  ASSUME UNCHANGED elementVars
  PROVE  \A q \in QueueId, e \in Element : Pending(q, e)' <=> Pending(q, e)
BY DEF Pending, NothingToBuild, CachedSuccess, Successful, Buildable, FetchNeeded,
       elementVars, artifactVars, sourceVars, cascadeVars

\* What is done in a queue comes to rest in a later one, unless it has passed them all.
LEMMA ComesToRest ==
  ASSUME JobInv, QueueJobs, UNCHANGED elementVars, NEW e \in Element, Passed(e) => CachedSuccess(e),
         NEW p \in QueueId, doneQueue[p][e] # 0
  PROVE  CachedSuccess(e) \/ Here(e)'
<1> SUFFICES ASSUME ~CachedSuccess(e), ~Here(e)'
             PROVE  FALSE
  OBVIOUS
<1> DEFINE N == Len(Queues)
<1>1. N \in Nat /\ QueueId = 1..N /\ \A q \in QueueId : Queues[q] \in {"Pull", "Fetch", "Build", "Push"}
  BY QueuesTyped
<1>2. PICK b \in QueueId : Queues[b] = "Build"
  BY QueuesAssumption DEF Range, QueueId
<1> DEFINE T == {i \in 0..N : i >= p => Leaving[i][e] # 0 /\ i < b}
<1>3. \A q \in QueueId : /\ Leaving[q - 1][e] \in Nat /\ doneQueue[q][e] \in Nat
                         /\ Leaving[q][e] = doneQueue[q][e] +
                              (IF Skipped(q, e) THEN Leaving[q - 1][e] ELSE 0)
  <2>1. doneQueue \in Counts
    BY DEF JobInv, SessionTyped
  <2> QED  BY <2>1, LeavingTyped DEF Counts, Heap
<1>4. ASSUME NEW q \in QueueId, Leaving[q - 1][e] # 0 PROVE Skipped(q, e)
  <2>1. Arrived[q][e] # 0 /\ Arrived[q][e] > 0
    BY <1>3, <1>4 DEF Arrived
  <2>2. CASE Ready(q, e)
    <3>1. Queued[q][e] = readyQueue[q][e] + Arrived[q][e] /\ readyQueue[q][e] \in Nat
          /\ Arrived[q][e] \in Nat
      BY <2>2, QueuedAndPopped DEF Queued, JobInv, SessionTyped, Counts, Heap
    <3>2. Queued[q][e] # 0
      BY <2>1, <3>1
    <3> QED  BY <3>2, QueuedStays DEF Here, Landed, NoJob
  <2>3. CASE Pending(q, e)
    <3>1. Queues[q] \in {"Fetch", "Build"} /\ Pending(q, e)'
      BY <2>3, PendingStays DEF Pending
    <3>2. e \in Registered(Queues[q], Arrived)
      BY <2>1, <3>1 DEF Registered
    <3> QED  BY <3>1, <3>2, QueueJobsDoes DEF Here, Landed
  <2> QED  BY <2>2, <2>3 DEF Ready
<1>5. p < b
  <2>1. p # b
    BY <1>2 DEF Passed
  <2>2. ~(b < p)
    BY <1>2, AfterBuild DEF Passed
  <2> QED  BY <1>1, <2>1, <2>2
<1> HIDE DEF N
<1>6. 0 \in T
  BY <1>1
<1>7. ASSUME NEW i \in 0..(N - 1), i \in T PROVE i + 1 \in T
  <2>1. i + 1 \in QueueId /\ (i + 1) - 1 = i /\ i + 1 \in 0..N
    BY <1>1
  <2>2. CASE i + 1 = p
    <3>1. Leaving[i + 1][e] # 0
      BY <1>3, <2>1, <2>2
    <3> QED  BY <1>5, <2>1, <2>2, <3>1
  <2>3. CASE i + 1 > p
    <3>1. Leaving[i][e] # 0 /\ i < b
      BY <1>1, <1>7, <2>3
    <3>2. Skipped(i + 1, e)
      BY <1>4, <2>1, <3>1
    <3>3. Leaving[i + 1][e] # 0
      BY <1>3, <2>1, <3>1, <3>2
    <3>4. i + 1 # b
      BY <1>2, <3>2 DEF Skipped, NothingToBuild
    <3> QED  BY <1>1, <2>1, <3>1, <3>3, <3>4
  <2>4. CASE i + 1 < p
    BY <1>1, <2>1, <2>4
  <2> QED  BY <1>1, <2>2, <2>3, <2>4
<1>8. \A i \in 0..N : i \in T
  <2> HIDE DEF T
  <2> QED  BY <1>1, <1>6, <1>7, Climb
<1>9. N \in T
  BY <1>1, <1>8
<1> QED  BY <1>1, <1>9

LEMMA QueueJobsHere ==
  ASSUME JobInv, QueueJobs, UNCHANGED <<elementVars, requiredCallback>>,
         NEW e \in Element, Passed(e) => CachedSuccess(e), Here(e)
  PROVE  CachedSuccess(e) \/ Here(e)'
<1>1. CASE ~NoJob(e)
  BY <1>1, QueueJobsKeeps DEF NoJob, Here
<1>2. CASE e \in requiredCallback
  BY <1>2 DEF Here
<1>3. CASE \E q \in QueueId : readyQueue[q][e] # 0
  BY <1>3, QueueJobsKeepsReady DEF Here, Landed, NoJob
<1>4. CASE \E q \in QueueId : doneQueue[q][e] # 0
  BY <1>4, ComesToRest
<1>5. CASE \E q \in QueueId : \/ Queues[q] = "Fetch" /\ e \in canQueryCallback
                              \/ Queues[q] = "Build" /\ e \in buildableCallback
  BY <1>5, QueueJobsDoes DEF Here, Landed
<1> QED  BY <1>1, <1>2, <1>3, <1>4, <1>5 DEF Here, Landed
-----------------------------------------------------------------------------
(* A session in which nothing failed and that nobody terminated. *)

Clean == ~terminated /\ \A q \in QueueId, e \in Element : failedTasks[q][e] = 0

PullJob(e) == \E j \in jobs : j.elem = e /\ InQueue(j, "Pull")
PullStarts(e) == \E j \in jobs : j.elem = e /\ InQueue(j, "Pull") /\ j.st = "start"

\* Why a required element is or will be there.
Accounted(e) ==
  \/ e \in assembleScheduled \/ CachedSuccess(e) \/ e \in pullPending \/ PullJob(e)
  \/ Querying /\ ~(Depth(e) < position)

ToBePulled(e) == e \in requiredCallback \/ PullWaits(e) \/ PullStarts(e)

CleanInv ==
  /\ pullPending # {} => HasFetchRemotes
  /\ \A j \in jobs : InQueue(j, "Fetch") =>
       j.st # "skip" /\ (j.st = "ok" => j.elem \in sourcesCached)
  /\ Clean =>
       /\ \A e \in required : Accounted(e)
       /\ ~Querying => \A e \in pullPending : ToBePulled(e)
       /\ ~Querying => \A e \in Element : Here(e) \/ CachedSuccess(e)
       /\ \A e \in Element : Passed(e) => CachedSuccess(e)
       /\ \A e \in Element : e \in buildableCallback \/ FetchOver(e) => HasSources(e)

LEMMA CleanInit == Init => CleanInv
<1> SUFFICES ASSUME Init PROVE CleanInv
  OBVIOUS
<1>1. /\ Querying /\ position = 1 /\ jobs = {} /\ pullPending = {} /\ buildableCallback = {}
      /\ required \subseteq Element
      /\ \A q \in QueueId, e \in Element : readyQueue[q][e] = 0 /\ doneQueue[q][e] = 0
  BY TypedInit DEF Init, ElementInit, Querying, NoArrivals, Nothing, ElementTyped, FlagsTyped
<1>2. \A e \in Element : ~(Depth(e) < position)
  BY <1>1, DepthIs
<1> QED  BY <1>1, <1>2 DEF CleanInv, Accounted, Passed, FetchOver

\* While the caches are queried nothing is on its way.
LEMMA QueryingIsClean ==
  ASSUME PlaceInv, Querying
  PROVE  /\ jobs = {} /\ requiredCallback = {} /\ buildableCallback = {}
         /\ \A q \in QueueId, e \in Element : readyQueue[q][e] = 0 /\ doneQueue[q][e] = 0
BY DEF PlaceInv, QueryEmpty, Querying, NoArrivals, Nothing

LEMMA QueryClean ==
  ASSUME JobInv, PlaceInv, ElementTyped, StoredInv, CleanInv, QueryArtifact
  PROVE  CleanInv'
<1>1. PICK x \in Element : position \in 1..Len(Plan) /\ x = Plan[position]
  BY PlanAssumption DEF QueryArtifact, JobInv, SessionTyped
<1>2. /\ phase = "query" /\ phase' = "queried" /\ position' = position
      /\ LoadArtifact(x) /\ UNCHANGED <<cascadeVars, sourceVars, queueVars, jobs, flagVars>>
  BY <1>1 DEF QueryArtifact, JobInv, SessionTyped
<1>3. /\ jobs = {} /\ buildableCallback = {}
      /\ \A q \in QueueId, e \in Element : readyQueue[q][e] = 0 /\ doneQueue[q][e] = 0
  BY <1>2, QueryingIsClean DEF Querying
<1>4. Depth(x) = position
  BY <1>1, DepthIs
<1>5. /\ pullPending \subseteq pullPending' /\ (pullPending' # pullPending => HasFetchRemotes)
      /\ \A e \in Element : e # x => artifact'[e] = artifact[e] /\ buildResult'[e] = buildResult[e]
  BY <1>2 DEF LoadArtifact, ElementTyped, ArtifactsTyped
<1>6. required \subseteq Element
  BY DEF ElementTyped, FlagsTyped
<1>7. ASSUME Clean', NEW e \in required' PROVE Accounted(e)'
  <2>1. Clean /\ e \in required /\ e \in Element
    BY <1>2, <1>6, <1>7 DEF Clean, flagVars, queueVars, cascadeVars
  <2>2. Querying' /\ position \in Nat
    BY <1>2 DEF Querying, JobInv, SessionTyped
  <2>3. CASE e = x
    BY <1>2, <1>4, <2>2, <2>3 DEF Accounted
  <2>4. CASE e # x
    <3>1. CachedSuccess(e)' <=> CachedSuccess(e)
      BY <1>2, <1>5, <2>1, <2>4 DEF CachedSuccess, Successful, cascadeVars
    <3>2. ~PullJob(e)
      BY <1>3 DEF PullJob
    <3> QED  BY <1>2, <1>5, <2>1, <2>2, <3>1, <3>2 DEF CleanInv, Accounted, Querying, cascadeVars
  <2> QED  BY <2>3, <2>4
<1> QED
  BY <1>2, <1>3, <1>5, <1>7 DEF CleanInv, Querying, Passed, FetchOver, queueVars, callbackVars

\* What a handler requires it schedules, unless there is a reason not to.
LEMMA LoadDoneAccounts ==
  ASSUME RequireInv, NEW e \in Element, LoadArtifactDone(e),
         NEW x \in required', x = e \/ x \notin required
  PROVE  \/ x \in assembleScheduled' \/ x \in pullPending \/ CachedSuccess(x)
         \/ artifact[x] = "none"
<1> DEFINE scheduled == {y \in {e} \cap required : Assemblable(y)}
           roots == UNION {BuildDeps[y] : y \in scheduled}
           nowRequired == NewlyRequired(roots)
           nowScheduled == scheduled \cup {y \in nowRequired : Assemblable(y)}
<1>1. /\ required' = required \cup nowRequired
      /\ assembleScheduled' = assembleScheduled \cup nowScheduled
  BY DEF LoadArtifactDone
<1>2. x \in {e} \cap required \/ x \in nowRequired
  BY <1>1
<1>3. Assemblable(x) => x \in nowScheduled
  <2> HIDE DEF nowRequired
  <2> QED  BY <1>2
<1> HIDE DEF nowScheduled
<1> QED  BY <1>1, <1>3 DEF Assemblable, RequireInv

LEMMA QueryDoneClean ==
  ASSUME JobInv, PlaceInv, ElementTyped, ElementTyped', StoredInv, RequireInv, CleanInv,
         QueryArtifactDone
  PROVE  CleanInv'
<1>1. PICK x \in Element : position \in 1..Len(Plan) /\ x = Plan[position]
  BY PlanAssumption DEF QueryArtifactDone, JobInv, SessionTyped
<1>2. /\ phase = "queried" /\ phase' = "query" /\ position' = position + 1
      /\ IF x \in pullPending THEN UNCHANGED cascadeVars ELSE LoadArtifactDone(x)
      /\ UNCHANGED <<artifactVars, sourceVars, queueVars, jobs, flagVars>>
  BY <1>1 DEF QueryArtifactDone
<1>3. /\ jobs = {} /\ buildableCallback = {}
      /\ \A q \in QueueId, e \in Element : readyQueue[q][e] = 0 /\ doneQueue[q][e] = 0
  BY <1>2, QueryingIsClean DEF Querying
<1>4. position \in Nat /\ Depth(x) = position /\ required' \subseteq Element
      /\ \A e \in Element : Depth(e) \in Nat /\ (Depth(e) = position => e = x)
  BY <1>1, DepthIs DEF JobInv, SessionTyped, ElementTyped, FlagsTyped
<1>5. ASSUME Clean', NEW e \in required' PROVE Accounted(e)'
  <2>1. Clean /\ Querying /\ Querying'
    BY <1>2, <1>5 DEF Clean, Querying, flagVars, queueVars
  <2>2. e \in Element /\ (CachedSuccess(e) => CachedSuccess(e)')
    <3>1. CASE LoadArtifactDone(x)
      BY <1>2, <1>4, <3>1, LoadDoneSuccess DEF artifactVars
    <3>2. CASE UNCHANGED cascadeVars
      BY <1>2, <1>4, <3>2 DEF cascadeVars, artifactVars, CachedSuccess, Successful
    <3> QED  BY <1>2, <1>4, <3>1, <3>2
  <2>3. CASE e # x /\ e \in required
    <3>1. Accounted(e) /\ ~PullJob(e)
      BY <1>3, <2>1, <2>3 DEF CleanInv, PullJob
    <3>2. assembleScheduled \subseteq assembleScheduled'
      BY <1>2 DEF cascadeVars, LoadArtifactDone
    <3>3. ~(Depth(e) < position) => ~(Depth(e) < position')
      BY <1>2, <1>4, <2>2, <2>3
    <3> QED  BY <1>2, <2>1, <2>2, <3>1, <3>2, <3>3 DEF Accounted, artifactVars
  <2>4. CASE e = x /\ x \in pullPending
    BY <1>2, <2>4 DEF Accounted, artifactVars
  <2>5. CASE (e = x \/ e \notin required) /\ LoadArtifactDone(x)
    <3>1. e \in assembleScheduled' \/ e \in pullPending \/ CachedSuccess(e) \/ artifact[e] = "none"
      BY <2>5, LoadDoneAccounts
    <3>2. CASE artifact[e] = "none"
      <4>1. ~Queried(e)
        BY <2>1, <2>2, <3>2 DEF StoredInv, Settled, Missing, Failed, Succeeded
      <4>2. ~(Depth(e) < position')
        BY <1>2, <1>4, <2>2, <4>1 DEF Queried
      <4> QED  BY <2>1, <4>2 DEF Accounted
    <3> QED  BY <1>2, <2>2, <3>1, <3>2 DEF Accounted, artifactVars
  <2>6. CASE e \notin required /\ UNCHANGED cascadeVars
    BY <1>5, <2>6 DEF cascadeVars
  <2> QED  BY <1>2, <2>3, <2>4, <2>5, <2>6
<1> QED
  BY <1>2, <1>3, <1>5
     DEF CleanInv, Querying, Passed, FetchOver, queueVars, callbackVars, artifactVars

LEMMA EnqueuePlanClean ==
  ASSUME JobInv, PlaceInv, ElementTyped, CleanInv, EnqueuePlan
  PROVE  CleanInv'
<1> DEFINE arrivals == [NoArrivals EXCEPT ![1] = Once(required)]
<1>1. /\ phase = "query" /\ phase' = "run" /\ position > Len(Plan) /\ position' = position
      /\ requiredCallback' = Element \ required /\ Enqueue(arrivals, doneQueue, NoneFired)
      /\ UNCHANGED <<elementVars, failedTasks, jobs, flagVars>>
  BY DEF EnqueuePlan
<1>2. QueryEmpty /\ Querying /\ ~Querying'
  BY <1>1 DEF PlaceInv, Querying
<1>3. jobs = {} /\ jobs' = {}
  BY <1>1, <1>2, QueryingIsClean
<1>4. \A e \in Element : /\ CachedSuccess(e)' <=> CachedSuccess(e)
                         /\ HasSources(e)' <=> HasSources(e)
  BY <1>1, SameSuccess DEF HasSources, elementVars, sourceVars
<1>5. required \subseteq Element /\ position \in Nat /\ UNCHANGED <<required, pullPending>>
  BY <1>1 DEF ElementTyped, FlagsTyped, JobInv, SessionTyped, elementVars, cascadeVars, artifactVars
<1>6. \A e \in Element : ~(~(Depth(e) < position))
  BY <1>1, <1>5, DepthIs, PlanAssumption
<1>7. arrivals \in Counts /\ doneQueue \in Counts /\ 1 \in QueueId
      /\ \A e \in required : arrivals[1][e] # 0
  <2>1. 1 \in QueueId
    BY QueuesInOrder
  <2>2. NoArrivals \in [QueueId -> Heap] /\ Once(required) \in Heap
    BY NoArrivalsTyped, OnceTyped DEF Counts
  <2>3. arrivals \in Counts /\ arrivals[1] = Once(required)
    BY <2>1, <2>2 DEF Counts
  <2>4. \A e \in required : Once(required)[e] = 1
    BY <1>5 DEF Once
  <2>5. \A e \in required : arrivals[1][e] = 1
    BY <2>3, <2>4
  <2> HIDE DEF arrivals
  <2> QED  BY <2>1, <2>3, <2>5 DEF JobInv, SessionTyped
<1> HIDE DEF arrivals
<1>8. ASSUME NEW e \in required
      PROVE  Landed(1, e)' /\ (Ready(1, e)' => readyQueue'[1][e] # 0)
  <2>1. e \in Element
    BY <1>5
  <2> QED  BY <1>1, <1>7, <2>1, EnqueueKeeps
<1>9. ASSUME Clean', NEW e \in required PROVE Accounted(e)'
  <2>1. Accounted(e) /\ e \in Element
    BY <1>1, <1>5, <1>9 DEF CleanInv, Clean, flagVars
  <2> QED
    BY <1>1, <1>3, <1>4, <1>6, <2>1
       DEF Accounted, PullJob, elementVars, cascadeVars, artifactVars
<1>10. ASSUME NEW e \in pullPending, pullPending \subseteq Element PROVE ToBePulled(e)'
  <2>1. CASE e \in required
    <3>1. Queues[1] = "Pull"
      <4>1. PICK q \in QueueId : Queues[q] = "Pull"
        BY <1>10, QueuesAssumption DEF CleanInv, Range, QueueId
      <4> QED  BY <4>1, QueuesInOrder
    <3>2. Ready(1, e)'
      BY <1>5, <3>1 DEF Ready, Pending, Skipped
    <3>3. readyQueue'[1][e] # 0
      BY <1>8, <2>1, <3>2
    <3> QED  BY <1>7, <3>1, <3>3 DEF ToBePulled, PullWaits
  <2>2. CASE e \notin required
    BY <1>1, <1>10, <2>2 DEF ToBePulled
  <2> QED  BY <2>1, <2>2
<1>11. ASSUME NEW e \in Element PROVE Here(e)'
  BY <1>1, <1>7, <1>8 DEF Here
<1>12. ASSUME NEW e \in Element
       PROVE  /\ ~Passed(e)' /\ e \notin buildableCallback'
              /\ FetchOver(e)' => HasSources(e)'
  BY <1>2, <1>3, EnqueuePlanFlow, QueuesInOrder, FetchSkipsNext DEF Passed, FetchOver, FetchSkips
<1>13. pullPending \subseteq Element
  BY DEF ElementTyped, ArtifactsTyped
<1> QED
  BY <1>2, <1>3, <1>5, <1>9, <1>10, <1>11, <1>12, <1>13 DEF CleanInv

\* What flows to the push has come by the build, and what flows to the build by the fetch.
LEMMA FlowedIsPast ==
  ASSUME NEW q \in QueueId, NEW e \in Element, Passed(e) => CachedSuccess(e),
         FetchOver(e) => HasSources(e), Flowed(q, e)
  PROVE  /\ Queues[q] = "Push" => CachedSuccess(e)
         /\ Queues[q] = "Build" => HasSources(e)
<1>1. PICK p \in 1..(q - 1) : /\ doneQueue[p][e] # 0
                              /\ \A r \in (p + 1)..(q - 1) : Skipped(r, e)
  BY DEF Flowed
<1>2. p \in QueueId /\ p < q /\ QueueId \subseteq Nat
  BY QueuesTyped
<1>3. PICK b \in QueueId : Queues[b] = "Build"
  BY QueuesAssumption DEF Range, QueueId
<1>4. PICK f \in QueueId : Queues[f] = "Fetch"
  BY QueuesInOrder
<1>5. CASE Queues[q] = "Push"
  <2>1. b < q
    BY <1>2, <1>3, <1>5, QueuesInOrder
  <2>2. CASE p < b
    <3>1. b \in (p + 1)..(q - 1)
      BY <1>2, <2>1, <2>2
    <3> QED  BY <1>1, <1>3, <1>5, <3>1 DEF Skipped, NothingToBuild
  <2>3. CASE p = b
    BY <1>1, <1>3, <1>5, <2>3 DEF Passed
  <2>4. CASE b < p
    <3>1. Queues[p] = "Push"
      BY <1>2, <1>3, <2>4, AfterBuild
    <3> QED  BY <1>1, <1>2, <1>5, <3>1 DEF Passed
  <2> QED  BY <1>2, <2>2, <2>3, <2>4
<1>6. CASE Queues[q] = "Build"
  <2>1. CASE Queues[p] = "Fetch"
    BY <1>1, <1>2, <1>6, <2>1 DEF FetchOver
  <2>2. CASE Queues[p] = "Pull"
    <3>1. p = 1 /\ f < q /\ f # p
      BY <1>2, <1>4, <1>6, <2>2, QueuesInOrder
    <3>2. f \in (p + 1)..(q - 1)
      BY <3>1, QueuesTyped
    <3>3. Skipped(f, e)
      BY <1>1, <3>2
    <3>4. HasSources(e)
      BY <1>4, <3>3, FetchSkipsNow DEF FetchSkips
    <3> QED  BY <1>6, <3>4
  <2>3. Queues[p] \in {"Pull", "Fetch"}
    BY <1>2, <1>6, QueuesInOrder
  <2> QED  BY <2>1, <2>2, <2>3
<1> QED  BY <1>5, <1>6

LEMMA RealScheduleClean ==
  ASSUME JobInv, PlaceInv, ElementTyped, CleanInv, RealSchedule
  PROVE  CleanInv'
<1>1. /\ ~Querying /\ ~Querying'
      /\ UNCHANGED <<elementVars, requiredCallback, failedTasks, flagVars>>
      /\ \/ QueueJobs
         \/ terminated
  BY DEF RealSchedule, Querying
<1>2. /\ \A e \in Element : CachedSuccess(e)' <=> CachedSuccess(e)
      /\ \A e \in Element : HasSources(e)' <=> HasSources(e)
      /\ UNCHANGED <<required, assembleScheduled, pullPending, sourcesCached>>
  BY <1>1, SameSuccess DEF HasSources, elementVars, sourceVars, cascadeVars, artifactVars
<1>3. CASE terminated
  <2>1. ~Clean' /\ UNCHANGED jobs
    BY <1>1, <1>3 DEF Clean, flagVars, RealSchedule
  <2> QED  BY <1>2, <2>1 DEF CleanInv, InQueue
<1>4. CASE QueueJobs /\ ~terminated
  <2>1. jobs \subseteq jobs'
    BY <1>4, QueueJobsKeeps
  <2>2. \A e \in Element : Single(e)
    BY DEF PlaceInv
  <2>3. ASSUME NEW k \in jobs', InQueue(k, "Fetch")
        PROVE  k.st # "skip" /\ (k.st = "ok" => k.elem \in sourcesCached')
    <3>1. k.elem \in Element
      BY <1>4, QueueJobsKeeps DEF JobsTyped, JobRecord
    <3>2. k \in jobs \/ k.st = "start"
      BY <1>1, <1>4, <2>2, <3>1, QueueJobsFlow
    <3> QED  BY <1>2, <2>3, <3>2 DEF CleanInv
  <2> SUFFICES ASSUME Clean
               PROVE  /\ \A e \in required' : Accounted(e)'
                      /\ \A e \in pullPending' : ToBePulled(e)'
                      /\ \A e \in Element : Here(e)' \/ CachedSuccess(e)'
                      /\ \A e \in Element : Passed(e)' => CachedSuccess(e)'
                      /\ \A e \in Element : e \in buildableCallback' \/ FetchOver(e)' => HasSources(e)'
    BY <1>1, <1>2, <2>3 DEF CleanInv, Clean, flagVars, InQueue
  <2>4. ASSUME NEW e \in required' PROVE Accounted(e)'
    <3>1. e \in Element /\ Accounted(e)
      BY <1>2, <2>4 DEF CleanInv, ElementTyped, FlagsTyped
    <3> QED  BY <1>1, <1>2, <2>1, <3>1 DEF Accounted, PullJob, InQueue
  <2>5. ASSUME NEW e \in pullPending' PROVE ToBePulled(e)'
    <3>1. e \in Element /\ ToBePulled(e)
      BY <1>1, <1>2, <2>5 DEF CleanInv, ElementTyped, ArtifactsTyped
    <3>2. PullStarts(e) => PullStarts(e)'
      BY <2>1 DEF PullStarts, InQueue
    <3>3. PullWaits(e) => PullWaits(e)' \/ PullStarts(e)'
      BY <1>4, <3>1, QueueJobsKeepsReady DEF PullWaits, PullStarts, InQueue
    <3> QED  BY <1>1, <3>1, <3>2, <3>3 DEF ToBePulled
  <2>6. ASSUME NEW e \in Element PROVE Here(e)' \/ CachedSuccess(e)'
    BY <1>1, <1>2, <1>4, QueueJobsHere DEF CleanInv
  <2>7. ASSUME NEW e \in Element PROVE Passed(e)' => CachedSuccess(e)'
    <3>1. /\ \A q \in QueueId : doneQueue'[q][e] = 0
          /\ \A q \in QueueId :
               readyQueue'[q][e] # 0 => readyQueue[q][e] # 0 \/ Flowed(q, e)
          /\ \A k \in jobs' : k.elem = e =>
               \/ k \in jobs
               \/ /\ k.queue \in QueueId
                  /\ readyQueue[k.queue][e] # 0 \/ Flowed(k.queue, e)
      BY <1>1, <1>4, <2>2, QueueJobsFlow DEF NoneOf
    <3>2. \A q \in QueueId : Queues[q] = "Push" /\ Flowed(q, e) => CachedSuccess(e)
      BY FlowedIsPast DEF CleanInv
    <3>3. Passed(e)' => Passed(e) \/ CachedSuccess(e)
      BY <3>1, <3>2 DEF Passed, InQueue
    <3> QED  BY <1>2, <3>3 DEF CleanInv
  <2>8. ASSUME NEW e \in Element
        PROVE  e \in buildableCallback' \/ FetchOver(e)' => HasSources(e)'
    <3>1. /\ \A q \in QueueId : doneQueue'[q][e] = 0
          /\ e \in buildableCallback' =>
              \/ e \in buildableCallback
              \/ \E q \in QueueId : Queues[q] = "Build" /\ Flowed(q, e)
      BY <1>1, <1>4, <2>2, QueueJobsFlow DEF NoneOf
    <3>2. \A q \in QueueId : Queues[q] = "Build" /\ Flowed(q, e) => HasSources(e)
      BY FlowedIsPast DEF CleanInv
    <3> QED  BY <1>2, <3>1, <3>2 DEF CleanInv, FetchOver
  <2> QED  BY <2>4, <2>5, <2>6, <2>7, <2>8
<1> QED  BY <1>1, <1>3, <1>4

\* Only the start of a pull takes an element off those that are to be pulled.
LEMMA ThreadPulls ==
  ASSUME NEW j \in jobs, ThreadStep(j)
  PROVE  /\ ~InQueue(j, "Pull") => pullPending' = pullPending
         /\ InQueue(j, "Pull") /\ j.st = "start" /\ j.stop # "unnoticed"
              => pullPending' = pullPending \ {j.elem}
         /\ pullPending' \subseteq pullPending /\ pullPending \ {j.elem} \subseteq pullPending'
BY DEF ThreadStep, Begin, PullBegins, PullStep, PullEnds, FetchStep, Assemble, CacheArtifact,
       PushStep, Terminate, Over, elementVars, artifactVars, InQueue

LEMMA ThreadClean ==
  ASSUME JobInv, PlaceInv, ElementTyped, TermInv, StoredInv, CleanInv, NEW j \in jobs, ThreadStep(j)
  PROVE  CleanInv'
<1>1. PICK st \in JobState \ {"start"} :
        jobs' = (jobs \ {j}) \cup {[j EXCEPT !.st = st]} /\ Moves(j, st)
  BY ThreadMoves
<1>2. UNCHANGED <<mainVars, cascadeVars>> /\ sourcesCached \subseteq sourcesCached'
  BY ThreadMoves
<1>3. j \in JobRecord
  BY DEF JobInv, JobsTyped
<1> DEFINE k == [j EXCEPT !.st = st]
<1>4. k.queue = j.queue /\ k.elem = j.elem /\ k.st = st
  BY <1>3 DEF JobRecord
<1>5. jobs' = (jobs \ {j}) \cup {k}
  BY <1>1
<1> HIDE DEF k
<1>6. /\ ~Querying /\ ~Querying'
      /\ UNCHANGED <<required, assembleScheduled, position, queueVars, terminated>>
  BY <1>2 DEF ThreadStep, Querying, mainVars, cascadeVars, flagVars
<1>7. \A e \in Element : CachedSuccess(e) => CachedSuccess(e)'
  BY ThreadKeepsSuccess
<1>8. ASSUME NEW l \in jobs', InQueue(l, "Fetch")
      PROVE  l.st # "skip" /\ (l.st = "ok" => l.elem \in sourcesCached')
  BY <1>1, <1>2, <1>4, <1>5, <1>8 DEF CleanInv, Moves, InQueue
<1>9. pullPending' # {} => HasFetchRemotes
  BY ThreadPulls DEF CleanInv
<1> SUFFICES ASSUME Clean
             PROVE  /\ \A e \in required' : Accounted(e)'
                    /\ \A e \in pullPending' : ToBePulled(e)'
                    /\ \A e \in Element : Here(e)' \/ CachedSuccess(e)'
                    /\ \A e \in Element : Passed(e)' => CachedSuccess(e)'
                    /\ \A e \in Element : e \in buildableCallback' \/ FetchOver(e)' => HasSources(e)'
  BY <1>6, <1>8, <1>9 DEF CleanInv, Clean, InQueue, queueVars
<1>10. ASSUME NEW e \in required' PROVE Accounted(e)'
  <2>1. e \in Element /\ Accounted(e)
    BY <1>6, <1>10 DEF CleanInv, ElementTyped, FlagsTyped
  <2>2. PullJob(e) => PullJob(e)'
    BY <1>4, <1>5 DEF PullJob, InQueue
  <2>3. e \in pullPending => e \in pullPending' \/ PullJob(e)'
    BY <1>4, <1>5, ThreadPulls DEF PullJob, InQueue
  <2> QED  BY <1>6, <1>7, <2>1, <2>2, <2>3 DEF Accounted
<1>11. ASSUME NEW e \in pullPending' PROVE ToBePulled(e)'
  <2>1. e \in pullPending /\ ToBePulled(e)
    BY <1>6, <1>11, ThreadPulls DEF CleanInv
  <2>2. j.stop # "unnoticed"
    BY DEF Clean, TermInv
  <2>3. ~(j.elem = e /\ InQueue(j, "Pull") /\ j.st = "start")
    BY <1>11, <2>2, ThreadPulls
  <2>4. PullStarts(e) => PullStarts(e)'
    BY <1>5, <2>3 DEF PullStarts, InQueue
  <2> QED  BY <1>6, <2>1, <2>4 DEF ToBePulled, PullWaits, queueVars, callbackVars
<1>12. ASSUME NEW e \in Element PROVE Here(e)' \/ CachedSuccess(e)'
  <2>1. ~NoJob(e) => ~NoJob(e)'
    BY <1>4, <1>5 DEF NoJob
  <2>2. Here(e) \/ CachedSuccess(e)
    BY <1>6 DEF CleanInv
  <2> QED  BY <1>6, <1>7, <2>1, <2>2 DEF Here, Landed, queueVars, callbackVars
<1>13. ASSUME NEW e \in Element, Passed(e)' PROVE CachedSuccess(e)'
  <2>1. Passed(e)
    BY <1>4, <1>5, <1>6, <1>13 DEF Passed, InQueue, queueVars
  <2> QED  BY <1>7, <2>1 DEF CleanInv
<1>14. ASSUME NEW e \in Element, e \in buildableCallback' \/ FetchOver(e)' PROVE HasSources(e)'
  <2>1. HasSources(e)
    BY <1>6, <1>14 DEF CleanInv, FetchOver, queueVars, callbackVars
  <2> QED  BY <1>2, <1>7, <2>1 DEF HasSources
<1> QED  BY <1>10, <1>11, <1>12, <1>13, <1>14

\* If nothing failed up to the end of a job and with it, the job has not failed.
LEMMA CleanEnd ==
  ASSUME JobInv, TermInv, NEW j \in jobs, NEW raised \in BOOLEAN, NEW reaction,
         reaction # "retry", JobDone(j, raised, reaction), Clean'
  PROVE  Clean /\ raised = FALSE /\ j.st \in {"ok", "skip"}
<1> DEFINE failed == raised \/ (j.st \in {"fail", "term"} /\ j.stop # "yes")
           tasks == failedTasks[j.queue][j.elem] + (IF failed THEN 1 ELSE 0)
<1>1. /\ j.queue \in QueueId /\ j.elem \in Element /\ j.st \in Over
      /\ failedTasks \in [QueueId -> [Element -> Nat]]
  BY DEF JobInv, JobsTyped, JobRecord, SessionTyped, Counts, Heap, JobDone
<1>2. /\ failedTasks' = [failedTasks EXCEPT ![j.queue] = [@ EXCEPT ![j.elem] = tasks]]
      /\ terminated => terminated'
  BY DEF JobDone
<1>3. tasks = 0
  <2>1. failedTasks'[j.queue][j.elem] = tasks
    <3> HIDE DEF tasks
    <3> QED  BY <1>1, <1>2
  <2> QED  BY <1>1, <2>1 DEF Clean
<1>4. ~failed /\ failedTasks[j.queue][j.elem] = 0
  <2>1. failedTasks[j.queue][j.elem] \in Nat
    BY <1>1
  <2> QED  BY <1>3, <2>1
<1> HIDE DEF tasks, failed
<1>5. ~terminated
  BY <1>2 DEF Clean
<1>6. ASSUME NEW q \in QueueId, NEW e \in Element PROVE failedTasks[q][e] = 0
  <2>1. CASE q = j.queue /\ e = j.elem
    BY <1>4, <2>1
  <2>2. CASE q # j.queue \/ e # j.elem
    <3>1. failedTasks'[q][e] = failedTasks[q][e]
      BY <1>1, <1>2, <2>2
    <3> QED  BY <3>1 DEF Clean
  <2> QED  BY <2>1, <2>2
<1>7. j.stop = "no"
  BY <1>5 DEF TermInv
<1> QED  BY <1>1, <1>4, <1>5, <1>6, <1>7 DEF Clean, failed, Over

LEMMA JobDoneClean ==
  ASSUME JobInv, PlaceInv, NeedInv, ElementTyped, ElementTyped', TermInv, StoredInv, RequireInv,
         CleanInv, NEW j \in jobs, NEW raised \in BOOLEAN, NEW reaction, reaction # "retry",
         JobDone(j, raised, reaction)
  PROVE  CleanInv'
<1>1. /\ j.elem \in Element /\ j.queue \in QueueId /\ Idle(j.elem)
      /\ j.elem \notin requiredCallback /\ \A k \in jobs : k.elem = j.elem => k = j
  BY HasJob
<1>2. /\ jobs' = jobs \ {j} /\ ~Querying /\ ~Querying' /\ j.st \in Over
  BY DEF JobDone, Querying
<1>3. /\ UNCHANGED <<stored, buildResult, pullPending>> /\ sourcesCached \subseteq sourcesCached'
  BY <1>1, JobDoneTouches
<1>4. \A e \in Element : CachedSuccess(e) => CachedSuccess(e)'
  BY JobDoneKeepsSuccess
<1>5. \A e \in Element : HasSources(e) => HasSources(e)'
  BY <1>3, <1>4 DEF HasSources
<1>6. ASSUME NEW k \in jobs', InQueue(k, "Fetch")
      PROVE  k.st # "skip" /\ (k.st = "ok" => k.elem \in sourcesCached')
  BY <1>2, <1>3, <1>6 DEF CleanInv
<1> SUFFICES ASSUME Clean'
             PROVE  /\ \A e \in required' : Accounted(e)'
                    /\ \A e \in pullPending' : ToBePulled(e)'
                    /\ \A e \in Element : Here(e)' \/ CachedSuccess(e)'
                    /\ \A e \in Element : Passed(e)' => CachedSuccess(e)'
                    /\ \A e \in Element : e \in buildableCallback' \/ FetchOver(e)' => HasSources(e)'
  BY <1>2, <1>3, <1>6 DEF CleanInv, InQueue
<1>7. Clean /\ raised = FALSE /\ j.st \in {"ok", "skip"}
  BY CleanEnd
<1>8. \/ /\ InQueue(j, "Pull") /\ LoadArtifactDone(j.elem)
         /\ UNCHANGED <<artifactVars, sourceVars>>
      \/ InQueue(j, "Build") /\ AssembleDone(j.elem, j.st = "ok")
      \/ ~InQueue(j, "Pull") /\ ~InQueue(j, "Build") /\ UNCHANGED <<artifactVars, cascadeVars>>
  BY <1>7, FinishIs DEF Announces
<1>9. ASSUME NEW e \in Element
      PROVE  /\ e = j.elem => doneQueue'[j.queue][e] # 0
             /\ \A q \in QueueId : /\ Landed(q, e) => Landed(q, e)'
                                   /\ readyQueue[q][e] # 0 => readyQueue'[q][e] # 0
             /\ e \in requiredCallback =>
                  \/ e \in requiredCallback'
                  \/ Landed(1, e)' /\ (Ready(1, e)' => readyQueue'[1][e] # 0)
  BY <1>7, JobDoneLands
<1>10. ASSUME NEW e \in required' PROVE Accounted(e)'
  <2>1. e \in Element
    BY <1>10 DEF ElementTyped, FlagsTyped
  <2>2. assembleScheduled \subseteq assembleScheduled'
    BY <1>8 DEF LoadArtifactDone, AssembleDone, cascadeVars
  <2>3. CASE e \in required /\ ~(e = j.elem /\ InQueue(j, "Pull"))
    <3>1. PullJob(e) => PullJob(e)'
      BY <1>2, <2>3 DEF PullJob, InQueue
    <3>2. Accounted(e)
      BY <1>7, <2>3 DEF CleanInv
    <3> QED  BY <1>2, <1>3, <1>4, <2>1, <2>2, <3>1, <3>2 DEF Accounted
  <2>4. CASE e \notin required \/ (e = j.elem /\ InQueue(j, "Pull"))
    <3>1. LoadArtifactDone(j.elem)
      BY <1>8, <1>10, <2>4 DEF AssembleDone, cascadeVars, InQueue
    <3>2. e = j.elem \/ e \notin required
      BY <2>4
    <3>3. e \in assembleScheduled' \/ e \in pullPending \/ CachedSuccess(e) \/ artifact[e] = "none"
      BY <1>1, <1>10, <3>1, <3>2, LoadDoneAccounts
    <3>4. NoBuild(e)
      <4>1. CASE e \notin required
        BY <2>1, <4>1 DEF NeedInv, Unplaced, NoJob, NoBuild
      <4>2. CASE e = j.elem /\ InQueue(j, "Pull")
        BY <1>1, <4>2 DEF NoBuild, InQueue
      <4> QED  BY <2>4, <4>1, <4>2
    <3>5. artifact[e] # "none"
      BY <1>2, <2>1, <3>4 DEF StoredInv, Settled, Missing, Failed, Succeeded
    <3> QED  BY <1>3, <1>4, <2>1, <3>3, <3>5 DEF Accounted
  <2> QED  BY <2>3, <2>4
<1>11. ASSUME NEW e \in pullPending' PROVE ToBePulled(e)'
  <2>1. e \in Element /\ e \in pullPending /\ ToBePulled(e)
    BY <1>2, <1>3, <1>7, <1>11 DEF CleanInv, ElementTyped, ArtifactsTyped
  <2>2. Queues[1] = "Pull" /\ 1 \in QueueId
    <3>1. PICK q \in QueueId : Queues[q] = "Pull"
      BY <2>1, QueuesAssumption DEF CleanInv, Range, QueueId
    <3> QED  BY <3>1, QueuesInOrder
  <2>3. CASE e \in requiredCallback
    <3>1. Ready(1, e)'
      BY <1>11, <2>2 DEF Ready, Pending, Skipped
    <3> QED  BY <1>9, <2>1, <2>2, <2>3, <3>1 DEF ToBePulled, PullWaits
  <2>4. CASE PullWaits(e)
    BY <1>9, <2>1, <2>4 DEF ToBePulled, PullWaits
  <2>5. CASE PullStarts(e)
    BY <1>2, <2>5 DEF ToBePulled, PullStarts, InQueue, Over
  <2> QED  BY <2>1, <2>3, <2>4, <2>5 DEF ToBePulled
<1>12. ASSUME NEW e \in Element PROVE Here(e)' \/ CachedSuccess(e)'
  <2>1. Here(e) \/ CachedSuccess(e)
    BY <1>2, <1>7 DEF CleanInv
  <2>2. CASE e = j.elem
    BY <1>1, <1>9, <2>2 DEF Here, Landed
  <2>3. CASE ~NoJob(e) /\ e # j.elem
    BY <1>2, <2>3 DEF Here, NoJob
  <2>4. CASE e \in requiredCallback
    <3>1. 1 \in QueueId
      BY QueuesInOrder
    <3> QED  BY <1>9, <2>4, <3>1 DEF Here
  <2>5. CASE \E q \in QueueId : Landed(q, e)
    BY <1>9, <2>5 DEF Here
  <2> QED  BY <1>4, <2>1, <2>2, <2>3, <2>4, <2>5 DEF Here
<1>13. ASSUME NEW q \in QueueId, NEW e \in Element
       PROVE  /\ Came(q, e) => Queues[q] # "Push"
              /\ Came(q, e) /\ Queues[q] = "Build" => e \in buildableCallback
  BY QueuesInOrder DEF Came
<1>14. ASSUME NEW e \in Element
       PROVE  /\ \A q \in QueueId :
                   /\ readyQueue'[q][e] # 0 => readyQueue[q][e] # 0 \/ Came(q, e)
                   /\ doneQueue'[q][e] # 0 => \/ doneQueue[q][e] # 0
                                              \/ Skipped(q, e)' /\ Came(q, e)
                                              \/ q = j.queue /\ e = j.elem
              /\ e \in buildableCallback' =>
                   \/ e \in buildableCallback
                   \/ \E q \in QueueId : Queues[q] = "Build" /\ Came(q, e)
  BY JobDoneFlow
<1>15. ASSUME NEW e \in Element, Passed(e)' PROVE CachedSuccess(e)'
  <2>1. CASE Passed(e)
    BY <1>4, <1>7, <2>1 DEF CleanInv
  <2>2. CASE \E q \in QueueId : Queues[q] = "Push" /\ readyQueue'[q][e] # 0
    BY <1>13, <1>14, <2>1, <2>2 DEF Passed
  <2>3. CASE \E q \in QueueId : Queues[q] = "Push" /\ doneQueue'[q][e] # 0
    BY <1>13, <1>14, <2>1, <2>3 DEF Passed, InQueue
  <2>4. CASE \E q \in QueueId : Queues[q] = "Build" /\ doneQueue'[q][e] # 0
    <3>1. PICK q \in QueueId : Queues[q] = "Build" /\ doneQueue'[q][e] # 0
      BY <2>4
    <3>2. CASE doneQueue[q][e] # 0
      BY <2>1, <3>1, <3>2 DEF Passed
    <3>3. CASE Skipped(q, e)'
      BY <3>1, <3>3 DEF Skipped, NothingToBuild
    <3>4. CASE q = j.queue /\ e = j.elem
      <4>1. InQueue(j, "Build")
        BY <3>1, <3>4 DEF InQueue
      <4>2. j.st = "ok"
        BY <1>7, <4>1 DEF StoredInv, BuildAt
      <4>3. AssembleDone(j.elem, TRUE)
        BY <1>8, <4>1, <4>2 DEF InQueue
      <4>4. e \in cachedSuccessfully'
        BY <3>4, <4>3 DEF AssembleDone, Notify
      <4> QED  BY <4>4 DEF CachedSuccess, Successful
    <3> QED  BY <1>14, <3>1, <3>2, <3>3, <3>4
  <2>5. CASE \E k \in jobs' : InQueue(k, "Push")' /\ k.elem = e
    BY <1>2, <2>1, <2>5 DEF Passed, InQueue
  <2> QED  BY <1>15, <2>2, <2>3, <2>4, <2>5 DEF Passed, InQueue
<1>16. ASSUME NEW e \in Element, e \in buildableCallback' \/ FetchOver(e)' PROVE HasSources(e)'
  <2>1. CASE e \in buildableCallback \/ FetchOver(e)
    BY <1>5, <1>7, <2>1 DEF CleanInv
  <2>2. CASE e \in buildableCallback'
    BY <1>13, <1>14, <2>1, <2>2
  <2>3. CASE FetchOver(e)'
    <3>1. PICK q \in QueueId : Queues[q] = "Fetch" /\ doneQueue'[q][e] # 0
      BY <2>3 DEF FetchOver
    <3>2. CASE doneQueue[q][e] # 0
      BY <2>1, <3>1, <3>2 DEF FetchOver
    <3>3. CASE Skipped(q, e)'
      BY <3>1, <3>3, FetchSkipsNext DEF FetchSkips
    <3>4. CASE q = j.queue /\ e = j.elem
      <4>1. j.elem \in sourcesCached
        BY <1>7, <3>1, <3>4 DEF CleanInv, InQueue
      <4> QED  BY <1>3, <3>4, <4>1 DEF HasSources
    <3> QED  BY <1>14, <3>1, <3>2, <3>3, <3>4
  <2> QED  BY <1>16, <2>2, <2>3
<1> QED  BY <1>10, <1>11, <1>12, <1>15, <1>16

LEMMA QuietClean ==
  ASSUME JobInv, ElementTyped, CleanInv, Quiet
  PROVE  CleanInv'
<1>1. /\ UNCHANGED <<elementVars, phase, position, queueVars>>
      /\ terminated => terminated'
      /\ \A k \in jobs' : \E l \in jobs : Alike(k, l)
      /\ \A l \in jobs : \E k \in jobs' : Alike(k, l)
  BY QuietKeeps
<1>2. /\ \A e \in Element : CachedSuccess(e)' <=> CachedSuccess(e)
      /\ \A e \in Element : HasSources(e)' <=> HasSources(e)
      /\ UNCHANGED <<required, assembleScheduled, pullPending, sourcesCached>>
  BY <1>1, SameSuccess DEF HasSources, elementVars, sourceVars, cascadeVars, artifactVars
<1>3. /\ Clean' => Clean
      /\ Querying' <=> Querying
      /\ UNCHANGED <<readyQueue, doneQueue, requiredCallback, canQueryCallback, buildableCallback>>
  BY <1>1 DEF Clean, Querying, queueVars, callbackVars
<1>4. \A k, l : Alike(k, l) => \A name : InQueue(k, name)' <=> InQueue(l, name)
  BY DEF Alike, InQueue
<1>5. \A e : /\ PullJob(e) => PullJob(e)'
             /\ PullStarts(e) => PullStarts(e)'
             /\ ~NoJob(e) => ~NoJob(e)'
  BY <1>1, <1>4 DEF PullJob, PullStarts, NoJob, Alike
<1>6. \A e : /\ Accounted(e) /\ (CachedSuccess(e) => CachedSuccess(e)') => Accounted(e)'
             /\ ToBePulled(e) => ToBePulled(e)'
             /\ Here(e) => Here(e)'
  BY <1>1, <1>2, <1>3, <1>5 DEF Accounted, ToBePulled, PullWaits, Here, Landed
<1>7. \A e : (Passed(e)' => Passed(e)) /\ (FetchOver(e)' => FetchOver(e))
  BY <1>1, <1>3, <1>4 DEF Passed, FetchOver, Alike
<1>8. ASSUME NEW k \in jobs', InQueue(k, "Fetch")
      PROVE  k.st # "skip" /\ (k.st = "ok" => k.elem \in sourcesCached')
  BY <1>1, <1>2, <1>8 DEF CleanInv, Alike, InQueue
<1>9. required \subseteq Element
  BY DEF ElementTyped, FlagsTyped
<1>10. CASE Clean'
  <2>1. Clean
    BY <1>3, <1>10
  <2>2. \A e \in required' : Accounted(e)'
    BY <1>2, <1>6, <1>9, <2>1 DEF CleanInv
  <2>3. ~Querying' => /\ \A e \in pullPending' : ToBePulled(e)'
                      /\ \A e \in Element : Here(e)' \/ CachedSuccess(e)'
    BY <1>2, <1>3, <1>6, <2>1 DEF CleanInv
  <2>4. \A e \in Element :
          /\ Passed(e)' => CachedSuccess(e)'
          /\ e \in buildableCallback' \/ FetchOver(e)' => HasSources(e)'
    BY <1>2, <1>3, <1>7, <2>1 DEF CleanInv
  <2> QED  BY <1>2, <1>8, <2>2, <2>3, <2>4 DEF CleanInv, InQueue
<1>11. CASE ~Clean'
  BY <1>2, <1>8, <1>11 DEF CleanInv, InQueue
<1> QED  BY <1>10, <1>11

LEMMA CleanNext ==
  ASSUME "retry" \notin OnFailure, JobInv, PlaceInv, NeedInv, ElementTyped, ElementTyped', TermInv,
         StoredInv, RequireInv, CleanInv, [Next]_vars
  PROVE  CleanInv'
<1>1. CASE \E j \in jobs, raised \in BOOLEAN, reaction \in OnFailure \cup {"none"} :
             JobDone(j, raised, reaction)
  BY <1>1, JobDoneClean
<1>2. CASE \E j \in jobs : ThreadStep(j)
  BY <1>2, ThreadClean
<1>3. CASE Quiet
  BY <1>3, QuietClean
<1> QED
  BY <1>1, <1>2, <1>3, QueryClean, QueryDoneClean, EnqueuePlanClean, RealScheduleClean
     DEF Next, MainStep, Quiet

LEMMA SpecClean ==
  ASSUME Strict, ~RetryFailed, "retry" \notin OnFailure, TargetsClosed
  PROVE  Spec => []CleanInv
<1>1. JobInv /\ PlaceInv /\ NeedInv /\ ElementTyped /\ ElementTyped' /\ TermInv /\ StoredInv
        /\ RequireInv /\ CleanInv /\ [Next]_vars => CleanInv'
  BY CleanNext
<1> QED
  BY <1>1, CleanInit, SpecJobInv, SpecPlaceInv, SpecNeedInv, SpecTyped, SpecTerm, SpecStored,
     SpecRequire, PTL DEF Spec

-----------------------------------------------------------------------------
(* A session that says it succeeded. *)

\* In strict mode every key is known.
KeysKnown == Element \subseteq cacheKey

LEMMA SpecKeys ==
  ASSUME Strict
  PROVE  Spec => []KeysKnown
<1>1. Init => KeysKnown
  BY DEF Init, ElementInit, KeysKnown
<1>2. KeysKnown /\ [Next]_vars => KeysKnown'
  <2> SUFFICES ASSUME KeysKnown, [Next]_vars PROVE KeysKnown'
    OBVIOUS
  <2>1. cacheKey \subseteq cacheKey'
    <3>1. CASE UNCHANGED cascadeVars
      BY <3>1 DEF cascadeVars
    <3>2. \A e : LoadArtifactDone(e) => cacheKey \subseteq cacheKey'
      <4> SUFFICES ASSUME NEW e, LoadArtifactDone(e) PROVE cacheKey \subseteq cacheKey'
        OBVIOUS
      <4>1. PICK keys, S, T : /\ keys = cacheKey \/ keys = KeysUpdated(cacheKey, {e})
                              /\ cacheKey' = KeysUpdated(KeysUpdated(keys, S), T)
        BY DEF LoadArtifactDone
      <4> QED  BY <4>1, KeysAreKept
    <3>3. \A e, successful : AssembleDone(e, successful) => cacheKey \subseteq cacheKey'
      BY KeysAreKept DEF AssembleDone
    <3>4. ASSUME NEW j \in jobs, NEW raised \in BOOLEAN, NEW reaction, JobDone(j, raised, reaction)
          PROVE  cacheKey \subseteq cacheKey'
      BY <3>1, <3>2, <3>3, <3>4, FinishIs DEF cascadeVars
    <3>5. CASE QueryArtifactDone
      BY <3>1, <3>2, <3>5 DEF QueryArtifactDone
    <3>6. CASE \E j \in jobs : ThreadStep(j)
      BY <3>1, <3>6
         DEF ThreadStep, Begin, PullStep, FetchStep, Assemble, CacheArtifact, PushStep, Terminate,
             elementVars
    <3>7. CASE QueryArtifact \/ EnqueuePlan \/ RealSchedule \/ TerminateJobs \/ Environment
                 \/ Stopped \/ UNCHANGED vars
      BY <3>1, <3>7
         DEF QueryArtifact, EnqueuePlan, RealSchedule, TerminateJobs, Environment, Quit,
             TerminateStream, TerminateScheduler, Stopped, loopVars, vars, elementVars
    <3> QED  BY <3>4, <3>5, <3>6, <3>7 DEF Next, MainStep
  <2> QED  BY <2>1 DEF KeysKnown
<1> QED  BY <1>1, <1>2, PTL DEF Spec

\* A set of elements is empty if it has, with an element, another one that is ranked lower.
LEMMA NoneIsLowest ==
  ASSUME NEW rank \in [Element -> Nat], NEW S \in SUBSET Element,
         \A e \in S : \E d \in S : rank[d] < rank[e]
  PROVE  S = {}
<1> SUFFICES ASSUME S # {} PROVE FALSE
  OBVIOUS
<1> DEFINE ranks == {rank[e] : e \in S}
<1>1. ranks \in SUBSET Nat /\ ranks # {}
  OBVIOUS
<1>2. PICK n \in ranks : \A m \in ranks : n <= m
  <2> HIDE DEF ranks
  <2> QED  BY <1>1, Least
<1>3. PICK e \in S : rank[e] = n
  BY <1>2
<1>4. PICK d \in S : rank[d] < rank[e]
  BY <1>3
<1>5. rank[d] \in ranks /\ rank[d] \in Nat /\ rank[e] \in Nat
  OBVIOUS
<1> HIDE DEF ranks
<1> QED  BY <1>2, <1>3, <1>4, <1>5

Ended == phase = "stopped" /\ Status = "SUCCESS" /\ queueJobs

LEMMA EndedIs ==
  ASSUME JobInv, StopInv, Ended
  PROVE  /\ Clean /\ ~Querying /\ jobs = {} /\ NothingQueued
BY DEF Ended, Status, Clean, JobInv, SessionTyped, Counts, Heap, Querying, StopInv

\* Then what is required and successful, with all that it needs at runtime, is ready.
LEMMA SuccessIsReady ==
  ASSUME JobInv, Inv, StopInv, RequireInv, KeysKnown, CompleteInv, Ended,
         NEW rank \in [Element -> Nat],
         \A e \in Element : \A d \in BuildDeps[e] \cup RuntimeDeps[e] : rank[d] < rank[e],
         NEW x \in Element,
         \A d \in required : rank[d] < rank[x] => CachedSuccess(d)
  PROVE  \A d \in required \cap Element : IsDep(d) /\ rank[d] < rank[x] => d \in ready
<1> DEFINE S == {d \in required \cap Element : IsDep(d) /\ rank[d] < rank[x] /\ d \notin ready}
<1>1. Clean /\ ~Querying /\ jobs = {}
  BY EndedIs
<1>2. \A e \in Element : rank[e] \in Nat
  OBVIOUS
<1>3. ASSUME NEW d \in S PROVE \E c \in S : rank[c] < rank[d]
  <2>1. d \in cacheKey /\ CachedSuccess(d) /\ ~Announced(d)
    BY <1>1 DEF KeysKnown, Announced
  <2>2. runtimeDepsUncached[d] # 0
    BY <1>1, <2>1 DEF CompleteInv, Complete
  <2>3. RuntimeDeps[d] \ ready # {}
    BY <2>2, FS_EmptySet DEF Inv, Readiness, CountersExact
  <2>4. PICK c \in RuntimeDeps[d] : c \notin ready
    BY <2>3
  <2>5. c \in Element /\ IsDep(c) /\ rank[c] < rank[d]
    BY <2>4, FiniteDeps DEF IsDep
  <2>6. c \in required
    BY <2>4 DEF RequireInv
  <2>7. rank[c] < rank[x]
    BY <1>2, <2>5
  <2> QED  BY <2>4, <2>5, <2>6, <2>7
<1>4. S = {}
  <2> HIDE DEF S
  <2>1. S \in SUBSET Element
    BY DEF S
  <2> QED  BY <1>3, <2>1, NoneIsLowest
<1> QED  BY <1>4

LEMMA EndIsSuccess ==
  ASSUME JobInv, Inv, ElementTyped, WakeInv, StoredInv, StopInv, RequireInv, KeysKnown,
         CompleteInv, CleanInv, Ended
  PROVE  \A e \in required : CachedSuccess(e)
<1>1. /\ Clean /\ ~Querying /\ jobs = {}
      /\ \A q \in QueueId, e \in Element : readyQueue[q][e] = 0 /\ doneQueue[q][e] = 0
  BY EndedIs DEF NothingQueued, NoneOf
<1>2. required \subseteq Element
  BY DEF ElementTyped, FlagsTyped
<1>3. PICK rank \in [Element -> Nat] :
        \A e \in Element : \A d \in BuildDeps[e] \cup RuntimeDeps[e] : rank[d] < rank[e]
  <2>1. Cardinality(Element) \in Nat
    BY ElementAssumption, FS_CardinalityType
  <2>2. [Element -> 0..Cardinality(Element)] \subseteq [Element -> Nat]
    BY <2>1
  <2> QED  BY <2>2, AcyclicAssumption
<1>4. \A e \in Element : rank[e] \in Nat
  OBVIOUS
<1> DEFINE S == {e \in required : ~CachedSuccess(e)}
<1>5. ASSUME NEW x \in Element, x \in S, \A d \in S : ~(rank[d] < rank[x]) PROVE FALSE
  <2>1. \A d \in required : rank[d] < rank[x] => CachedSuccess(d)
    BY <1>5
  <2>2. \A d \in required \cap Element : IsDep(d) /\ rank[d] < rank[x] => d \in ready
    BY <1>3, <2>1, SuccessIsReady
  <2>3. CASE x \in pullPending
    <3>1. ToBePulled(x)
      BY <1>1, <2>3 DEF CleanInv
    <3> QED  BY <1>1, <1>5, <3>1 DEF ToBePulled, PullWaits, PullStarts, WakeInv
  <2>4. CASE x \in assembleScheduled
    <3>1. BuildDeps[x] \subseteq ready
      <4>1. \A d \in BuildDeps[x] : d \in required /\ d \in Element /\ IsDep(d) /\ rank[d] < rank[x]
        BY <1>2, <1>3, <2>4 DEF RequireInv, IsDep
      <4> QED  BY <2>2, <4>1
    <3>2. buildDepsUncached[x] = 0
      <4>1. BuildDeps[x] \ ready = {}
        BY <3>1
      <4> QED  BY <4>1, FS_EmptySet DEF Inv, Readiness, CountersExact
    <3>3. artifact[x] # "none"
      BY <1>1 DEF StoredInv, NoBuild, Settled, Missing, Failed, Succeeded
    <3>4. x \in buildableCallback
      <4>1. Here(x)
        BY <1>1, <1>5 DEF CleanInv
      <4>2. NoJob(x) /\ x \notin requiredCallback /\ x \notin canQueryCallback
        BY <1>1, <1>5, <3>3 DEF NoJob, WakeInv
      <4> QED  BY <1>1, <4>1, <4>2 DEF Here, Landed
    <3>5. ~FetchNeeded(x)
      BY <1>1, <1>5, <3>4 DEF CleanInv, HasSources, FetchNeeded
    <3> QED  BY <2>4, <3>2, <3>4, <3>5 DEF WakeInv, Buildable
  <2>5. Accounted(x)
    BY <1>1, <1>5 DEF CleanInv
  <2> QED  BY <1>1, <1>5, <2>3, <2>4, <2>5 DEF Accounted, PullJob
<1>6. S = {}
  <2>1. ASSUME NEW x \in S PROVE \E d \in S : rank[d] < rank[x]
    BY <1>2, <1>5, <2>1
  <2>2. S \in SUBSET Element
    BY <1>2
  <2> HIDE DEF S
  <2> QED  BY <2>1, <2>2, NoneIsLowest
<1> QED  BY <1>6

\* In strict mode, when failed builds are kept and not retried, and no target is required
\* without what it needs at runtime although another element needs it: a session that says it
\* succeeded, and that the user did not quit, has built or found all that was required.
THEOREM SuccessIsBuilt ==
  ASSUME Strict, ~RetryFailed, "retry" \notin OnFailure, TargetsClosed
  PROVE  Spec => []SuccessMeansBuilt
<1>1. ASSUME JobInv, Inv, ElementTyped, WakeInv, StoredInv, StopInv, RequireInv, KeysKnown,
             CompleteInv, CleanInv
      PROVE  SuccessMeansBuilt
  <2> SUFFICES ASSUME Ended, NEW e \in required
               PROVE  CachedSuccess(e) /\ stored[e] = "success"
    BY DEF SuccessMeansBuilt, Ended
  <2>1. CachedSuccess(e) /\ e \in Element
    BY <1>1, EndIsSuccess DEF ElementTyped, FlagsTyped
  <2>2. Settled(e)
    BY <1>1, <2>1, EndedIs DEF StoredInv, NoBuild
  <2> QED  BY <2>1, <2>2 DEF Settled, Missing, Failed, Succeeded, CachedSuccess, Successful
<1>2. JobInv /\ Inv /\ PlaceInv /\ NeedInv /\ ElementTyped /\ WakeInv /\ [Next]_vars => WakeInv'
  BY WakeInvNext
<1> QED
  BY <1>1, <1>2, WakeInvInit, SpecJobInv, SpecInv, SpecPlaceInv, SpecNeedInv, SpecTyped, SpecStored,
     SpecStop, SpecRequire, SpecKeys, SpecComplete, SpecClean, PTL DEF Spec

-----------------------------------------------------------------------------
(* The key of what is built is known. *)

\* The plan comes in the order that the loader leaves the elements in: what an element
\* needs is looked up before it.
PlanInOrder == \A e \in Element : \A d \in BuildDeps[e] \cup RuntimeDeps[e] : Depth(d) < Depth(e)

KeyInv ==
  /\ Querying =>
       /\ jobs = {} /\ assembleDone = {} /\ pullPending = {}
       /\ assembleScheduled \subseteq required
       /\ \A e \in cachedSuccessfully : artifact[e] = "cached"
       /\ \A e \in assembleScheduled : Depth(e) < position
       /\ \A e \in Element :
            /\ ~Queried(e) => artifact[e] = "none"
            /\ Queried(e) => artifact[e] # "none"
            /\ Depth(e) < position /\ artifact[e] = "cached" => e \in cacheKey
  /\ ~Querying => position > Len(Plan)
  /\ \A e \in required : Depth(e) < position => e \in cacheKey

LEMMA KeyInit == Init => KeyInv
<1> SUFFICES ASSUME Init PROVE KeyInv
  OBVIOUS
<1>1. /\ phase = "query" /\ position = 1 /\ jobs = {} /\ required \subseteq Element
      /\ assembleDone = {} /\ pullPending = {} /\ assembleScheduled = {} /\ cachedSuccessfully = {}
      /\ artifact = [e \in Element |-> "none"]
  BY TypedInit DEF Init, ElementInit, ElementTyped, FlagsTyped
<1>2. \A e \in Element : ~(Depth(e) < position) /\ ~Queried(e)
  BY <1>1, DepthIs DEF Queried
<1> QED  BY <1>1, <1>2 DEF KeyInv, Querying

\* What an element is built on comes before it in the plan, and is required with what the
\* element needs to be built.
LEMMA ScopeComesFirst ==
  ASSUME PlanInOrder, NEW e \in Element
  PROVE  \A d \in BuildScope[e] : d \in Element /\ Depth(d) < Depth(e)
<1> DEFINE first == {d \in Element : Depth(d) < Depth(e)}
<1>1. \A d \in Element : Depth(d) \in Nat
  BY DepthIsPlace
<1>2. BuildDeps[e] \subseteq first
  BY FiniteDeps DEF PlanInOrder
<1>3. ClosedUnder(RuntimeDeps, first)
  <2> SUFFICES ASSUME NEW d \in first, NEW c \in RuntimeDeps[d] PROVE c \in first
    BY DEF ClosedUnder
  <2>1. c \in Element /\ Depth(c) < Depth(d)
    BY FiniteDeps DEF PlanInOrder
  <2> QED  BY <1>1, <2>1
<1> QED  BY <1>2, <1>3 DEF BuildScope, Reach

LEMMA ScopeIsRequired ==
  ASSUME RequireInv', required' \subseteq Element, NEW e \in Element, BuildDeps[e] \subseteq required'
  PROVE  BuildScope[e] \subseteq required'
<1> DEFINE needed == {d \in required' : IsDep(d)}
<1>1. BuildDeps[e] \subseteq needed
  BY DEF IsDep
<1>2. ClosedUnder(RuntimeDeps, needed)
  BY DEF ClosedUnder, RequireInv, IsDep
<1>3. needed \in SUBSET Element
  OBVIOUS
<1> QED  BY <1>1, <1>2, <1>3 DEF BuildScope, Reach

\* Elements get their keys together if each is built on what has its key already and on
\* others of them that come before it.
LEMMA KeysSpread ==
  ASSUME pullPending = {}, NEW keys, NEW S \in SUBSET Element,
         \A x \in S : \/ artifact[x] = "cached"
                      \/ \A d \in BuildScope[x] : d \in keys \/ (d \in S /\ Depth(d) < Depth(x))
  PROVE  S \subseteq KeysUpdated(keys, S)
<1> SUFFICES ASSUME NEW K \in SUBSET Element, keys \subseteq K,
                    \A x \in S : artifact[x] = "cached" \/ BuildScope[x] \subseteq K => x \in K
             PROVE  S \subseteq K
  BY DEF KeysUpdated
<1> DEFINE left == S \ K
           rank == [e \in Element |-> Depth(e)]
<1>1. ASSUME NEW x \in left PROVE \E d \in left : rank[d] < rank[x]
  BY <1>1
<1>2. rank \in [Element -> Nat]
  BY DepthIsPlace
<1>3. left \in SUBSET Element
  OBVIOUS
<1>4. left = {}
  <2> HIDE DEF left, rank
  <2> QED  BY <1>1, <1>2, <1>3, NoneIsLowest
<1> QED  BY <1>4

\* Looking up an element leaves no required one up to it without its key.
LEMMA LoadDoneKeys ==
  ASSUME PlanInOrder, JobInv, ElementTyped, ElementTyped', RequireInv, KeyInv,
         phase = "queried", NEW x \in Element, Depth(x) = position, LoadArtifactDone(x)
  PROVE  /\ \A e \in Element : Depth(e) <= position /\ artifact[e] = "cached" => e \in cacheKey'
         /\ \A e \in required' : Depth(e) <= position => e \in cacheKey'
         /\ \A e \in assembleScheduled' : e \in required' /\ Depth(e) <= position
<1> DEFINE keys == IF artifact[x] = "cached" THEN KeysUpdated(cacheKey, {x}) ELSE cacheKey
           nowReady == NewlyReady(x, keys, Successful(artifact))
           woken == KeysUpdated(keys, Woken(nowReady))
           scheduled == {y \in {x} \cap required : Assemblable(y)}
           nowRequired == NewlyRequired(UNION {BuildDeps[y] : y \in scheduled})
           nowScheduled == scheduled \cup {y \in nowRequired : Assemblable(y)}
<1>1. /\ required' = required \cup nowRequired
      /\ assembleScheduled' = assembleScheduled \cup nowScheduled
      /\ cacheKey' = KeysUpdated(woken, nowScheduled)
  BY DEF LoadArtifactDone
<1>2. /\ Querying /\ pullPending = {} /\ assembleDone = {} /\ position \in Nat
      /\ \A e \in Element : Depth(e) \in Nat /\ (Queried(e) <=> Depth(e) <= position)
      /\ required' \subseteq Element /\ cachedSuccessfully \subseteq Element
  <2>1. position \in Nat /\ \A e \in Element : Depth(e) \in Nat
    BY DepthIsPlace DEF JobInv, SessionTyped
  <2>2. \A e \in Element : Queried(e) <=> Depth(e) <= position
    BY <2>1 DEF Queried
  <2> QED  BY <2>1, <2>2 DEF KeyInv, Querying, ElementTyped, FlagsTyped
<1>3. cacheKey \subseteq woken /\ woken \subseteq cacheKey' /\ (artifact[x] = "cached" => x \in woken)
  <2>1. cacheKey \subseteq keys /\ keys \subseteq woken /\ woken \subseteq cacheKey'
    BY <1>1, KeysAreKept
  <2>2. artifact[x] = "cached" => x \in keys
    BY <1>2, KeysSpread
  <2> QED  BY <2>1, <2>2
<1>4. ASSUME NEW e \in Element, Depth(e) <= position, artifact[e] = "cached" PROVE e \in woken
  <2>1. CASE e = x
    BY <1>3, <1>4, <2>1
  <2>2. CASE e # x
    <3>1. Depth(e) # position
      BY <1>2, <2>2, DepthIs
    <3> QED  BY <1>2, <1>3, <1>4, <3>1 DEF KeyInv
  <2> QED  BY <2>1, <2>2
<1> HIDE DEF woken, nowRequired
<1>5. \A e \in nowScheduled : e \in required' /\ e \in Element /\ Depth(e) <= position
  BY <1>1, <1>2 DEF Assemblable, KeyInv
<1>6. ASSUME NEW e \in required', Depth(e) <= position
      PROVE  e \in woken \/ e \in nowScheduled
  <2> SUFFICES ASSUME artifact[e] # "cached", e \notin cacheKey
               PROVE  e \in nowScheduled
    BY <1>2, <1>3, <1>4, <1>6
  <2>1. artifact[e] # "none" /\ ~CachedSuccess(e)
    BY <1>2, <1>6 DEF KeyInv, CachedSuccess, Successful
  <2>2. e \in required => e = x
    <3> SUFFICES ASSUME e \in required, e # x PROVE FALSE
      OBVIOUS
    <3>1. Depth(e) # position
      BY <1>2, DepthIs
    <3> QED  BY <1>2, <1>6, <3>1 DEF KeyInv
  <2>3. e \notin assembleScheduled
    <3>1. CASE e = x
      BY <1>2, <3>1 DEF KeyInv
    <3>2. CASE e \notin required
      BY <1>2, <3>2 DEF KeyInv
    <3> QED  BY <2>2, <3>1, <3>2
  <2>4. Assemblable(e)
    BY <1>2, <2>1, <2>3 DEF Assemblable
  <2> QED  BY <1>1, <2>2, <2>4
<1>7. nowScheduled \subseteq cacheKey'
  <2>1. RequireInv'
    <3>1. assembleScheduled \subseteq Element
      BY DEF ElementTyped, FlagsTyped
    <3> QED  BY <3>1, LoadDoneRequires
  <2>2. ASSUME NEW e \in nowScheduled, NEW d \in BuildScope[e]
        PROVE  d \in woken \/ (d \in nowScheduled /\ Depth(d) < Depth(e))
    <3>1. e \in Element /\ BuildDeps[e] \subseteq required'
      BY <1>1, <1>5, <2>1 DEF RequireInv
    <3>2. d \in Element /\ Depth(d) < Depth(e)
      BY <3>1, ScopeComesFirst
    <3>3. d \in required'
      BY <1>2, <2>1, <3>1, ScopeIsRequired
    <3>4. Depth(d) <= position
      BY <1>2, <1>5, <3>1, <3>2
    <3> QED  BY <1>6, <3>2, <3>3, <3>4
  <2>3. nowScheduled \in SUBSET Element
    BY <1>5
  <2> HIDE DEF nowScheduled
  <2> QED  BY <1>1, <1>2, <2>2, <2>3, KeysSpread
<1> HIDE DEF nowScheduled
<1>8. \A e \in assembleScheduled : e \in required' /\ Depth(e) <= position
  <2>1. assembleScheduled \subseteq Element
    BY DEF ElementTyped, FlagsTyped
  <2> QED  BY <1>1, <1>2, <2>1 DEF KeyInv
<1> QED  BY <1>1, <1>3, <1>4, <1>5, <1>6, <1>7, <1>8

LEMMA QueryKeys ==
  ASSUME JobInv, ElementTyped, ~HasFetchRemotes, KeyInv, QueryArtifact
  PROVE  KeyInv'
<1>1. PICK x \in Element : position \in 1..Len(Plan) /\ x = Plan[position]
  BY PlanAssumption DEF QueryArtifact, JobInv, SessionTyped
<1>2. /\ phase = "query" /\ phase' = "queried" /\ position' = position /\ position \in Nat
      /\ LoadArtifact(x) /\ UNCHANGED jobs
      /\ UNCHANGED <<required, cachedSuccessfully, assembleScheduled, assembleDone, cacheKey>>
  BY <1>1 DEF QueryArtifact, JobInv, SessionTyped, cascadeVars
<1>3. Depth(x) = position /\ \A e \in Element : e # x => Depth(e) # position
  BY <1>1, DepthIs
<1>4. /\ pullPending' = {} /\ artifact'[x] \in {"cached", "uncached"}
      /\ \A e \in Element : e # x => artifact'[e] = artifact[e]
  BY <1>2 DEF LoadArtifact, KeyInv, Querying, ElementTyped, ArtifactsTyped
<1>5. \A e \in Element : Depth(e) \in Nat /\ (Queried(e)' <=> e = x \/ Queried(e))
  BY <1>2, <1>3, DepthIsPlace DEF Queried
<1>6. ~Queried(x) /\ x \notin cachedSuccessfully
  <2>1. ~Queried(x)
    BY <1>2, <1>3, <1>5 DEF Queried
  <2> QED  BY <1>2, <2>1 DEF KeyInv, Querying
<1>7. cachedSuccessfully \subseteq Element
  BY DEF ElementTyped, FlagsTyped
<1>8. \A e \in cachedSuccessfully' : artifact'[e] = "cached"
  BY <1>2, <1>4, <1>6, <1>7 DEF KeyInv, Querying
<1>9. \A e \in Element : /\ ~Queried(e)' => artifact'[e] = "none"
                         /\ Queried(e)' => artifact'[e] # "none"
                         /\ Depth(e) < position' /\ artifact'[e] = "cached" => e \in cacheKey'
  BY <1>2, <1>3, <1>4, <1>5 DEF KeyInv, Querying
<1> QED  BY <1>2, <1>4, <1>8, <1>9 DEF KeyInv, Querying

LEMMA QueryDoneKeys ==
  ASSUME PlanInOrder, JobInv, ElementTyped, ElementTyped', RequireInv, KeyInv, QueryArtifactDone
  PROVE  KeyInv'
<1>1. PICK x \in Element : x = Plan[position] /\ Depth(x) = position
  <2>1. position \in 1..Len(Plan)
    BY DEF QueryArtifactDone, JobInv, SessionTyped
  <2> QED  BY <2>1, PlanAssumption, DepthIs
<1>2. /\ phase = "queried" /\ phase' = "query" /\ position' = position + 1 /\ position \in Nat
      /\ UNCHANGED <<artifact, pullPending, jobs>> /\ LoadArtifactDone(x)
  BY <1>1 DEF QueryArtifactDone, artifactVars, JobInv, SessionTyped, KeyInv, Querying
<1>3. \A e \in Element : /\ Depth(e) \in Nat /\ (Queried(e)' <=> Queried(e))
                         /\ Depth(e) < position' <=> Depth(e) <= position
  BY <1>2, DepthIsPlace DEF Queried
<1>4. /\ \A e \in Element : Depth(e) <= position /\ artifact[e] = "cached" => e \in cacheKey'
      /\ \A e \in required' : Depth(e) <= position => e \in cacheKey'
      /\ \A e \in assembleScheduled' : e \in required' /\ Depth(e) <= position
  BY <1>1, <1>2, LoadDoneKeys
<1>5. required' \subseteq Element /\ assembleScheduled' \subseteq Element
  BY DEF ElementTyped, FlagsTyped
<1>6. assembleDone' = assembleDone /\ \A e \in cachedSuccessfully' : artifact[e] = "cached"
  <2>1. PICK S, keys : /\ S = NewlyReady(x, keys, Successful(artifact))
                       /\ cachedSuccessfully' = cachedSuccessfully \cup S
    BY <1>2 DEF LoadArtifactDone, Notify
  <2>2. S \subseteq Successful(artifact)
    BY <2>1, NewlyReadyIsNew
  <2> QED  BY <1>2, <2>1, <2>2 DEF LoadArtifactDone, Successful, KeyInv, Querying
<1> QED  BY <1>2, <1>3, <1>4, <1>5, <1>6 DEF KeyInv, Querying

LEMMA KeyNext ==
  ASSUME PlanInOrder, ~HasFetchRemotes, JobInv, ElementTyped, ElementTyped', RequireInv, KeyInv,
         [Next]_vars
  PROVE  KeyInv'
<1>1. ASSUME ~Querying, ~Querying', UNCHANGED <<position, required>>, cacheKey \subseteq cacheKey'
      PROVE  KeyInv'
  BY <1>1 DEF KeyInv
<1>2. CASE QueryArtifact
  BY <1>2, QueryKeys
<1>3. CASE QueryArtifactDone
  BY <1>3, QueryDoneKeys
<1>4. CASE EnqueuePlan
  <2>1. phase' = "run" /\ position' = position /\ position > Len(Plan) /\ UNCHANGED <<required, cacheKey>>
    BY <1>4 DEF EnqueuePlan, elementVars, cascadeVars
  <2> QED  BY <2>1 DEF KeyInv, Querying
<1>5. ASSUME NEW j \in jobs, NEW raised \in BOOLEAN, NEW reaction, JobDone(j, raised, reaction)
      PROVE  KeyInv'
  <2>1. ~Querying /\ ~Querying' /\ position' = position
    BY <1>5 DEF JobDone, Querying
  <2>2. ~InQueue(j, "Pull")
    <3>1. j.queue \in QueueId /\ "Pull" \notin Range(Queues)
      BY QueuesAssumption DEF JobInv, JobsTyped, JobRecord
    <3> QED  BY <3>1 DEF InQueue, Range, QueueId
  <2>3. required' = required /\ cacheKey \subseteq cacheKey'
    <3>1. CASE AssembleDone(j.elem, j.st = "ok")
      BY <3>1, KeysAreKept DEF AssembleDone
    <3> QED  BY <1>5, <2>2, <3>1, FinishIs DEF cascadeVars
  <2> QED  BY <1>1, <2>1, <2>3
<1>6. CASE RealSchedule \/ \E j \in jobs : ThreadStep(j)
  <2>1. ~Querying /\ ~Querying' /\ position' = position /\ UNCHANGED cascadeVars
    <3>1. CASE RealSchedule
      BY <3>1 DEF RealSchedule, Querying, elementVars
    <3>2. CASE \E j \in jobs : ThreadStep(j)
      BY <3>2, ThreadMoves DEF mainVars, ThreadStep, Querying
    <3> QED  BY <1>6, <3>1, <3>2
  <2> QED  BY <1>1, <2>1 DEF cascadeVars
<1>7. CASE Quiet
  <2>1. /\ UNCHANGED <<elementVars, phase, position>>
        /\ jobs = {} => jobs' = {}
    BY <1>7, QuietKeeps
  <2> QED
    BY <2>1 DEF elementVars, artifactVars, cascadeVars, KeyInv, Querying, Queried
<1> QED  BY <1>2, <1>3, <1>4, <1>5, <1>6, <1>7 DEF Next, MainStep, Quiet

\* A job that has built knows its key: in strict mode, and in non-strict mode if there is
\* nothing to pull from, elements are looked up after what they need, and no target is required
\* without what it needs at runtime although another element needs it.
THEOREM KeysAreKnown ==
  ASSUME Strict \/ (~HasFetchRemotes /\ PlanInOrder /\ TargetsClosed)
  PROVE  Spec => []KeyKnownToBuild
<1>1. CASE Strict
  <2>1. JobInv /\ KeysKnown => KeyKnownToBuild
    BY DEF JobInv, JobsTyped, JobRecord, KeysKnown, KeyKnownToBuild
  <2> QED  BY <1>1, <2>1, SpecJobInv, SpecKeys, PTL
<1>2. CASE ~HasFetchRemotes /\ PlanInOrder /\ TargetsClosed
  <2>1. JobInv /\ ElementTyped /\ ElementTyped' /\ RequireInv /\ KeyInv /\ [Next]_vars => KeyInv'
    BY <1>2, KeyNext
  <2>2. JobInv /\ ElementTyped /\ NeedInv /\ KeyInv => KeyKnownToBuild
    <3> SUFFICES ASSUME JobInv, ElementTyped, NeedInv, KeyInv, NEW j \in jobs
                 PROVE  j.elem \in cacheKey
      BY DEF KeyKnownToBuild
    <3>1. j.elem \in Element /\ position \in Nat
      BY DEF JobInv, JobsTyped, JobRecord, SessionTyped
    <3>2. j.elem \in required /\ ~Querying
      BY <3>1 DEF NeedInv, Unplaced, NoJob, KeyInv
    <3>3. Depth(j.elem) < position
      <4>1. Plan \in Seq(Element)
        BY PlanAssumption
      <4>2. Depth(j.elem) \in 1..Len(Plan) /\ Len(Plan) \in Nat
        BY <3>1, <4>1, DepthIs
      <4> QED  BY <3>1, <3>2, <4>2 DEF KeyInv
    <3> QED  BY <3>2, <3>3 DEF KeyInv
  <2>3. Spec => []RequireInv
    BY <1>2, SpecRequire
  <2> QED  BY <2>1, <2>2, <2>3, KeyInit, SpecJobInv, SpecTyped, SpecNeedInv, PTL DEF Spec
<1> QED  BY <1>1, <1>2
=============================================================================

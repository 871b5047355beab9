---------------------------- MODULE ElementState ----------------------------
(***************************************************************************)
(* What the main thread and the job threads know of each element during a  *)
(* build (element.py), and the cascades that keep it up to date: the       *)
(* required flag spreads down the graph, cache keys and readiness spread   *)
(* up.  A handler of Element that runs in the main thread is one action    *)
(* here, cascade included; the queues that call it are in Pipeline.        *)
(*                                                                         *)
(* A flag of the code is the set of the elements that have it.             *)
(***************************************************************************)
EXTENDS ElementGraph

CONSTANTS
  Strict,           \* Context.get_strict()
  RetryFailed,      \* Context.build_retry_failed
  HasFetchRemotes,  \* ArtifactCache.has_fetch_remotes()
  Targets,          \* the elements _load() marks required
  RequiredScope     \* "none" or "run": the scope it marks them with

ASSUME SessionAssumption ==
  /\ Strict \in BOOLEAN /\ RetryFailed \in BOOLEAN /\ HasFetchRemotes \in BOOLEAN
  /\ Targets \subseteq Element
  /\ RequiredScope \in {"none", "run"}

VARIABLES
  required,             \* __required
  stored,               \* what the local artifact cache holds for the element
  artifact,             \* __artifact: "none", or a handle that is "cached" or "uncached"
  buildResult,          \* __build_result: "none", "success" or "failure"
  cachedSuccessfully,   \* __cached_successfully
  pullPending,          \* __pull_pending
  assembleScheduled,    \* __assemble_scheduled
  assembleDone,         \* __assemble_done
  cacheKey,             \* the elements whose strong __cache_key is known
  sourcesCached,        \* ElementSources._cached: the staged sources are in the cache
  originalCached,       \* Source._is_cached() of every source
  runtimeDepsUncached,  \* __runtime_deps_uncached
  buildDepsUncached,    \* __build_deps_uncached
  ready                 \* __ready_for_runtime_and_cached

artifactVars == <<stored, artifact, buildResult, pullPending>>
sourceVars == <<sourcesCached, originalCached>>
cascadeVars == <<required, cachedSuccessfully, assembleScheduled, assembleDone, cacheKey,
                 runtimeDepsUncached, buildDepsUncached, ready>>
elementVars == <<artifactVars, sourceVars, cascadeVars>>

Result == {"none", "success", "failure"}

ElementTypeOK ==
  /\ required \subseteq Element
  /\ stored \in [Element -> Result]
  /\ artifact \in [Element -> {"none", "uncached", "cached"}]
  /\ buildResult \in [Element -> Result]
  /\ cachedSuccessfully \subseteq Element
  /\ pullPending \subseteq Element
  /\ assembleScheduled \subseteq Element
  /\ assembleDone \subseteq Element
  /\ cacheKey \subseteq Element
  /\ sourcesCached \subseteq Element
  /\ originalCached \subseteq Element
  /\ runtimeDepsUncached \in [Element -> Nat]
  /\ buildDepsUncached \in [Element -> Nat]
  /\ ready \subseteq Element

-----------------------------------------------------------------------------
(* The questions the queues and the handlers ask of an element. *)

\* Mutant of Successful: any cached artifact counts, a failed build too.
SuccessfulIfCached(handles) == {e \in Element : e \in cachedSuccessfully \/ handles[e] = "cached"}

Successful(handles) ==
  {e \in Element : e \in cachedSuccessfully \/ (handles[e] = "cached" /\ buildResult[e] = "success")}

CachedSuccess(e) == e \in Successful(artifact)

CachedFailure(e) == artifact[e] = "cached" /\ buildResult[e] = "failure"

\* Sources are queried before any of these is asked, so "unknown" never shows.
FetchNeeded(e) == e \notin sourcesCached /\ e \notin originalCached

\* Mutant of Buildable: the build dependencies are not looked at.
BuildableTooEarly(e) == e \in assembleScheduled /\ ~FetchNeeded(e)

Buildable(e) == e \in assembleScheduled /\ ~FetchNeeded(e) /\ buildDepsUncached[e] = 0

\* __should_schedule(), whether the element is required left aside.
Assemblable(e) ==
  /\ e \notin assembleScheduled \cup assembleDone \cup pullPending
  /\ artifact[e] # "none"
  /\ ~CachedSuccess(e)

-----------------------------------------------------------------------------
(* The cascades.  Each is what a recursion of the code reaches: the least   *)
(* set closed under its rule, the graph being acyclic.                      *)

\* _set_required() called on every element of roots: a required element
\* requires its runtime dependencies, and its build dependencies if it is to
\* be assembled; it stops at elements that are required already.
NewlyRequired(roots) ==
  LET Needs(e) == RuntimeDeps[e] \cup (IF Assemblable(e) THEN BuildDeps[e] ELSE {})
      Closed(S) == /\ roots \subseteq required \cup S
                   /\ \A e \in S : Needs(e) \subseteq required \cup S
  IN {e \in Element \ required : \A S \in SUBSET Element : Closed(S) => e \in S}

\* Mutants of NewlyReady: the runtime dependencies are not looked at; the reverse
\* dependencies are not told.
NewlyReadyUnchecked(e, keys, successes) ==
  {x \in (keys \cap successes) \ ready : x = e \/ e \in RuntimeDeps[x]}
NewlyReadyAlone(e, keys, successes) ==
  {x \in (keys \cap successes) \ ready : x = e /\ runtimeDepsUncached[x] = 0}

\* _update_ready_for_runtime_and_cached() called on e: an element is ready
\* once its runtime dependencies all are, and tells its reverse dependencies.
NewlyReady(e, keys, successes) ==
  LET candidates == (keys \cap successes) \ ready
      Counted(x, S) == LET told == Cardinality(RuntimeDeps[x] \cap S)
                       IN told > 0 /\ told >= runtimeDepsUncached[x]
      Closed(S) == \A x \in candidates :
                     (x = e /\ runtimeDepsUncached[x] = 0) \/ Counted(x, S) => x \in S
  IN {x \in candidates : \A S \in SUBSET candidates : Closed(S) => x \in S}

\* Mutant of Woken: the counter is looked at before it is decremented.
WokenTooEarly(S) ==
  {x \in assembleScheduled : BuildDeps[x] \cap S # {} /\ Buildable(x)}

\* The elements that turn buildable because those of S turn ready.
Woken(S) ==
  {x \in assembleScheduled : /\ BuildDeps[x] \cap S # {}
                             /\ ~FetchNeeded(x)
                             /\ buildDepsUncached[x] = Cardinality(BuildDeps[x] \cap S)}

\* Mutant of KeysUpdated: an element computes its key before its dependencies do.
KeysUpdatedBefore(keys, S) ==
  keys \cup {x \in S \ pullPending : artifact[x] = "cached" \/ BuildScope[x] \subseteq keys}

\* __update_cache_key_non_strict() called on the elements of S: a cached one
\* takes the key its artifact was built with, another one needs the keys of
\* all it is built on.  In strict mode every key is known and nothing changes.
KeysUpdated(keys, S) ==
  LET Closed(K) == \A x \in S \ pullPending :
                     artifact[x] = "cached" \/ BuildScope[x] \subseteq K => x \in K
  IN keys \cup {x \in S : \A K \in SUBSET Element : keys \subseteq K /\ Closed(K) => x \in K}

\* Mutant of Notify: build dependencies are counted as runtime dependencies too.
NotifyTwice(S, succeeded) ==
  /\ ready' = ready \cup S
  /\ cachedSuccessfully' = cachedSuccessfully \cup succeeded
  /\ runtimeDepsUncached' = [x \in Element |-> runtimeDepsUncached[x] -
                              Cardinality((RuntimeDeps[x] \cup BuildDeps[x]) \cap S)]
  /\ buildDepsUncached' =
       [x \in Element |-> buildDepsUncached[x] - Cardinality(BuildDeps[x] \cap S)]

\* The readiness part of a handler: the elements of S turn ready, those of
\* succeeded are known to be cached successfully.
Notify(S, succeeded) ==
  /\ ready' = ready \cup S
  /\ cachedSuccessfully' = cachedSuccessfully \cup succeeded
  /\ runtimeDepsUncached' =
       [x \in Element |-> runtimeDepsUncached[x] - Cardinality(RuntimeDeps[x] \cap S)]
  /\ buildDepsUncached' =
       [x \in Element |-> buildDepsUncached[x] - Cardinality(BuildDeps[x] \cap S)]

-----------------------------------------------------------------------------
(* The handlers of Element. *)

\* Elements as _load() leaves them: instantiated, the targets required, no
\* artifact looked up yet.  What the caches hold is whatever earlier sessions
\* left there.
ElementInit(artifacts, sources) ==
  /\ required = IF RequiredScope = "none" THEN Targets ELSE Reach(RuntimeDeps, Targets)
  /\ stored \in [Element -> artifacts]
  /\ artifact = [e \in Element |-> "none"]
  /\ buildResult = [e \in Element |-> "none"]
  /\ cachedSuccessfully = {}
  /\ pullPending = {}
  /\ assembleScheduled = {}
  /\ assembleDone = {}
  /\ cacheKey = IF Strict THEN Element ELSE {}
  /\ \E at \in [Element -> sources] :
       /\ sourcesCached = {e \in Element : at[e] = "staged"}
       /\ originalCached = {e \in Element : at[e] = "original"}
  /\ runtimeDepsUncached = [e \in Element |-> Cardinality(RuntimeDeps[e])]
  /\ buildDepsUncached = [e \in Element |-> Cardinality(BuildDeps[e])]
  /\ ready = {}

\* _load_artifact(pull=False): look e up in the local cache, by its strict key
\* and, if that fails in non-strict mode with nowhere to pull it from, by its
\* weak key.  A failed build is discarded when it is to be retried.  While a
\* pull is pending in non-strict mode no artifact is chosen.
LoadArtifact(e) ==
  LET found == stored[e]
      kept == found = "success" \/ (found = "failure" /\ ~RetryFailed)
      pending == found = "none" /\ HasFetchRemotes
  IN /\ artifact' = [artifact EXCEPT ![e] = IF kept THEN "cached"
                                            ELSE IF pending /\ ~Strict THEN "none"
                                            ELSE "uncached"]
     /\ buildResult' = [buildResult EXCEPT ![e] = IF kept THEN found ELSE @]
     /\ pullPending' = IF pending THEN pullPending \cup {e} ELSE pullPending
     /\ UNCHANGED stored

\* _load_artifact(pull=True) in the job's thread: first the pending flag falls ...
PullBegins(e) ==
  /\ pullPending' = pullPending \ {e}
  /\ UNCHANGED <<stored, artifact, buildResult>>

\* ... and when the remotes have answered, what was found is the artifact.  A
\* failed build that is discarded stays in the cache but not in the element.
PullEnds(e, found, discarded) ==
  /\ stored' = IF found = "none" THEN stored ELSE [stored EXCEPT ![e] = found]
  /\ artifact' = [artifact EXCEPT ![e] = IF found = "none" \/ discarded THEN "uncached"
                                         ELSE "cached"]
  /\ buildResult' = IF found = "none" \/ discarded THEN buildResult
                    ELSE [buildResult EXCEPT ![e] = found]
  /\ UNCHANGED pullPending

\* _load_artifact_done(): the key, the readiness, then the scheduling of e and
\* of all that its assembly requires.
LoadArtifactDone(e) ==
  LET keys == IF artifact[e] = "cached" THEN KeysUpdated(cacheKey, {e}) ELSE cacheKey
      nowReady == NewlyReady(e, keys, Successful(artifact))
      scheduled == {x \in {e} \cap required : Assemblable(x)}
      nowRequired == NewlyRequired(UNION {BuildDeps[x] : x \in scheduled})
      nowScheduled == scheduled \cup {x \in nowRequired : Assemblable(x)}
  IN /\ Notify(nowReady, nowReady)
     /\ required' = required \cup nowRequired
     /\ assembleScheduled' = assembleScheduled \cup nowScheduled
     /\ cacheKey' = KeysUpdated(KeysUpdated(keys, Woken(nowReady)), nowScheduled)
     /\ UNCHANGED assembleDone

\* fetch_done(): the staged sources are loaded from the cache.
FetchDone(e) ==
  /\ sourcesCached' = sourcesCached \cup {e}
  /\ UNCHANGED originalCached

\* _assemble_done(): adopt the artifact of a success, look for one that a failed
\* build may have left, then the key and the readiness.
AssembleDone(e, successful) ==
  LET handle == [artifact EXCEPT ![e] = IF successful \/ stored[e] # "none" THEN "cached"
                                        ELSE "uncached"]
      built == IF successful THEN {e} ELSE {}
      keys == KeysUpdated(cacheKey, {e})
      nowReady == NewlyReady(e, keys, Successful(handle) \cup built)
  IN /\ e \in assembleScheduled
     /\ artifact' = handle
     /\ assembleDone' = assembleDone \cup {e}
     /\ Notify(nowReady, nowReady \cup built)
     /\ cacheKey' = KeysUpdated(keys, Woken(nowReady))
     /\ UNCHANGED <<required, assembleScheduled, stored, buildResult, pullPending>>

-----------------------------------------------------------------------------
(* Properties. *)

\* The counters of Element count the dependencies that are not ready
\* (_update_ready_for_runtime_and_cached decrements them and nothing ever
\* recomputes them).
CountersExact ==
  \A e \in Element : /\ runtimeDepsUncached[e] = Cardinality(RuntimeDeps[e] \ ready)
                     /\ buildDepsUncached[e] = Cardinality(BuildDeps[e] \ ready)

\* An element that is announced as ready can be staged with all it needs: it is
\* known to be cached successfully, its key is known, and the same holds of its
\* runtime dependencies.
ReadySound ==
  \A e \in ready : /\ e \in cachedSuccessfully /\ e \in cacheKey
                   /\ RuntimeDeps[e] \subseteq ready
=============================================================================

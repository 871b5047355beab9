--------------------------- MODULE PipelineProofs ---------------------------
(***************************************************************************)
(* What TLAPS proves of Pipeline for every graph of elements and every     *)
(* combination of queues, limits, caches, faults, reactions and            *)
(* interrupts.                                                             *)
(*                                                                         *)
(* First lemmas about the readiness cascade of ElementState, for every     *)
(* graph of elements.                                                      *)
(*                                                                         *)
(* Then the jobs: the resources counted as used are those of the active    *)
(* jobs, within the limits, and no job starts after the user quits or      *)
(* terminates.  The invariant (JobInv) also says that there are finitely   *)
(* many jobs and that their queue, element and number tell them apart,     *)
(* without which nothing could be counted; most of the lemmas are about    *)
(* what one run of real_schedule takes off the heaps of the queues.        *)
(*                                                                         *)
(* Then readiness: the counters are exact, what is announced as ready is   *)
(* ready with all it needs, and an element is built only when all that is  *)
(* staged for its build is ready.  This needs to know more than the state  *)
(* of the job that builds: an element that waits to be built in a queue    *)
(* was buildable when it was put there, so its build dependencies are      *)
(* ready (BuildQueued), and what is ready stays ready.                     *)
(*                                                                         *)
(* Then the types: that the counters never fall below zero follows from    *)
(* their being exact.                                                      *)
(*                                                                         *)
(* Last, where elements are: in one place each, there only if they are     *)
(* needed, and waiting only for what has not happened yet.                 *)
(***************************************************************************)
EXTENDS Pipeline, FiniteSetTheorems, WellFoundedInduction, TLAPS

-----------------------------------------------------------------------------
(* The readiness cascade of ElementState: what it announces is justified,  *)
(* and the counters that it decrements stay the number of dependencies     *)
(* that are not ready.                                                     *)

LEMMA FiniteDeps ==
  ASSUME NEW e \in Element
  PROVE  /\ IsFiniteSet(RuntimeDeps[e]) /\ RuntimeDeps[e] \subseteq Element
         /\ IsFiniteSet(BuildDeps[e]) /\ BuildDeps[e] \subseteq Element
<1>1. RuntimeDeps[e] \in SUBSET Element /\ BuildDeps[e] \in SUBSET Element
  BY DepsAssumption DEF DepsAssumption
<1>2. IsFiniteSet(Element)
  BY ElementAssumption DEF ElementAssumption
<1> QED  BY <1>1, <1>2, FS_Subset

\* A set loses as many elements as it has in common with what is taken from it.
LEMMA TakeAway ==
  ASSUME NEW A, IsFiniteSet(A), NEW B, NEW S, S \cap B = {}
  PROVE  /\ Cardinality(A \ B) \in Nat /\ Cardinality(A \cap S) \in Nat
         /\ Cardinality(A \ (B \cup S)) = Cardinality(A \ B) - Cardinality(A \cap S)
<1>1. IsFiniteSet(A \ B) /\ IsFiniteSet(A \cap S) /\ IsFiniteSet(A \ (B \cup S))
  BY FS_Subset
<1>2. Cardinality((A \ B) \ S) = Cardinality(A \ B) - Cardinality((A \ B) \cap S)
  BY <1>1, FS_Difference
<1>3. (A \ B) \ S = A \ (B \cup S) /\ (A \ B) \cap S = A \cap S
  OBVIOUS
<1> QED  BY <1>1, <1>2, <1>3, FS_CardinalityType

\* Notify keeps the counters exact, if what it announces was not announced before.
LEMMA NotifyCounts ==
  ASSUME CountersExact, NEW S, NEW succeeded, Notify(S, succeeded), S \cap ready = {}
  PROVE  CountersExact'
<1> SUFFICES ASSUME NEW e \in Element
             PROVE  /\ runtimeDepsUncached'[e] = Cardinality(RuntimeDeps[e] \ ready')
                    /\ buildDepsUncached'[e] = Cardinality(BuildDeps[e] \ ready')
  BY DEF CountersExact
<1>1. ready' = ready \cup S
  BY DEF Notify
<1>2. Cardinality(RuntimeDeps[e] \ (ready \cup S)) =
        Cardinality(RuntimeDeps[e] \ ready) - Cardinality(RuntimeDeps[e] \cap S)
  BY FiniteDeps, TakeAway
<1>3. Cardinality(BuildDeps[e] \ (ready \cup S)) =
        Cardinality(BuildDeps[e] \ ready) - Cardinality(BuildDeps[e] \cap S)
  BY FiniteDeps, TakeAway
<1>4. /\ runtimeDepsUncached'[e] = runtimeDepsUncached[e] - Cardinality(RuntimeDeps[e] \cap S)
      /\ buildDepsUncached'[e] = buildDepsUncached[e] - Cardinality(BuildDeps[e] \cap S)
  BY DEF Notify
<1> QED  BY <1>1, <1>2, <1>3, <1>4 DEF CountersExact

\* What NewlyReady(e, ...) returns has the key and the success, and is new.
LEMMA NewlyReadyIsNew ==
  ASSUME NEW e, NEW keys, NEW successes
  PROVE  NewlyReady(e, keys, successes) \subseteq (keys \cap successes) \ ready
BY DEF NewlyReady

\* Why x is announced along with S, when the cascade was started at e.
Due(x, e, S) ==
  \/ x = e /\ runtimeDepsUncached[x] = 0
  \/ /\ Cardinality(RuntimeDeps[x] \cap S) > 0
     /\ Cardinality(RuntimeDeps[x] \cap S) >= runtimeDepsUncached[x]

LEMMA DueIsMonotonic ==
  ASSUME CountersExact, NEW x \in Element, NEW e, NEW S, NEW T, S \subseteq T, Due(x, e, S)
  PROVE  Due(x, e, T)
<1>1. IsFiniteSet(RuntimeDeps[x]) /\ runtimeDepsUncached[x] = Cardinality(RuntimeDeps[x] \ ready)
  BY FiniteDeps DEF CountersExact
<1>2. IsFiniteSet(RuntimeDeps[x] \cap T) /\ IsFiniteSet(RuntimeDeps[x] \cap S)
      /\ IsFiniteSet(RuntimeDeps[x] \ ready)
  BY <1>1, FS_Subset
<1>3. Cardinality(RuntimeDeps[x] \cap S) <= Cardinality(RuntimeDeps[x] \cap T)
  BY <1>2, FS_Subset
<1>4. /\ Cardinality(RuntimeDeps[x] \cap S) \in Nat /\ Cardinality(RuntimeDeps[x] \cap T) \in Nat
      /\ runtimeDepsUncached[x] \in Nat
  BY <1>1, <1>2, FS_CardinalityType
<1> QED  BY <1>3, <1>4 DEF Due

\* The least set closed under the rule holds nothing that the rule does not give.
LEMMA NewlyReadyIsDue ==
  ASSUME CountersExact, NEW e, NEW keys, NEW successes, successes \subseteq Element,
         NEW x \in NewlyReady(e, keys, successes)
  PROVE  Due(x, e, NewlyReady(e, keys, successes))
<1> DEFINE candidates == (keys \cap successes) \ ready
           Closed(S) == \A y \in candidates : Due(y, e, S) => y \in S
           least == {y \in candidates : \A S \in SUBSET candidates : Closed(S) => y \in S}
<1>1. NewlyReady(e, keys, successes) = least
  BY DEF NewlyReady, Due
<1>2. candidates \subseteq Element
  OBVIOUS
<1> HIDE DEF candidates
<1>3. ASSUME NEW y \in candidates, Due(y, e, least)
      PROVE  y \in least
  <2> SUFFICES ASSUME NEW S \in SUBSET candidates, Closed(S)
               PROVE  y \in S
    OBVIOUS
  <2>1. least \subseteq S
    OBVIOUS
  <2>2. Due(y, e, S)
    BY <1>2, <1>3, <2>1, DueIsMonotonic
  <2> QED  BY <2>2
<1>4. SUFFICES ASSUME ~Due(x, e, least)
               PROVE  FALSE
  BY <1>1
<1>5. x \in least
  BY <1>1
<1>6. least \ {x} \in SUBSET candidates
  OBVIOUS
<1>7. Closed(least \ {x})
  <2> SUFFICES ASSUME NEW y \in candidates, Due(y, e, least \ {x})
               PROVE  y \in least \ {x}
    OBVIOUS
  <2>1. Due(y, e, least)
    BY <1>2, DueIsMonotonic
  <2> QED  BY <1>3, <1>4, <2>1
<1> QED  BY <1>5, <1>6, <1>7

\* Hence all the runtime dependencies of an element that is announced are ready or
\* announced with it.
LEMMA NewlyReadyHasDeps ==
  ASSUME CountersExact, NEW e, NEW keys, NEW successes, successes \subseteq Element,
         NEW x \in NewlyReady(e, keys, successes)
  PROVE  RuntimeDeps[x] \subseteq ready \cup NewlyReady(e, keys, successes)
<1> DEFINE new == NewlyReady(e, keys, successes)
<1>1. x \in Element /\ new \cap ready = {}
  BY NewlyReadyIsNew
<1>2. Due(x, e, new)
  BY NewlyReadyIsDue
<1> HIDE DEF new
<1>3. IsFiniteSet(RuntimeDeps[x]) /\ runtimeDepsUncached[x] = Cardinality(RuntimeDeps[x] \ ready)
  BY <1>1, FiniteDeps DEF CountersExact
<1>4. CASE runtimeDepsUncached[x] = 0
  <2>1. RuntimeDeps[x] \ ready = {}
    BY <1>3, <1>4, FS_Subset, FS_EmptySet
  <2> QED  BY <2>1 DEF new
<1>5. CASE Cardinality(RuntimeDeps[x] \cap new) >= runtimeDepsUncached[x]
  <2>1. /\ Cardinality(RuntimeDeps[x] \ ready) \in Nat
        /\ Cardinality(RuntimeDeps[x] \cap new) \in Nat
        /\ Cardinality(RuntimeDeps[x] \ (ready \cup new)) =
             Cardinality(RuntimeDeps[x] \ ready) - Cardinality(RuntimeDeps[x] \cap new)
    BY <1>1, <1>3, TakeAway
  <2>2. IsFiniteSet(RuntimeDeps[x] \ (ready \cup new))
    BY <1>3, FS_Subset
  <2>3. Cardinality(RuntimeDeps[x] \ (ready \cup new)) = 0
    BY <1>3, <1>5, <2>1, <2>2, FS_CardinalityType
  <2>4. RuntimeDeps[x] \ (ready \cup new) = {}
    BY <2>2, <2>3, FS_EmptySet
  <2> QED  BY <2>4 DEF new
<1> QED  BY <1>2, <1>4, <1>5 DEF Due

\* The cascade goes as far as it can: the least set closed under the rule is closed under it.
LEMMA NewlyReadyIsClosed ==
  ASSUME CountersExact, NEW e, NEW keys, NEW successes, successes \subseteq Element,
         NEW x \in (keys \cap successes) \ ready, Due(x, e, NewlyReady(e, keys, successes))
  PROVE  x \in NewlyReady(e, keys, successes)
<1> DEFINE candidates == (keys \cap successes) \ ready
           Closed(S) == \A y \in candidates : Due(y, e, S) => y \in S
           least == {y \in candidates : \A S \in SUBSET candidates : Closed(S) => y \in S}
<1>1. NewlyReady(e, keys, successes) = least
  BY DEF NewlyReady, Due
<1>2. x \in candidates /\ x \in Element
  OBVIOUS
<1> HIDE DEF candidates
<1>3. ASSUME NEW S \in SUBSET candidates, Closed(S) PROVE x \in S
  <2>1. least \subseteq S
    BY <1>3
  <2>2. Due(x, e, S)
    BY <1>1, <1>2, <2>1, DueIsMonotonic
  <2> QED  BY <1>2, <1>3, <2>2
<1> QED  BY <1>1, <1>2, <1>3

\* What a cascade started at e leaves unannounced though it had all it takes, it did not
\* come by.
LEMMA CascadeCompletes ==
  ASSUME CountersExact, NEW e, NEW keys, NEW successes, successes \subseteq Element,
         NEW succeeded, Notify(NewlyReady(e, keys, successes), succeeded),
         NEW x \in (keys \cap successes) \ ready', runtimeDepsUncached'[x] = 0
  PROVE  x \notin ready /\ x # e /\ runtimeDepsUncached[x] = 0
<1> DEFINE new == NewlyReady(e, keys, successes)
           told == Cardinality(RuntimeDeps[x] \cap new)
<1>1. x \in Element /\ x \notin ready /\ x \notin new
  BY DEF Notify
<1>2. ~Due(x, e, new)
  BY <1>1, NewlyReadyIsClosed
<1>3. runtimeDepsUncached'[x] = runtimeDepsUncached[x] - told
  BY <1>1 DEF Notify
<1>4. runtimeDepsUncached[x] \in Nat /\ told \in Nat
  <2>1. IsFiniteSet(RuntimeDeps[x]) /\ runtimeDepsUncached[x] = Cardinality(RuntimeDeps[x] \ ready)
    BY <1>1, FiniteDeps DEF CountersExact
  <2> QED  BY <2>1, FS_Subset, FS_CardinalityType
<1>5. ~(x = e /\ runtimeDepsUncached[x] = 0) /\ ~(told > 0 /\ told >= runtimeDepsUncached[x])
  BY <1>2 DEF Due
<1> HIDE DEF new, told
<1> QED  BY <1>1, <1>3, <1>4, <1>5

\* What every handler that runs the cascade has in common.
LEMMA CascadeKeeps ==
  ASSUME CountersExact, ReadySound,
         NEW e, NEW keys, NEW successes, successes \subseteq Element,
         NEW succeeded, NewlyReady(e, keys, successes) \subseteq succeeded,
         Notify(NewlyReady(e, keys, successes), succeeded),
         cacheKey \subseteq cacheKey', keys \subseteq cacheKey'
  PROVE  CountersExact' /\ ReadySound' /\ ready \subseteq ready' /\ ready' \subseteq ready \cup Element
<1> DEFINE new == NewlyReady(e, keys, successes)
<1>1. new \subseteq keys /\ new \subseteq Element /\ new \cap ready = {}
  BY NewlyReadyIsNew
<1>2. ready' = ready \cup new /\ cachedSuccessfully' = cachedSuccessfully \cup succeeded
  BY DEF Notify
<1>3. CountersExact'
  BY <1>1, NotifyCounts
<1>4. ASSUME NEW x \in ready'
      PROVE  x \in cachedSuccessfully' /\ x \in cacheKey' /\ RuntimeDeps[x] \subseteq ready'
  <2>1. CASE x \in ready
    BY <1>2, <2>1 DEF ReadySound
  <2>2. CASE x \in new
    <3>1. RuntimeDeps[x] \subseteq ready \cup new
      BY <2>2, NewlyReadyHasDeps
    <3> QED  BY <1>1, <1>2, <2>2, <3>1
  <2> QED  BY <1>2, <1>4, <2>1, <2>2
<1> QED  BY <1>1, <1>2, <1>3, <1>4 DEF ReadySound

LEMMA KeysAreKept ==
  ASSUME NEW keys, NEW S
  PROVE  keys \subseteq KeysUpdated(keys, S)
BY DEF KeysUpdated

LEMMA LoadArtifactDoneKeeps ==
  ASSUME CountersExact, ReadySound, NEW e, LoadArtifactDone(e)
  PROVE  CountersExact' /\ ReadySound' /\ ready \subseteq ready' /\ ready' \subseteq ready \cup Element
<1> DEFINE keys == IF artifact[e] = "cached" THEN KeysUpdated(cacheKey, {e}) ELSE cacheKey
           new == NewlyReady(e, keys, Successful(artifact))
<1>1. cacheKey \subseteq keys
  BY KeysAreKept
<1>2. Notify(new, new) /\ keys \subseteq cacheKey'
  BY KeysAreKept DEF LoadArtifactDone
<1>3. Successful(artifact) \subseteq Element
  BY DEF Successful
<1> QED  BY <1>1, <1>2, <1>3, CascadeKeeps

LEMMA AssembleDoneKeeps ==
  ASSUME CountersExact, ReadySound, NEW e \in Element, NEW successful, AssembleDone(e, successful)
  PROVE  CountersExact' /\ ReadySound' /\ ready \subseteq ready' /\ ready' \subseteq ready \cup Element
<1> DEFINE handle == [artifact EXCEPT ![e] = IF successful \/ stored[e] # "none" THEN "cached"
                                             ELSE "uncached"]
           built == IF successful THEN {e} ELSE {}
           keys == KeysUpdated(cacheKey, {e})
           successes == Successful(handle) \cup built
           new == NewlyReady(e, keys, successes)
<1>1. cacheKey \subseteq keys
  BY KeysAreKept
<1>2. Notify(new, new \cup built) /\ keys \subseteq cacheKey'
  BY KeysAreKept DEF AssembleDone
<1>3. successes \subseteq Element
  BY DEF Successful
<1> QED  BY <1>1, <1>2, <1>3, CascadeKeeps

\* The counters start with the number of dependencies, and nothing is ready.
LEMMA InitiallyExact ==
  ASSUME NEW artifacts, NEW sources, ElementInit(artifacts, sources)
  PROVE  CountersExact /\ ReadySound
<1>1. \A e \in Element : RuntimeDeps[e] \ {} = RuntimeDeps[e] /\ BuildDeps[e] \ {} = BuildDeps[e]
  OBVIOUS
<1> QED  BY <1>1 DEF ElementInit, CountersExact, ReadySound

\* What is ready is closed under runtime dependencies, so it holds all that is
\* staged to build an element as soon as it holds the build dependencies.
LEMMA ReadyHasBuildScope ==
  ASSUME ReadySound, ready \subseteq Element, NEW e \in Element, BuildDeps[e] \subseteq ready
  PROVE  BuildScope[e] \subseteq ready
<1>1. ready \in SUBSET Element /\ ClosedUnder(RuntimeDeps, ready)
  BY DEF ReadySound, ClosedUnder
<1>2. BuildScope[e] = Reach(RuntimeDeps, BuildDeps[e])
  BY DEF BuildScope
<1> QED  BY <1>1, <1>2 DEF Reach

-----------------------------------------------------------------------------
(* Why an element is required. *)

\* What the cascade started at roots requires is one of them or is needed by
\* another element it requires: at runtime or, if that is to be assembled, to build.
LEMMA NewlyRequiredIsNeeded ==
  ASSUME NEW roots \in SUBSET Element, NEW x \in NewlyRequired(roots)
  PROVE  \/ x \in roots
         \/ \E d \in NewlyRequired(roots) :
              x \in RuntimeDeps[d] \/ (Assemblable(d) /\ x \in BuildDeps[d])
<1> DEFINE Wants(e) == RuntimeDeps[e] \cup (IF Assemblable(e) THEN BuildDeps[e] ELSE {})
           Closed(S) == /\ roots \subseteq required \cup S
                        /\ \A e \in S : Wants(e) \subseteq required \cup S
           new == NewlyRequired(roots)
<1>1. new = {e \in Element \ required : \A S \in SUBSET Element : Closed(S) => e \in S}
  BY DEF NewlyRequired
<1>2. \A e \in Element : Wants(e) \subseteq Element
  BY FiniteDeps
<1> HIDE DEF Wants
<1>3. new \in SUBSET Element /\ x \in new /\ x \notin required
  BY <1>1
<1>4. Closed(new)
  BY <1>1, <1>2
<1>5. ASSUME x \notin roots, \A d \in new : x \notin Wants(d) PROVE FALSE
  <2>1. Closed(new \ {x})
    BY <1>4, <1>5
  <2>2. x \in new \ {x}
    BY <1>1, <1>3, <2>1
  <2> QED  BY <2>2
<1> QED  BY <1>5 DEF Wants

\* Likewise of what _load() marks: a target, or a runtime dependency of what it marks.
LEMMA ReachedIsNeeded ==
  ASSUME NEW roots \in SUBSET Element, NEW x \in Reach(RuntimeDeps, roots)
  PROVE  x \in roots \/ \E d \in Reach(RuntimeDeps, roots) : x \in RuntimeDeps[d]
<1> DEFINE all == Reach(RuntimeDeps, roots)
<1>1. /\ all \in SUBSET Element /\ x \in all
      /\ \A S \in SUBSET Element :
           roots \subseteq S /\ (\A e \in S : RuntimeDeps[e] \subseteq S) => all \subseteq S
  BY DEF Reach, ClosedUnder
<1>2. roots \subseteq all /\ \A e \in all : RuntimeDeps[e] \subseteq all
  BY FiniteDeps DEF Reach, ClosedUnder
<1> HIDE DEF all
<1>3. ASSUME x \notin roots, \A d \in all : x \notin RuntimeDeps[d] PROVE FALSE
  <2>1. roots \subseteq all \ {x} /\ \A e \in all \ {x} : RuntimeDeps[e] \subseteq all \ {x}
    BY <1>2, <1>3
  <2>2. all \ {x} \in SUBSET Element
    BY <1>1
  <2>3. all \subseteq all \ {x}
    BY <1>1, <2>1, <2>2
  <2> QED  BY <1>1, <2>3
<1> QED  BY <1>3 DEF all

-----------------------------------------------------------------------------
(* Counting. *)

\* A set of naturals has a least element.
LEMMA Least ==
  ASSUME NEW S \in SUBSET Nat, S # {}
  PROVE  \E n \in S : \A m \in S : n <= m
<1>1. PICK n \in S : \A m \in S : <<m, n>> \notin OpToRel(<, Nat)
  BY NatLessThanWellFounded, WFMin
<1>2. ASSUME NEW m \in S PROVE n <= m
  <2>1. ~(m < n)
    BY <1>1, Zenon DEF OpToRel
  <2> QED  BY <2>1
<1> QED  BY <1>2

\* A bounded set of naturals has a greatest element, which Max returns.
LEMMA Greatest ==
  ASSUME NEW S \in SUBSET Nat, S # {}, NEW b \in Nat, \A n \in S : n <= b
  PROVE  Max(S) \in S /\ \A n \in S : n <= Max(S)
<1> DEFINE Bounds == {m \in Nat : \A n \in S : n <= m}
<1>1. PICK m \in Bounds : \A k \in Bounds : m <= k
  BY Least
<1>2. m \in S
  <2> SUFFICES ASSUME m \notin S PROVE FALSE
    OBVIOUS
  <2>1. \A n \in S : n <= m - 1
    OBVIOUS
  <2>2. m \in Nat /\ m - 1 \in Nat
    <3>1. PICK n \in S : n <= m - 1
      BY <2>1
    <3> QED  BY <3>1
  <2>3. m - 1 \in Bounds
    BY <2>1, <2>2
  <2>4. m <= m - 1
    BY <1>1, <2>3
  <2> QED  BY <2>2, <2>4
<1>3. \E x \in S : \A y \in S : x >= y
  BY <1>2
<1> QED  BY <1>3 DEF Max

\* A finite set of naturals is bounded.
LEMMA FiniteIsBounded ==
  ASSUME NEW S \in SUBSET Nat, IsFiniteSet(S)
  PROVE  \E b \in Nat : \A n \in S : n <= b
<1> DEFINE Unbounded(T) == \A b \in Nat : \E n \in T : n > b
           Sizes == {n \in Nat : \E T \in SUBSET Nat :
                       IsFiniteSet(T) /\ Cardinality(T) = n /\ Unbounded(T)}
<1>1. SUFFICES ASSUME Sizes # {} PROVE FALSE
  <2>1. Cardinality(S) \notin Sizes => ~Unbounded(S)
    BY FS_CardinalityType
  <2> QED  BY <2>1
<1>2. PICK n \in Sizes : \A m \in Sizes : n <= m
  BY <1>1, Least
<1>3. PICK T \in SUBSET Nat : IsFiniteSet(T) /\ Cardinality(T) = n /\ Unbounded(T)
  OBVIOUS
<1>4. PICK x \in T : x > 0
  BY <1>3
<1>5. IsFiniteSet(T \ {x}) /\ Cardinality(T \ {x}) = n - 1
  BY <1>3, FS_RemoveElement
<1>6. Unbounded(T \ {x})
  <2> SUFFICES ASSUME NEW b \in Nat PROVE \E k \in T \ {x} : k > b
    OBVIOUS
  <2>1. PICK k \in T : k > b + x
    BY <1>3
  <2> QED  BY <2>1
<1>7. n - 1 \in Nat
  BY <1>5, FS_CardinalityType
<1>8. n - 1 \in Sizes
  BY <1>5, <1>6, <1>7
<1> QED  BY <1>2, <1>8

\* What holds of 0 and is passed on from each number to the next holds up to N.
LEMMA Climb ==
  ASSUME NEW N \in Nat, NEW T, 0 \in T, \A i \in 0..(N - 1) : i \in T => i + 1 \in T
  PROVE  \A i \in 0..N : i \in T
<1> DEFINE Out == {i \in 0..N : i \notin T}
<1> SUFFICES ASSUME Out # {} PROVE FALSE
  OBVIOUS
<1>1. PICK i \in Out : \A k \in Out : i <= k
  <2>1. Out \in SUBSET Nat
    OBVIOUS
  <2> HIDE DEF Out
  <2> QED  BY <2>1, Least
<1>2. i \in 0..N /\ i # 0 /\ i \notin T
  OBVIOUS
<1>3. i - 1 \in 0..(N - 1) /\ ~(i <= i - 1)
  BY <1>2
<1>4. i - 1 \notin Out
  BY <1>1, <1>3
<1> QED  BY <1>2, <1>3, <1>4

\* A function on 0..N may be defined by its first value and a step.
Steps(N, S) == [(1..N) \X S -> S]
Runs(N, S, a, step) ==
  {f \in [0..N -> S] : f[0] = a /\ \A i \in 1..N : f[i] = step[<<i, f[i - 1]>>]}

LEMMA Recursion ==
  ASSUME NEW N \in Nat, NEW S, NEW a \in S, NEW step \in Steps(N, S)
  PROVE  Runs(N, S, a, step) # {}
<1> USE DEF Steps
<1> DEFINE Fits(f, n) == f[0] = a /\ \A i \in 1..n : f[i] = step[<<i, f[i - 1]>>]
           T == {n \in 0..N : \E f \in [0..n -> S] : Fits(f, n)}
<1>1. 0 \in T
  <2> DEFINE f == [i \in 0..0 |-> a]
  <2>1. f \in [0..0 -> S] /\ Fits(f, 0)
    OBVIOUS
  <2> HIDE DEF f
  <2> QED  BY <2>1
<1>2. ASSUME NEW n \in 0..(N - 1), n \in T PROVE n + 1 \in T
  <2>1. PICK f \in [0..n -> S] : Fits(f, n)
    BY <1>2
  <2> DEFINE g == [i \in 0..(n + 1) |-> IF i = n + 1 THEN step[<<n + 1, f[n]>>] ELSE f[i]]
  <2>2. g \in [0..(n + 1) -> S]
    OBVIOUS
  <2>3. Fits(g, n + 1)
    <3>1. g[0] = a
      BY <2>1
    <3>2. ASSUME NEW i \in 1..(n + 1) PROVE g[i] = step[<<i, g[i - 1]>>]
      <4>1. CASE i = n + 1
        <5>1. n \in Nat /\ n + 1 \in 0..(n + 1) /\ n \in 0..(n + 1) /\ n # n + 1
          OBVIOUS
        <5>2. g[n + 1] = step[<<n + 1, f[n]>>] /\ g[n] = f[n]
          BY <5>1
        <5>3. i - 1 = n
          BY <4>1, <5>1
        <5> HIDE DEF g
        <5> QED  BY <4>1, <5>2, <5>3
      <4>2. CASE i \in 1..n
        BY <2>1, <4>2
      <4> QED  BY <4>1, <4>2
    <3> QED  BY <3>1, <3>2
  <2> HIDE DEF g
  <2> QED  BY <2>2, <2>3
<1>3. N \in 0..N /\ \A i \in 0..N : i \in T
  <2> HIDE DEF T
  <2> QED  BY <1>1, <1>2, Climb
<1> QED  BY <1>3 DEF Runs

\* The elements of S that have fewer than n others before them in R: n of them, if R
\* is a strict order of all of S.
First(S, R, n) == {x \in S : Cardinality({y \in S : <<y, x>> \in R}) < n}

LEMMA FirstCounted ==
  ASSUME NEW S, IsFiniteSet(S), NEW R,
         \A x \in S : <<x, x>> \notin R,
         \A x, y \in S : x = y \/ <<x, y>> \in R \/ <<y, x>> \in R,
         \A x, y, z \in S : <<x, y>> \in R /\ <<y, z>> \in R => <<x, z>> \in R,
         NEW n \in 0..Cardinality(S)
  PROVE  IsFiniteSet(First(S, R, n)) /\ Cardinality(First(S, R, n)) = n
<1> DEFINE below(x) == {y \in S : <<y, x>> \in R}
           size == Cardinality(S)
           rank == [x \in S |-> Cardinality(below(x))]
           firsts == {x \in S : rank[x] < n}
<1>1. ASSUME NEW x \in S
      PROVE  IsFiniteSet(below(x)) /\ Cardinality(below(x)) \in Nat
  BY FS_Subset, FS_CardinalityType
<1>2. size \in Nat
  BY FS_CardinalityType
<1>3. ASSUME NEW x \in S PROVE rank[x] \in 0..(size - 1)
  <2>1. IsFiniteSet(S \ {x}) /\ Cardinality(S \ {x}) = size - 1
    BY FS_RemoveElement
  <2>2. below(x) \subseteq S \ {x}
    OBVIOUS
  <2> HIDE DEF below
  <2>3. Cardinality(below(x)) <= size - 1
    BY <2>1, <2>2, FS_Subset
  <2> QED  BY <1>1, <1>2, <2>3
<1>4. ASSUME NEW x \in S, NEW y \in S, <<x, y>> \in R PROVE rank[x] < rank[y]
  <2>1. x \notin below(x) /\ below(x) \cup {x} \subseteq below(y)
    BY <1>4
  <2>2. Cardinality(below(x) \cup {x}) = Cardinality(below(x)) + 1
    BY <1>1, <2>1, FS_AddElement
  <2>3. Cardinality(below(x) \cup {x}) <= Cardinality(below(y))
    BY <1>1, <2>1, FS_Subset
  <2> HIDE DEF below
  <2> QED  BY <1>1, <2>2, <2>3
<1>5. rank \in [S -> 0..(size - 1)]
  BY <1>3
<1> HIDE DEF rank
<1>6. rank \in Injection(S, 0..(size - 1))
  <2>1. ASSUME NEW x \in S, NEW y \in S, rank[x] = rank[y] PROVE x = y
    <3>1. rank[x] \in Int /\ rank[y] \in Int
      BY <1>2, <1>5
    <3>2. ~(<<x, y>> \in R) /\ ~(<<y, x>> \in R)
      BY <1>4, <2>1, <3>1
    <3> QED  BY <3>2
  <2> QED  BY <1>5, <2>1 DEF Injection, IsInjective
<1>7. IsFiniteSet(0..(size - 1)) /\ Cardinality(0..(size - 1)) = size
  <2> HIDE DEF size
  <2>1. 0 \in Int /\ size - 1 \in Int
    BY <1>2
  <2> QED  BY <1>2, <2>1, FS_Interval
<1>8. rank \in Surjection(S, 0..(size - 1))
  BY <1>6, <1>7, FS_Injection
<1>9. IsFiniteSet(firsts)
  BY FS_Subset
<1>10. [x \in firsts |-> rank[x]] \in Bijection(firsts, 0..(n - 1))
  <2> DEFINE f == [x \in firsts |-> rank[x]]
  <2>1. f \in [firsts -> 0..(n - 1)] /\ IsInjective(f)
    BY <1>2, <1>5, <1>6 DEF Injection, IsInjective
  <2>2. \A k \in 0..(n - 1) : \E x \in firsts : f[x] = k
    BY <1>2, <1>8 DEF Surjection
  <2> QED  BY <2>1, <2>2 DEF Bijection, Injection, Surjection
<1>11. Cardinality(0..(n - 1)) = Cardinality(firsts)
  BY <1>9, <1>10, FS_Bijection DEF ExistsBijection
<1>12. Cardinality(0..(n - 1)) = n
  BY <1>2, FS_Interval
<1>13. First(S, R, n) = firsts
  BY DEF First, rank
<1> QED  BY <1>9, <1>11, <1>12, <1>13

-----------------------------------------------------------------------------
(* The heap of a queue. *)

Heap == [Element -> Nat]

LEMMA DepthIsPlace ==
  ASSUME NEW e \in Element
  PROVE  Depth(e) \in Nat /\ Plan[Depth(e)] = e
<1>1. Plan \in Seq(Element) /\ \E i \in DOMAIN Plan : Plan[i] = e
  BY PlanAssumption DEF Range
<1>2. Depth(e) \in DOMAIN Plan /\ Plan[Depth(e)] = e
  BY <1>1 DEF Depth
<1>3. DOMAIN Plan \subseteq Nat
  BY <1>1
<1> QED  BY <1>2, <1>3

LEMMA CopiesAre ==
  ASSUME NEW heap \in Heap
  PROVE  /\ IsFiniteSet(Copies(heap))
         /\ Copies(heap) = {c \in Element \X Nat : c[2] \in 1..heap[c[1]]}
<1>1. \A e \in Element : heap[e] \in Nat
  BY DEF Heap
<1> DEFINE of == [e \in Element |-> {e} \X (1..heap[e])]
           all == {of[e] : e \in Element}
<1>2. ASSUME NEW e \in Element PROVE IsFiniteSet(of[e])
  <2>1. 1 \in Int /\ heap[e] \in Int
    BY <1>1
  <2>2. IsFiniteSet({e}) /\ IsFiniteSet(1..heap[e])
    BY <2>1, FS_Singleton, FS_Interval
  <2>3. IsFiniteSet({e} \X (1..heap[e]))
    BY <2>2, FS_Product
  <2> QED  BY <2>3
<1>3. of \in Surjection(Element, all)
  BY DEF Surjection
<1>4. IsFiniteSet(all)
  <2> HIDE DEF of, all
  <2> QED  BY <1>3, ElementAssumption, FS_Surjection
<1>5. \A T \in all : IsFiniteSet(T)
  BY <1>2
<1>6. IsFiniteSet(UNION all)
  <2> HIDE DEF all
  <2> QED  BY <1>4, <1>5, FS_UNION
<1>7. Copies(heap) = UNION all
  BY DEF Copies
<1>8. Copies(heap) = {c \in Element \X Nat : c[2] \in 1..heap[c[1]]}
  BY <1>1 DEF Copies
<1> QED  BY <1>6, <1>7, <1>8

\* A queue takes as many copies as it is told to.
LEMMA PoppedCounted ==
  ASSUME NEW heap \in Heap, NEW n \in 0..Cardinality(Copies(heap))
  PROVE  /\ Popped(heap, n) \subseteq Copies(heap)
         /\ IsFiniteSet(Popped(heap, n))
         /\ Cardinality(Popped(heap, n)) = n
<1> DEFINE C == Copies(heap)
           R == {p \in C \X C : Before(p[1], p[2])}
<1>1. IsFiniteSet(C) /\ \A c \in C : c[1] \in Element /\ c[2] \in Nat /\ c = <<c[1], c[2]>>
  BY CopiesAre
<1> HIDE DEF C
<1>2. \A c, d \in C : <<c, d>> \in R <=> Before(c, d)
  OBVIOUS
<1> HIDE DEF R
<1>3. \A x \in C : <<x, x>> \notin R
  BY <1>1, <1>2, DepthIsPlace DEF Before
<1>4. ASSUME NEW x \in C, NEW y \in C PROVE x = y \/ <<x, y>> \in R \/ <<y, x>> \in R
  <2>1. CASE x[1] = y[1]
    <3>1. x[2] < y[2] \/ y[2] < x[2] \/ x[2] = y[2]
      BY <1>1
    <3> QED  BY <1>1, <1>2, <2>1, <3>1 DEF Before
  <2>2. CASE x[1] # y[1]
    <3>1. Depth(x[1]) < Depth(y[1]) \/ Depth(y[1]) < Depth(x[1])
      BY <1>1, <2>2, DepthIsPlace
    <3> QED  BY <1>2, <3>1 DEF Before
  <2> QED  BY <2>1, <2>2
<1>5. \A x, y, z \in C : <<x, y>> \in R /\ <<y, z>> \in R => <<x, z>> \in R
  BY <1>1, <1>2, DepthIsPlace DEF Before
<1>6. n \in 0..Cardinality(C)
  BY DEF C
<1>7. IsFiniteSet(First(C, R, n)) /\ Cardinality(First(C, R, n)) = n
  BY <1>1, <1>3, <1>4, <1>5, <1>6, FirstCounted
<1>8. Popped(heap, n) = First(C, R, n)
  <2>1. \A c \in C : {d \in C : Before(d, c)} = {d \in C : <<d, c>> \in R}
    BY <1>2
  <2> QED  BY <2>1 DEF Popped, First, C
<1> QED  BY <1>7, <1>8 DEF First, C

-----------------------------------------------------------------------------
(* What a queue takes of its heap, and what is used after it did. *)

Counts == [QueueId -> Heap]

LEMMA QueuesTyped ==
  /\ QueueId = 1..Len(Queues) /\ Len(Queues) \in Nat
  /\ \A q \in QueueId : Queues[q] \in {"Pull", "Fetch", "Build", "Push"}
  /\ \A q \in QueueId : Needs(q) \subseteq Resource
<1>1. Queues \in Seq({"Pull", "Fetch", "Build", "Push"})
  BY QueuesAssumption DEF QueueOrder
<1>2. QueueId = 1..Len(Queues) /\ Len(Queues) \in Nat
  BY <1>1 DEF QueueId
<1>3. \A q \in QueueId : Queues[q] \in {"Pull", "Fetch", "Build", "Push"}
  BY <1>1 DEF QueueId
<1>4. \A q \in QueueId : Needs(q) \subseteq Resource
  BY <1>3 DEF Needs, Resource
<1> QED  BY <1>2, <1>3, <1>4

\* What may be used of the resources.
Within == {u \in [Resource -> Nat] :
             \A r \in Resource : MaxResources[r] > 0 => u[r] <= MaxResources[r]}

LEMMA TakenFits ==
  ASSUME NEW q \in QueueId, NEW heap \in Heap, NEW left \in Within
  PROVE  /\ Taken(q, heap, left) \in 0..Cardinality(Copies(heap))
         /\ [r \in Resource |->
               left[r] + (IF r \in Needs(q) THEN Taken(q, heap, left) ELSE 0)] \in Within
<1> DEFINE size == Cardinality(Copies(heap))
           fits == {n \in 0..size :
                      \A r \in Needs(q) : MaxResources[r] = 0 \/ left[r] + n <= MaxResources[r]}
           taken == Taken(q, heap, left)
<1>1. size \in Nat
  BY CopiesAre, FS_CardinalityType
<1>2. /\ \A r \in Resource : left[r] \in Nat /\ MaxResources[r] \in Nat
      /\ \A r \in Resource : MaxResources[r] = 0 \/ left[r] <= MaxResources[r]
  BY ParameterAssumption DEF Within
<1>3. taken = 0 \/ taken \in fits
  <2>1. fits \in SUBSET Nat /\ \A n \in fits : n <= size
    BY <1>1
  <2>2. 0 \in fits
    BY <1>1, <1>2, QueuesTyped
  <2>3. Max(fits) \in fits
    <3> HIDE DEF fits
    <3> QED  BY <1>1, <2>1, <2>2, Greatest
  <2> QED  BY <2>3 DEF Taken
<1>4. taken \in 0..size
  BY <1>1, <1>3
<1>5. ASSUME NEW r \in Needs(q), MaxResources[r] > 0
      PROVE  left[r] + taken <= MaxResources[r]
  BY <1>2, <1>3, <1>5, QueuesTyped
<1> HIDE DEF taken
<1>6. ASSUME NEW r \in Resource
      PROVE  /\ left[r] + (IF r \in Needs(q) THEN taken ELSE 0) \in Nat
             /\ MaxResources[r] > 0 =>
                  left[r] + (IF r \in Needs(q) THEN taken ELSE 0) <= MaxResources[r]
  BY <1>1, <1>2, <1>4, <1>5
<1>7. [r \in Resource |-> left[r] + (IF r \in Needs(q) THEN taken ELSE 0)] \in Within
  BY <1>6 DEF Within
<1> QED  BY <1>4, <1>7 DEF taken

LEMMA UsedAfterIs ==
  ASSUME NEW queued \in Counts, used \in Within
  PROVE  LET after == UsedAfter(queued)
         IN /\ after[Len(Queues) + 1] = used
            /\ \A q \in QueueId :
                 LET left == after[q + 1]
                 IN /\ left \in Within
                    /\ after[q] = [r \in Resource |-> left[r] +
                         (IF r \in Needs(q) THEN Taken(q, queued[q], left) ELSE 0)]
<1> DEFINE N == Len(Queues)
           Use(q, left) == [r \in Resource |-> left[r] +
                              (IF r \in Needs(q) THEN Taken(q, queued[q], left) ELSE 0)]
           Def(f) == f = [q \in 1..(N + 1) |-> IF q > N THEN used ELSE Use(q, f[q + 1])]
           after == UsedAfter(queued)
<1>1. N \in Nat /\ QueueId = 1..N /\ \A q \in QueueId : queued[q] \in Heap
  BY QueuesTyped DEF Counts
<1>2. \A q \in QueueId, left \in Within : Use(q, left) \in Within
  BY <1>1, TakenFits
<1>3. after = CHOOSE f : Def(f)
  BY DEF UsedAfter
<1> HIDE DEF Use, after, N
<1>4. \E f : Def(f)
  <2> DEFINE step == [p \in (1..N) \X Within |-> Use(N + 1 - p[1], p[2])]
  <2>1. step \in [(1..N) \X Within -> Within]
    BY <1>1, <1>2
  <2>2. \A i \in 1..N, left \in Within : step[<<i, left>>] = Use(N + 1 - i, left)
    OBVIOUS
  <2> HIDE DEF step
  <2>3. PICK f \in [0..N -> Within] :
          f[0] = used /\ \A i \in 1..N : f[i] = step[<<i, f[i - 1]>>]
    <3>1. Runs(N, Within, used, step) # {}
      BY <1>1, <2>1, Recursion DEF Steps
    <3> QED  BY <3>1 DEF Runs
  <2> DEFINE g == [q \in 1..(N + 1) |-> f[N + 1 - q]]
  <2>4. ASSUME NEW q \in 1..(N + 1)
        PROVE  g[q] = IF q > N THEN used ELSE Use(q, g[q + 1])
    <3>1. CASE q = N + 1
      BY <1>1, <2>3, <3>1
    <3>2. CASE q \in 1..N
      <4>1. g[q] = f[N + 1 - q] /\ g[q + 1] = f[N - q] /\ N - q \in 0..N /\ N + 1 - q \in 1..N
        BY <1>1, <3>2
      <4>2. f[N + 1 - q] = step[<<N + 1 - q, f[N - q]>>] /\ f[N - q] \in Within
        BY <1>1, <2>3, <4>1
      <4>3. step[<<N + 1 - q, f[N - q]>>] = Use(q, f[N - q])
        BY <1>1, <2>2, <4>1, <4>2
      <4> QED  BY <1>1, <3>2, <4>1, <4>2, <4>3
    <3> QED  BY <1>1, <3>1, <3>2
  <2>5. Def(g)
    BY <2>4
  <2> QED  BY <2>5
<1>5. Def(after)
  <2> HIDE DEF Def
  <2> QED  BY <1>3, <1>4
<1>6. /\ after[N + 1] = used
      /\ \A q \in 1..N : after[q] = Use(q, after[q + 1])
  BY <1>1, <1>5
<1> DEFINE T == {i \in 0..N : after[N + 1 - i] \in Within}
<1>7. 0 \in T
  BY <1>1, <1>6
<1>8. ASSUME NEW i \in 0..(N - 1), i \in T PROVE i + 1 \in T
  <2>1. N - i \in 1..N /\ N + 1 - (i + 1) = N - i /\ (N - i) + 1 = N + 1 - i
    BY <1>1
  <2>2. after[N - i] = Use(N - i, after[N + 1 - i])
    BY <1>6, <2>1
  <2>3. after[N + 1 - i] \in Within
    BY <1>8
  <2> QED  BY <1>1, <1>2, <2>1, <2>2, <2>3
<1>9. \A i \in 0..N : i \in T
  <2> HIDE DEF T
  <2> QED  BY <1>1, <1>7, <1>8, Climb
<1>10. ASSUME NEW q \in QueueId PROVE after[q + 1] \in Within
  <2>1. N - q \in 0..N /\ N + 1 - (N - q) = q + 1
    BY <1>1
  <2> QED  BY <1>9, <2>1
<1> QED  BY <1>1, <1>6, <1>10 DEF Use, after, N

LEMMA LeavingTyped ==
  ASSUME doneQueue \in Counts
  PROVE  /\ Leaving[0] = Nothing
         /\ \A q \in QueueId :
              /\ Leaving[q - 1] \in Heap
              /\ Leaving[q] = [e \in Element |-> doneQueue[q][e] +
                                 (IF Skipped(q, e) THEN Leaving[q - 1][e] ELSE 0)]
<1> DEFINE N == Len(Queues)
           Pass(q, given) == [e \in Element |->
                                doneQueue[q][e] + (IF Skipped(q, e) THEN given[e] ELSE 0)]
           Def(f) == f = [q \in 0..N |-> IF q = 0 THEN Nothing ELSE Pass(q, f[q - 1])]
<1>1. N \in Nat /\ QueueId = 1..N /\ Nothing \in Heap
  BY QueuesTyped DEF Nothing, Heap
<1>2. \A q \in QueueId, given \in Heap : Pass(q, given) \in Heap
  BY DEF Counts, Heap
<1>3. Leaving = CHOOSE f : Def(f)
  BY DEF Leaving
<1> HIDE DEF Pass, N
<1>4. \E f : Def(f)
  <2> DEFINE step == [p \in (1..N) \X Heap |-> Pass(p[1], p[2])]
  <2>1. step \in [(1..N) \X Heap -> Heap]
    BY <1>1, <1>2
  <2>2. \A i \in 1..N, given \in Heap : step[<<i, given>>] = Pass(i, given)
    OBVIOUS
  <2> HIDE DEF step
  <2>3. PICK f \in [0..N -> Heap] :
          f[0] = Nothing /\ \A i \in 1..N : f[i] = step[<<i, f[i - 1]>>]
    <3>1. Runs(N, Heap, Nothing, step) # {}
      BY <1>1, <2>1, Recursion DEF Steps
    <3> QED  BY <3>1 DEF Runs
  <2>4. ASSUME NEW q \in 1..N PROVE f[q] = Pass(q, f[q - 1])
    <3>1. f[q - 1] \in Heap
      BY <1>1, <2>3
    <3> QED  BY <2>2, <2>3, <3>1
  <2>5. Def(f)
    BY <1>1, <2>3, <2>4
  <2> QED  BY <2>5
<1>5. Def(Leaving)
  <2> HIDE DEF Def
  <2> QED  BY <1>3, <1>4
<1>6. Leaving[0] = Nothing /\ \A q \in 1..N : Leaving[q] = Pass(q, Leaving[q - 1])
  BY <1>1, <1>5
<1> DEFINE T == {i \in 0..N : Leaving[i] \in Heap}
<1>7. 0 \in T
  BY <1>1, <1>6
<1>8. ASSUME NEW i \in 0..(N - 1), i \in T PROVE i + 1 \in T
  <2>1. i + 1 \in 1..N /\ (i + 1) - 1 = i
    BY <1>1
  <2> QED  BY <1>1, <1>2, <1>6, <1>8, <2>1
<1>9. \A i \in 0..N : i \in T
  <2> HIDE DEF T
  <2> QED  BY <1>1, <1>7, <1>8, Climb
<1>10. \A q \in QueueId : Leaving[q - 1] \in Heap
  BY <1>1, <1>9
<1> QED  BY <1>1, <1>6, <1>10 DEF Pass

-----------------------------------------------------------------------------
(* The jobs of a session: finitely many, told apart by their queue, element *)
(* and number.                                                              *)

JobsTyped == jobs \subseteq JobRecord /\ IsFiniteSet(jobs)

SameJob(j, k) == j.queue = k.queue /\ j.elem = k.elem /\ j.copy = k.copy

JobsDistinct == \A j, k \in jobs : SameJob(j, k) => j = k

\* The number that JobsOf counts on from.
Latest(q, e) == Max({0} \cup {j.copy : j \in {k \in jobs : k.queue = q /\ k.elem = e}})

LEMMA LatestIsLatest ==
  ASSUME JobsTyped, NEW q \in QueueId, NEW e \in Element
  PROVE  /\ Latest(q, e) \in Nat
         /\ \A k \in jobs : k.queue = q /\ k.elem = e => k.copy <= Latest(q, e)
<1> DEFINE of == {k \in jobs : k.queue = q /\ k.elem = e}
           copy == [j \in of |-> j.copy]
           copies == {j.copy : j \in of}
<1>1. IsFiniteSet(of)
  BY FS_Subset DEF JobsTyped
<1>2. copy \in Surjection(of, copies)
  BY DEF Surjection
<1>3. copies \in SUBSET Nat
  BY DEF JobsTyped, JobRecord
<1>4. IsFiniteSet(copies)
  <2> HIDE DEF of, copy, copies
  <2> QED  BY <1>1, <1>2, FS_Surjection
<1> DEFINE S == {0} \cup copies
<1>5. S \in SUBSET Nat /\ S # {} /\ IsFiniteSet(S)
  <2> HIDE DEF copies
  <2>1. IsFiniteSet(copies \cup {0})
    BY <1>4, FS_AddElement
  <2>2. S = copies \cup {0}
    OBVIOUS
  <2> QED  BY <1>3, <2>1, <2>2
<1>6. Max(S) \in S /\ \A n \in S : n <= Max(S)
  <2> HIDE DEF S
  <2>1. PICK b \in Nat : \A n \in S : n <= b
    BY <1>5, FiniteIsBounded
  <2> QED  BY <1>5, <2>1, Greatest
<1>7. Latest(q, e) = Max(S)
  BY DEF Latest
<1>8. ASSUME NEW k \in jobs, k.queue = q, k.elem = e PROVE k.copy \in S
  BY <1>8
<1> QED  BY <1>5, <1>6, <1>7, <1>8

LEMMA JobsOfCounted ==
  ASSUME JobsTyped, NEW q \in QueueId,
         NEW popped \in SUBSET (Element \X (Nat \ {0})), IsFiniteSet(popped)
  PROVE  LET new == JobsOf(q, popped)
         IN /\ new \subseteq JobRecord
            /\ \A j \in new : j.queue = q /\ j.st = "start" /\ \E c \in popped : c[1] = j.elem
            /\ \A j \in new, k \in jobs : ~SameJob(j, k)
            /\ \A j, k \in new : SameJob(j, k) => j = k
            /\ IsFiniteSet(new) /\ Cardinality(new) = Cardinality(popped)
<1> DEFINE job(c) == [queue |-> q, elem |-> c[1], copy |-> Latest(q, c[1]) + c[2],
                      st |-> "start", stop |-> "no"]
           of == [c \in popped |-> job(c)]
           new == JobsOf(q, popped)
<1>1. new = {job(c) : c \in popped}
  BY DEF JobsOf, Latest
<1>2. ASSUME NEW c \in popped
      PROVE  /\ c[1] \in Element /\ c[2] \in Nat /\ c[2] # 0 /\ c = <<c[1], c[2]>>
             /\ Latest(q, c[1]) \in Nat
             /\ \A k \in jobs : k.queue = q /\ k.elem = c[1] => k.copy <= Latest(q, c[1])
  BY LatestIsLatest
<1>3. new \subseteq JobRecord
  BY <1>1, <1>2 DEF JobRecord, JobState
<1>4. \A j \in new : j.queue = q /\ j.st = "start" /\ \E c \in popped : c[1] = j.elem
  BY <1>1
<1>5. \A j \in new, k \in jobs : ~SameJob(j, k)
  <2> SUFFICES ASSUME NEW c \in popped, NEW k \in jobs, SameJob(job(c), k) PROVE FALSE
    BY <1>1
  <2>1. k.queue = q /\ k.elem = c[1] /\ k.copy = Latest(q, c[1]) + c[2]
    BY DEF SameJob
  <2> QED  BY <1>2, <2>1
<1>6. ASSUME NEW c \in popped, NEW d \in popped, SameJob(job(c), job(d)) PROVE c = d
  <2>1. c[1] = d[1] /\ Latest(q, c[1]) + c[2] = Latest(q, d[1]) + d[2]
    BY <1>6 DEF SameJob
  <2>2. c[2] = d[2]
    BY <1>2, <2>1
  <2> QED  BY <1>2, <2>1, <2>2
<1>7. \A j, k \in new : SameJob(j, k) => j = k
  BY <1>1, <1>6
<1>8. of \in Bijection(popped, new)
  <2>1. of \in [popped -> new] /\ \A j \in new : \E c \in popped : of[c] = j
    BY <1>1
  <2>2. \A c, d \in popped : of[c] = of[d] => c = d
    BY <1>6 DEF SameJob
  <2> HIDE DEF of, new
  <2> QED  BY <2>1, <2>2 DEF Bijection, Injection, Surjection, IsInjective
<1>9. IsFiniteSet(new) /\ Cardinality(new) = Cardinality(popped)
  <2> HIDE DEF of, new
  <2> QED  BY <1>8, FS_Bijection DEF ExistsBijection
<1> QED  BY <1>3, <1>4, <1>5, <1>7, <1>9

-----------------------------------------------------------------------------
(* The invariant. *)

SessionTyped ==
  /\ phase \in {"query", "queried", "run", "stopped"}
  /\ position \in Nat \ {0} /\ (phase = "queried" => position <= Len(Plan))
  /\ readyQueue \in Counts /\ doneQueue \in Counts /\ failedTasks \in Counts
  /\ requiredCallback \subseteq Element
  /\ canQueryCallback \subseteq Element
  /\ buildableCallback \subseteq Element
  /\ used \in [Resource -> Nat]
  /\ schedHandle \in BOOLEAN /\ queueJobs \in BOOLEAN
  /\ terminated \in BOOLEAN /\ streamTerminated \in BOOLEAN /\ terminatePending \in BOOLEAN
  /\ userRetries \in 0..MaxUserRetries

JobInv == SessionTyped /\ JobsTyped /\ JobsDistinct /\ ResourcesExact

LEMMA UsedIsWithin == JobInv => used \in Within
BY DEF JobInv, SessionTyped, ResourcesExact, Within

\* What QueueJobs calls arrived, queued, after and popped.
Arrived == [q \in QueueId |-> Leaving[q - 1]]
Queued == [q \in QueueId |-> [e \in Element |->
             readyQueue[q][e] + (IF Ready(q, e) THEN Arrived[q][e] ELSE 0)]]
After == UsedAfter(Queued)
PoppedOf(q) == Popped(Queued[q], Taken(q, Queued[q], After[q + 1]))

LEMMA QueueJobsDoes ==
  ASSUME QueueJobs
  PROVE  /\ readyQueue' = [q \in QueueId |-> [e \in Element |->
                             Queued[q][e] - Cardinality({c \in PoppedOf(q) : c[1] = e})]]
         /\ doneQueue' = NoArrivals
         /\ canQueryCallback' = canQueryCallback \cup Registered("Fetch", Arrived)
         /\ buildableCallback' = buildableCallback \cup Registered("Build", Arrived)
         /\ used' = After[1]
         /\ jobs' = jobs \cup UNION {JobsOf(q, PoppedOf(q)) : q \in QueueId}
<1> DEFINE popped == [q \in QueueId |-> PoppedOf(q)]
<1>1. /\ readyQueue' = [q \in QueueId |-> [e \in Element |->
                          Queued[q][e] - Cardinality({c \in popped[q] : c[1] = e})]]
      /\ doneQueue' = NoArrivals
      /\ canQueryCallback' = canQueryCallback \cup Registered("Fetch", Arrived)
      /\ buildableCallback' = buildableCallback \cup Registered("Build", Arrived)
      /\ used' = After[1]
      /\ jobs' = jobs \cup UNION {JobsOf(q, popped[q]) : q \in QueueId}
  BY DEF QueueJobs, Arrived, Queued, After, PoppedOf
<1>2. \A q \in QueueId : popped[q] = PoppedOf(q)
  OBVIOUS
<1> HIDE DEF popped
<1> QED  BY <1>1, <1>2

\* What the queues hold and take in one run of real_schedule.
LEMMA QueuedAndPopped ==
  ASSUME JobInv
  PROVE  /\ Arrived \in Counts /\ Queued \in Counts
         /\ After[Len(Queues) + 1] = used
         /\ \A q \in QueueId :
              /\ PoppedOf(q) \subseteq Element \X (Nat \ {0}) /\ IsFiniteSet(PoppedOf(q))
              /\ \A c \in PoppedOf(q) : c[2] \in 1..Queued[q][c[1]]
              /\ PoppedOf(q) # {} => q \in Harvested
              /\ After[q + 1] \in Within
              /\ After[q] = [r \in Resource |-> After[q + 1][r] +
                   (IF r \in Needs(q) THEN Cardinality(PoppedOf(q)) ELSE 0)]
              /\ After[q] \in Within
<1>1. Arrived \in Counts
  BY LeavingTyped DEF JobInv, SessionTyped, Arrived, Counts
<1>2. Queued \in Counts
  BY <1>1 DEF JobInv, SessionTyped, Queued, Counts, Heap
<1>3. /\ After[Len(Queues) + 1] = used
      /\ \A q \in QueueId :
           /\ After[q + 1] \in Within
           /\ After[q] = [r \in Resource |-> After[q + 1][r] +
                (IF r \in Needs(q) THEN Taken(q, Queued[q], After[q + 1]) ELSE 0)]
  BY <1>2, UsedIsWithin, UsedAfterIs DEF After
<1>4. ASSUME NEW q \in QueueId
      PROVE  /\ PoppedOf(q) \subseteq Element \X (Nat \ {0}) /\ IsFiniteSet(PoppedOf(q))
             /\ \A c \in PoppedOf(q) : c[2] \in 1..Queued[q][c[1]]
             /\ PoppedOf(q) # {} => q \in Harvested
             /\ Cardinality(PoppedOf(q)) = Taken(q, Queued[q], After[q + 1])
             /\ After[q] \in Within
  <2> DEFINE heap == Queued[q]
             n == Taken(q, heap, After[q + 1])
  <2>1. heap \in Heap /\ After[q + 1] \in Within
    BY <1>2, <1>3 DEF Counts
  <2>2. /\ n \in 0..Cardinality(Copies(heap))
        /\ [r \in Resource |-> After[q + 1][r] + (IF r \in Needs(q) THEN n ELSE 0)] \in Within
    <3> HIDE DEF heap
    <3> QED  BY <2>1, TakenFits
  <2>3. After[q] \in Within
    BY <1>3, <2>2
  <2>4. PoppedOf(q) = Popped(heap, n)
    BY DEF PoppedOf
  <2>5. q \notin Harvested => n = 0
    BY DEF Taken
  <2> HIDE DEF heap, n
  <2>6. /\ Popped(heap, n) \subseteq Copies(heap)
        /\ IsFiniteSet(Popped(heap, n)) /\ Cardinality(Popped(heap, n)) = n
    BY <2>1, <2>2, PoppedCounted
  <2>7. \A c \in Copies(heap) : /\ c \in Element \X (Nat \ {0})
                                /\ c[2] \in 1..heap[c[1]]
    BY <2>1, CopiesAre DEF Heap
  <2>8. PoppedOf(q) # {} => q \in Harvested
    BY <2>4, <2>5, <2>6, FS_EmptySet
  <2> QED  BY <2>3, <2>4, <2>6, <2>7, <2>8 DEF heap, n
<1> QED  BY <1>1, <1>2, <1>3, <1>4

\* One queue's new jobs.
New(q) == JobsOf(q, PoppedOf(q))

LEMMA NewOfQueue ==
  ASSUME JobInv, NEW q \in QueueId
  PROVE  /\ New(q) \subseteq JobRecord
         /\ \A j \in New(q) : /\ j.queue = q /\ j.st = "start" /\ q \in Harvested
                              /\ Queued[q][j.elem] # 0
         /\ \A j \in New(q), k \in jobs : ~SameJob(j, k)
         /\ \A j, k \in New(q) : SameJob(j, k) => j = k
         /\ IsFiniteSet(New(q)) /\ Cardinality(New(q)) = Cardinality(PoppedOf(q))
<1>1. /\ PoppedOf(q) \in SUBSET (Element \X (Nat \ {0})) /\ IsFiniteSet(PoppedOf(q))
      /\ \A c \in PoppedOf(q) : c[2] \in 1..Queued[q][c[1]]
      /\ PoppedOf(q) # {} => q \in Harvested
      /\ \A e \in Element : Queued[q][e] \in Nat
  BY QueuedAndPopped DEF Counts, Heap
<1>2. /\ New(q) \subseteq JobRecord
      /\ \A j \in New(q) : j.queue = q /\ j.st = "start" /\ \E c \in PoppedOf(q) : c[1] = j.elem
      /\ \A j \in New(q), k \in jobs : ~SameJob(j, k)
      /\ \A j, k \in New(q) : SameJob(j, k) => j = k
      /\ IsFiniteSet(New(q)) /\ Cardinality(New(q)) = Cardinality(PoppedOf(q))
  BY <1>1, JobsOfCounted DEF New, JobInv
<1>3. ASSUME NEW j \in New(q) PROVE q \in Harvested /\ Queued[q][j.elem] # 0
  <2>1. PICK c \in PoppedOf(q) : c[1] = j.elem
    BY <1>2
  <2> QED  BY <1>1, <2>1
<1> QED  BY <1>2, <1>3

\* The jobs that hold resource r.
Holding(r, J) == {j \in J : r \in Needs(j.queue)}

\* The resources after all the queues from q on have taken theirs.
LEMMA UsedIsHeld ==
  ASSUME JobInv
  PROVE  LET J == jobs \cup UNION {New(q) : q \in QueueId}
         IN  IsFiniteSet(J) /\ \A r \in Resource : After[1][r] = Cardinality(Holding(r, J))
<1> DEFINE N == Len(Queues)
           J(q) == jobs \cup UNION {New(p) : p \in {x \in QueueId : x >= q}}
           Exact(q) == /\ IsFiniteSet(J(q))
                       /\ \A r \in Resource : After[q][r] = Cardinality(Holding(r, J(q)))
           T == {i \in 0..N : Exact(N + 1 - i)}
<1>1. N \in Nat /\ QueueId = 1..N /\ \A q \in QueueId : Needs(q) \subseteq Resource
  BY QueuesTyped
<1>2. Exact(N + 1)
  <2>1. {x \in QueueId : x >= N + 1} = {}
    BY <1>1
  <2>2. J(N + 1) = jobs
    BY <2>1
  <2>3. \A r \in Resource : used[r] = Cardinality(Holding(r, jobs))
    BY DEF JobInv, ResourcesExact, Holding
  <2> HIDE DEF J
  <2> QED  BY <2>2, <2>3, QueuedAndPopped DEF JobInv, JobsTyped
<1>3. ASSUME NEW q \in QueueId, Exact(q + 1) PROVE Exact(q)
  <2>1. {x \in QueueId : x >= q} = {x \in QueueId : x >= q + 1} \cup {q}
    BY <1>1
  <2>2. J(q) = J(q + 1) \cup New(q)
    <3> HIDE DEF N
    <3> QED  BY <2>1
  <2>3. J(q + 1) \cap New(q) = {}
    <3> SUFFICES ASSUME NEW j \in J(q + 1), j \in New(q) PROVE FALSE
      OBVIOUS
    <3>1. CASE j \in jobs
      BY <3>1, NewOfQueue DEF SameJob
    <3>2. CASE \E p \in QueueId : p >= q + 1 /\ j \in New(p)
      BY <1>1, <3>2, NewOfQueue
    <3> QED  BY <3>1, <3>2
  <2>4. IsFiniteSet(New(q)) /\ Cardinality(New(q)) = Cardinality(PoppedOf(q))
    BY NewOfQueue
  <2>5. \A j \in New(q) : j.queue = q
    BY NewOfQueue
  <2> DEFINE Later == J(q + 1)
             All == J(q)
  <2>6. All = Later \cup New(q) /\ Later \cap New(q) = {} /\ IsFiniteSet(Later)
    BY <1>3, <2>2, <2>3
  <2>7. \A r \in Resource : After[q + 1][r] = Cardinality(Holding(r, Later))
    BY <1>3
  <2> HIDE DEF Later, All, J
  <2>8. IsFiniteSet(All)
    BY <2>4, <2>6, FS_Union
  <2>9. ASSUME NEW r \in Resource PROVE After[q][r] = Cardinality(Holding(r, All))
    <3>1. IsFiniteSet(Holding(r, Later)) /\ Holding(r, Later) \cap New(q) = {}
      BY <2>6, FS_Subset DEF Holding
    <3>2. CASE r \in Needs(q)
      <4>1. Holding(r, All) = Holding(r, Later) \cup New(q)
        BY <2>5, <2>6, <3>2 DEF Holding
      <4>2. Cardinality(Holding(r, All)) =
              Cardinality(Holding(r, Later)) + Cardinality(New(q))
        <5>1. Cardinality(Holding(r, Later) \cap New(q)) = 0
          BY <3>1, FS_EmptySet
        <5>2. Cardinality(Holding(r, Later)) \in Nat /\ Cardinality(New(q)) \in Nat
          BY <2>4, <3>1, FS_CardinalityType
        <5>3. Cardinality(Holding(r, Later) \cup New(q)) =
                Cardinality(Holding(r, Later)) + Cardinality(New(q))
                  - Cardinality(Holding(r, Later) \cap New(q))
          BY <2>4, <3>1, FS_Union
        <5> QED  BY <4>1, <5>1, <5>2, <5>3
      <4>3. After[q][r] = After[q + 1][r] + Cardinality(PoppedOf(q))
        BY <3>2, QueuedAndPopped
      <4> QED  BY <2>4, <2>7, <4>2, <4>3
    <3>3. CASE r \notin Needs(q)
      <4>1. Holding(r, All) = Holding(r, Later)
        BY <2>5, <2>6, <3>3 DEF Holding
      <4>2. After[q][r] = After[q + 1][r] + 0 /\ After[q + 1][r] \in Nat
        BY <3>3, QueuedAndPopped DEF Within
      <4> QED  BY <2>7, <4>1, <4>2
    <3> QED  BY <3>2, <3>3
  <2> QED  BY <2>8, <2>9 DEF All
<1> HIDE DEF Exact
<1>4. 0 \in T
  BY <1>1, <1>2
<1>5. ASSUME NEW i \in 0..(N - 1), i \in T PROVE i + 1 \in T
  <2>1. N - i \in QueueId /\ N + 1 - i = (N - i) + 1 /\ N + 1 - (i + 1) = N - i
    BY <1>1
  <2>2. Exact((N - i) + 1)
    BY <1>5, <2>1
  <2>3. Exact(N - i)
    BY <1>3, <2>1, <2>2
  <2> QED  BY <1>1, <2>1, <2>3
<1>6. N \in T
  <2>1. \A i \in 0..N : i \in T
    <3> HIDE DEF T
    <3> QED  BY <1>1, <1>4, <1>5, Climb
  <2> QED  BY <1>1, <2>1
<1>7. Exact(1)
  <2>1. N + 1 - N = 1
    BY <1>1
  <2> QED  BY <1>6, <2>1
<1>8. J(1) = jobs \cup UNION {New(q) : q \in QueueId}
  <2>1. {x \in QueueId : x >= 1} = QueueId
    BY <1>1
  <2> QED  BY <2>1
<1> QED  BY <1>7, <1>8 DEF Exact

\* Steps that leave the jobs and the resources alone.
LEMMA SameJobs ==
  ASSUME JobInv, UNCHANGED <<jobs, used>>
  PROVE  JobsTyped' /\ JobsDistinct' /\ ResourcesExact'
BY DEF JobInv, JobsTyped, JobsDistinct, ResourcesExact

\* Steps that change how far jobs are, but not what they are jobs for.
LEMMA JobsMoved ==
  ASSUME JobInv, UNCHANGED used,
         NEW f \in [jobs -> JobRecord], \A j \in jobs : SameJob(f[j], j),
         jobs' = {f[j] : j \in jobs}
  PROVE  JobsTyped' /\ JobsDistinct' /\ ResourcesExact'
<1>1. \A j, k \in jobs : SameJob(f[j], f[k]) => j = k
  BY DEF JobInv, JobsDistinct, SameJob
<1>2. JobsDistinct'
  BY <1>1 DEF JobsDistinct, SameJob
<1>3. f \in Bijection(jobs, jobs')
  BY <1>1 DEF Bijection, Injection, Surjection, IsInjective, SameJob
<1>4. IsFiniteSet(jobs')
  BY <1>3, FS_Bijection DEF JobInv, JobsTyped, ExistsBijection
<1>5. ASSUME NEW r \in Resource
      PROVE  Cardinality(Holding(r, jobs')) = Cardinality(Holding(r, jobs))
  <2> DEFINE H == Holding(r, jobs)
             g == [j \in H |-> f[j]]
  <2>1. H \subseteq jobs /\ IsFiniteSet(H)
    BY FS_Subset DEF Holding, JobInv, JobsTyped
  <2>2. \A j \in jobs : f[j] \in Holding(r, jobs') <=> j \in H
    BY DEF Holding, SameJob
  <2> HIDE DEF H
  <2>3. g \in Bijection(H, Holding(r, jobs'))
    <3>1. g \in [H -> Holding(r, jobs')]
      BY <2>1, <2>2
    <3>2. \A k \in Holding(r, jobs') : \E j \in H : g[j] = k
      <4> SUFFICES ASSUME NEW k \in Holding(r, jobs') PROVE \E j \in H : g[j] = k
        OBVIOUS
      <4>1. PICK j \in jobs : f[j] = k
        BY DEF Holding
      <4> QED  BY <2>2, <4>1
    <3>3. \A j, k \in H : g[j] = g[k] => j = k
      BY <1>3, <2>1 DEF Bijection, Injection, IsInjective
    <3> HIDE DEF g
    <3> QED  BY <3>1, <3>2, <3>3 DEF Bijection, Injection, Surjection, IsInjective
  <2> HIDE DEF g
  <2> QED  BY <2>1, <2>3, FS_Bijection DEF ExistsBijection, H
<1>6. ResourcesExact'
  BY <1>5 DEF JobInv, ResourcesExact, Holding
<1> QED  BY <1>2, <1>4, <1>6 DEF JobsTyped

LEMMA ThreadAtMoves ==
  ASSUME JobInv, UNCHANGED used, NEW j \in jobs, NEW st \in JobState, ThreadAt(j, st)
  PROVE  /\ JobsTyped' /\ JobsDistinct' /\ ResourcesExact'
         /\ \A k \in jobs' : \E l \in jobs : SameJob(k, l)
<1> DEFINE f == [k \in jobs |-> IF k = j THEN [j EXCEPT !.st = st] ELSE k]
<1>1. j \in JobRecord /\ [j EXCEPT !.st = st] \in JobRecord
  BY DEF JobInv, JobsTyped, JobRecord
<1>2. SameJob([j EXCEPT !.st = st], j)
  BY <1>1 DEF SameJob, JobRecord
<1>3. f \in [jobs -> JobRecord] /\ \A k \in jobs : SameJob(f[k], k)
  BY <1>1, <1>2 DEF JobInv, JobsTyped, SameJob
<1>4. jobs' = {f[k] : k \in jobs}
  BY DEF ThreadAt
<1> HIDE DEF f
<1> QED  BY <1>3, <1>4, JobsMoved

LEMMA ThreadStepMoves ==
  ASSUME NEW j, ThreadStep(j)
  PROVE  UNCHANGED mainVars /\ \E st \in JobState : ThreadAt(j, st)
BY DEF ThreadStep, Begin, PullStep, FetchStep, Assemble, CacheArtifact, PushStep, Terminate,
       JobState

LEMMA TerminateJobsMoves ==
  ASSUME JobInv, TerminateJobs
  PROVE  /\ JobsTyped' /\ JobsDistinct' /\ ResourcesExact'
         /\ \A k \in jobs' : \E l \in jobs : SameJob(k, l)
<1> DEFINE stop(j) == IF j.stop # "no" \/ j.st \in Over THEN j.stop
                      ELSE IF j.st = "start" THEN "unnoticed" ELSE "yes"
           f == [j \in jobs |-> [j EXCEPT !.stop = stop(j)]]
<1>1. ASSUME NEW j \in jobs PROVE f[j] \in JobRecord /\ SameJob(f[j], j)
  <2>1. j \in JobRecord /\ stop(j) \in {"no", "unnoticed", "yes"}
    BY DEF JobInv, JobsTyped, JobRecord
  <2> HIDE DEF stop
  <2> QED  BY <2>1 DEF JobRecord, SameJob
<1>2. jobs' = {f[j] : j \in jobs}
  <2>1. \A j \in jobs : f[j] = [j EXCEPT !.stop = IF @ # "no" \/ j.st \in Over THEN @
                                    ELSE IF j.st = "start" THEN "unnoticed" ELSE "yes"]
    OBVIOUS
  <2> QED  BY <2>1 DEF TerminateJobs
<1>3. f \in [jobs -> JobRecord]
  <2>1. \A j \in jobs : f[j] \in JobRecord
    BY <1>1
  <2> QED  BY <2>1
<1>4. UNCHANGED used
  BY DEF TerminateJobs, loopVars
<1> HIDE DEF f
<1> QED  BY <1>1, <1>2, <1>3, <1>4, JobsMoved

LEMMA EnqueueTyped ==
  ASSUME SessionTyped, NEW arrivals \in Counts, NEW done \in Counts, NEW fired,
         Enqueue(arrivals, done, fired)
  PROVE  /\ readyQueue' \in Counts /\ doneQueue' \in Counts
         /\ canQueryCallback' \subseteq Element /\ buildableCallback' \subseteq Element
<1>1. ASSUME NEW p, NEW q \in QueueId, NEW e \in Element
      PROVE  /\ readyQueue[q][e] + (IF p THEN arrivals[q][e] ELSE 0) \in Nat
             /\ done[q][e] + (IF p THEN arrivals[q][e] ELSE 0) \in Nat
  BY DEF SessionTyped, Counts, Heap
<1>2. readyQueue' \in Counts /\ doneQueue' \in Counts
  BY <1>1 DEF Enqueue, Counts, Heap
<1> QED  BY <1>2 DEF Enqueue, Registered, SessionTyped

LEMMA OnceTyped == \A S : Once(S) \in Heap
BY DEF Once, Heap

LEMMA NoArrivalsTyped == NoArrivals \in Counts /\ Nothing \in Heap
BY DEF NoArrivals, Nothing, Counts, Heap

LEMMA ReasonsAreFinite == IsFiniteSet({"required", "canQuery", "buildable", "again"})
<1>1. IsFiniteSet({"required"} \cup {"canQuery"})
  BY FS_Singleton, FS_AddElement
<1>2. IsFiniteSet(({"required"} \cup {"canQuery"}) \cup {"buildable"})
  BY <1>1, FS_AddElement
<1>3. IsFiniteSet((({"required"} \cup {"canQuery"}) \cup {"buildable"}) \cup {"again"})
  BY <1>2, FS_AddElement
<1>4. (({"required"} \cup {"canQuery"}) \cup {"buildable"}) \cup {"again"} =
        {"required", "canQuery", "buildable", "again"}
  OBVIOUS
<1> QED  BY <1>3, <1>4

LEMMA ArrivalsTyped ==
  ASSUME NEW fired, NEW again
  PROVE  Arrivals(fired, again) \in Counts
<1> DEFINE W == {"required", "canQuery", "buildable", "again"}
<1>1. IsFiniteSet(W)
  BY ReasonsAreFinite
<1>2. \A T \in SUBSET W : Cardinality(T) \in Nat
  <2> HIDE DEF W
  <2> QED  BY <1>1, FS_Subset, FS_CardinalityType
<1> DEFINE Reasons(q, e) == {why \in W :
             CASE why = "required"  -> q = 1 /\ e \in fired.required
               [] why = "canQuery"  -> Queues[q] = "Fetch" /\ e \in fired.canQuery
               [] why = "buildable" -> Queues[q] = "Build" /\ e \in fired.buildable
               [] why = "again"     -> <<q, e>> \in again}
<1>3. Arrivals(fired, again) =
        [q \in QueueId |-> [e \in Element |-> Cardinality(Reasons(q, e))]]
  BY DEF Arrivals
<1>4. \A q, e : Reasons(q, e) \in SUBSET W
  OBVIOUS
<1> HIDE DEF Reasons
<1> QED  BY <1>2, <1>3, <1>4 DEF Counts, Heap

\* A job that ends gives back what it holds.
LEMMA JobEnds ==
  ASSUME JobInv, NEW j \in jobs, jobs' = jobs \ {j},
         used' = [r \in Resource |-> IF r \in Needs(j.queue) THEN used[r] - 1 ELSE used[r]]
  PROVE  /\ JobsTyped' /\ JobsDistinct' /\ ResourcesExact'
         /\ used' \in [Resource -> Nat]
<1>1. JobsTyped' /\ JobsDistinct'
  BY FS_RemoveElement DEF JobInv, JobsTyped, JobsDistinct
<1>2. ASSUME NEW r \in Resource
      PROVE  /\ used'[r] = Cardinality(Holding(r, jobs'))
             /\ used'[r] \in Nat /\ used'[r] <= used[r]
  <2>1. IsFiniteSet(Holding(r, jobs)) /\ used[r] = Cardinality(Holding(r, jobs))
    BY FS_Subset DEF Holding, JobInv, JobsTyped, ResourcesExact
  <2>2. CASE r \in Needs(j.queue)
    <3>1. Holding(r, jobs') = Holding(r, jobs) \ {j} /\ j \in Holding(r, jobs)
      BY <2>2 DEF Holding
    <3>2. /\ IsFiniteSet(Holding(r, jobs'))
          /\ Cardinality(Holding(r, jobs')) = Cardinality(Holding(r, jobs)) - 1
      BY <2>1, <3>1, FS_RemoveElement
    <3>3. Cardinality(Holding(r, jobs')) \in Nat /\ Cardinality(Holding(r, jobs)) \in Nat
      BY <2>1, <3>2, FS_CardinalityType
    <3> QED  BY <2>1, <2>2, <3>2, <3>3
  <2>3. CASE r \notin Needs(j.queue)
    <3>1. Holding(r, jobs') = Holding(r, jobs)
      BY <2>3 DEF Holding
    <3> QED  BY <2>1, <2>3, <3>1, FS_CardinalityType
  <2> QED  BY <2>2, <2>3
<1>3. \A r \in Resource : MaxResources[r] > 0 => used'[r] <= MaxResources[r]
  <2>1. \A r \in Resource : used[r] \in Nat /\ MaxResources[r] \in Nat
                            /\ (MaxResources[r] > 0 => used[r] <= MaxResources[r])
    BY ParameterAssumption DEF JobInv, SessionTyped, ResourcesExact
  <2> QED  BY <1>2, <2>1
<1>4. ResourcesExact'
  BY <1>2, <1>3 DEF ResourcesExact, Holding
<1>5. used' \in [Resource -> Nat]
  BY <1>2
<1> QED  BY <1>1, <1>4, <1>5

LEMMA JobDoneKeeps ==
  ASSUME JobInv, NEW j \in jobs, NEW raised \in BOOLEAN, NEW reaction, JobDone(j, raised, reaction)
  PROVE  JobInv'
<1> DEFINE q == j.queue
           e == j.elem
           failed == raised \/ (j.st \in {"fail", "term"} /\ j.stop # "yes")
           tasks == failedTasks[q][e] + (IF failed THEN 1 ELSE 0)
           again == reaction = "retry" /\ tasks > 0
           done == IF raised THEN doneQueue ELSE [doneQueue EXCEPT ![q][e] = @ + 1]
<1>1. q \in QueueId /\ e \in Element
  BY DEF JobInv, JobsTyped, JobRecord
<1>2. JobsTyped' /\ JobsDistinct' /\ ResourcesExact' /\ used' \in [Resource -> Nat]
  BY JobEnds DEF JobDone
<1>3. done \in Counts
  <2>1. doneQueue[q][e] + 1 \in Nat
    BY <1>1 DEF JobInv, SessionTyped, Counts, Heap
  <2>2. [doneQueue[q] EXCEPT ![e] = @ + 1] \in Heap
    BY <1>1, <2>1 DEF JobInv, SessionTyped, Counts, Heap
  <2>3. [doneQueue EXCEPT ![q] = [doneQueue[q] EXCEPT ![e] = @ + 1]] \in Counts
    BY <1>1, <2>2 DEF JobInv, SessionTyped, Counts
  <2> QED  BY <2>3 DEF JobInv, SessionTyped
<1>4. failedTasks' \in Counts
  <2>1. tasks \in Nat /\ (again => tasks - 1 \in Nat)
    BY <1>1 DEF JobInv, SessionTyped, Counts, Heap
  <2> DEFINE n == IF again THEN tasks - 1 ELSE tasks
  <2>2. n \in Nat /\ failedTasks' = [failedTasks EXCEPT ![q][e] = n]
    BY <2>1 DEF JobDone
  <2> HIDE DEF n
  <2>3. [failedTasks[q] EXCEPT ![e] = n] \in Heap
    BY <1>1, <2>2 DEF JobInv, SessionTyped, Counts, Heap
  <2> QED  BY <1>1, <2>2, <2>3 DEF JobInv, SessionTyped, Counts
<1>5. Enqueue(Arrivals(Fired(j), IF again THEN {<<q, e>>} ELSE {}), done, Fired(j))
  BY DEF JobDone
<1>6. /\ readyQueue' \in Counts /\ doneQueue' \in Counts
      /\ canQueryCallback' \subseteq Element /\ buildableCallback' \subseteq Element
  <2> HIDE DEF done, again
  <2> QED  BY <1>3, <1>5, ArrivalsTyped, EnqueueTyped DEF JobInv
<1>7. userRetries' \in 0..MaxUserRetries
  BY ParameterAssumption DEF JobDone, JobInv, SessionTyped
<1>8. /\ phase' = phase /\ position' = position
      /\ requiredCallback' \subseteq Element
      /\ schedHandle' \in BOOLEAN /\ queueJobs' \in BOOLEAN
      /\ terminated' \in BOOLEAN /\ streamTerminated' \in BOOLEAN /\ terminatePending' \in BOOLEAN
  BY DEF JobDone, JobInv, SessionTyped
<1> QED  BY <1>2, <1>4, <1>6, <1>7, <1>8 DEF JobInv, SessionTyped

\* A queue takes no more copies of an element than its heap holds.
LEMMA QueueJobsTake ==
  ASSUME JobInv, QueueJobs, NEW q \in QueueId, NEW e \in Element
  PROVE  /\ Queued[q][e] \in Nat
         /\ readyQueue'[q][e] \in Nat /\ readyQueue'[q][e] <= Queued[q][e]
<1> DEFINE S == {c \in PoppedOf(q) : c[1] = e}
           n == Queued[q][e]
<1>1. /\ PoppedOf(q) \subseteq Element \X (Nat \ {0})
      /\ \A c \in PoppedOf(q) : c[2] \in 1..Queued[q][c[1]]
      /\ n \in Nat
  BY QueuedAndPopped DEF Counts, Heap
<1>2. S \subseteq {e} \X (1..n)
  BY <1>1
<1>3. readyQueue'[q][e] = n - Cardinality(S)
  BY QueueJobsDoes
<1> HIDE DEF S, n
<1>4. IsFiniteSet(1..n) /\ Cardinality(1..n) = n
  <2>1. 1 \in Int /\ n \in Int /\ n >= 0
    BY <1>1
  <2> QED  BY <2>1, FS_Interval
<1>5. /\ IsFiniteSet({e} \X (1..n)) /\ Cardinality({e} \X (1..n)) = Cardinality({e}) * n
      /\ Cardinality({e}) = 1
  <2>1. IsFiniteSet({e}) /\ Cardinality({e}) = 1
    BY FS_Singleton
  <2> QED  BY <1>4, <2>1, FS_Product
<1>6. Cardinality(S) <= n /\ Cardinality(S) \in Nat
  <2>1. Cardinality({e}) * n = n
    BY <1>1, <1>5
  <2>2. IsFiniteSet(S) /\ Cardinality(S) <= Cardinality({e} \X (1..n))
    BY <1>2, <1>5, FS_Subset
  <2> QED  BY <1>5, <2>1, <2>2, FS_CardinalityType
<1>7. n \in Nat /\ n - Cardinality(S) \in Nat /\ n - Cardinality(S) <= n
  BY <1>1, <1>6
<1> QED  BY <1>3, <1>7 DEF n

\* Every element is queued, taken or left where it is.
LEMMA QueueJobsKeeps ==
  ASSUME JobInv, QueueJobs
  PROVE  /\ readyQueue' \in Counts /\ doneQueue' \in Counts
         /\ canQueryCallback' \subseteq Element /\ buildableCallback' \subseteq Element
         /\ used' \in [Resource -> Nat]
         /\ JobsTyped' /\ JobsDistinct' /\ ResourcesExact'
         /\ jobs' = jobs \cup UNION {New(q) : q \in QueueId}
<1> DEFINE new == UNION {New(q) : q \in QueueId}
<1>1. readyQueue' \in Counts
  <2> DEFINE left(q, e) == Queued[q][e] - Cardinality({c \in PoppedOf(q) : c[1] = e})
  <2>1. readyQueue' = [q \in QueueId |-> [e \in Element |-> left(q, e)]]
    BY QueueJobsDoes
  <2> HIDE DEF left
  <2> QED  BY <2>1, QueueJobsTake DEF Counts, Heap
<1>2. doneQueue' \in Counts
  BY QueueJobsDoes, NoArrivalsTyped
<1>3. canQueryCallback' \subseteq Element /\ buildableCallback' \subseteq Element
  BY QueueJobsDoes DEF JobInv, SessionTyped, Registered
<1>4. jobs' = jobs \cup new
  BY QueueJobsDoes DEF New
<1>5. /\ IsFiniteSet(jobs')
      /\ \A r \in Resource : used'[r] = Cardinality(Holding(r, jobs'))
  BY <1>4, UsedIsHeld, QueueJobsDoes
<1>6. new \subseteq JobRecord
  BY NewOfQueue
<1>7. JobsTyped'
  BY <1>4, <1>5, <1>6 DEF JobInv, JobsTyped
<1>8. JobsDistinct'
  <2> SUFFICES ASSUME NEW j \in jobs', NEW k \in jobs', SameJob(j, k) PROVE j = k
    BY DEF JobsDistinct, SameJob
  <2>1. SameJob(k, j) /\ j.queue = k.queue
    BY DEF SameJob
  <2>2. CASE j \in jobs /\ k \in jobs
    BY <2>2 DEF JobInv, JobsDistinct
  <2>3. CASE \E q \in QueueId : j \in New(q) \/ k \in New(q)
    <3>1. PICK q \in QueueId : j \in New(q) \/ k \in New(q)
      BY <2>3
    <3>2. j \in New(q) /\ k \in New(q)
      <4>1. \A p \in QueueId : \A l \in New(p) : l.queue = p
        BY NewOfQueue
      <4>2. CASE j \in New(q)
        <5>1. k \notin jobs
          BY <4>2, NewOfQueue
        <5> QED  BY <1>4, <2>1, <4>1, <4>2, <5>1
      <4>3. CASE k \in New(q)
        <5>1. j \notin jobs
          BY <2>1, <4>3, NewOfQueue
        <5> QED  BY <1>4, <2>1, <4>1, <4>3, <5>1
      <4> QED  BY <3>1, <4>2, <4>3
    <3> QED  BY <3>2, NewOfQueue
  <2> QED  BY <1>4, <2>2, <2>3
<1>9. used' \in Within
  <2>1. 1 \in QueueId
    BY QueuesTyped, QueuesAssumption DEF QueueId, Range
  <2> QED  BY <2>1, QueueJobsDoes, QueuedAndPopped
<1>10. ResourcesExact'
  BY <1>5, <1>9 DEF ResourcesExact, Within, Holding
<1>11. used' \in [Resource -> Nat]
  BY <1>9 DEF Within
<1> QED  BY <1>1, <1>2, <1>3, <1>4, <1>7, <1>8, <1>10, <1>11

LEMMA RealScheduleKeeps ==
  ASSUME JobInv, RealSchedule
  PROVE  JobInv'
<1>1. /\ phase' \in {"run", "stopped"} /\ schedHandle' = FALSE
      /\ UNCHANGED <<position, failedTasks, requiredCallback, flagVars, userRetries>>
  BY DEF RealSchedule
<1>2. CASE terminated
  <2>1. UNCHANGED <<readyQueue, doneQueue, canQueryCallback, buildableCallback, used, jobs>>
    BY <1>2 DEF RealSchedule
  <2> QED  BY <1>1, <2>1, SameJobs DEF JobInv, SessionTyped, flagVars
<1>3. CASE ~terminated
  <2>1. QueueJobs
    BY <1>3 DEF RealSchedule
  <2> QED  BY <1>1, <2>1, QueueJobsKeeps DEF JobInv, SessionTyped, flagVars
<1> QED  BY <1>2, <1>3

LEMMA JobInvInit == Init => JobInv
<1> SUFFICES ASSUME Init PROVE JobInv
  OBVIOUS
<1>1. SessionTyped
  <2>1. /\ phase = "query" /\ position = 1 /\ userRetries = 0
        /\ readyQueue = NoArrivals /\ doneQueue = NoArrivals /\ failedTasks = NoArrivals
        /\ requiredCallback = {} /\ canQueryCallback = {} /\ buildableCallback = {}
        /\ used = [r \in Resource |-> 0] /\ schedHandle = FALSE /\ queueJobs = TRUE
        /\ terminated = FALSE /\ streamTerminated = FALSE /\ terminatePending = FALSE
    BY DEF Init
  <2>2. 0 \in 0..MaxUserRetries
    BY ParameterAssumption
  <2>3. position \in Nat \ {0} /\ phase # "queried"
    BY <2>1
  <2>4. used \in [Resource -> Nat]
    BY <2>1
  <2> QED  BY <2>1, <2>2, <2>3, <2>4, NoArrivalsTyped DEF SessionTyped
<1>2. JobsTyped /\ JobsDistinct
  BY FS_EmptySet DEF Init, JobsTyped, JobsDistinct
<1>3. ResourcesExact
  BY FS_EmptySet, ParameterAssumption DEF Init, ResourcesExact
<1> QED  BY <1>1, <1>2, <1>3 DEF JobInv

LEMMA EnqueuePlanKeeps ==
  ASSUME JobInv, EnqueuePlan
  PROVE  JobInv'
<1> DEFINE arrivals == [NoArrivals EXCEPT ![1] = Once(required)]
<1>1. arrivals \in Counts
  BY NoArrivalsTyped, OnceTyped DEF Counts
<1>2. Enqueue(arrivals, doneQueue, NoneFired)
  BY DEF EnqueuePlan
<1>3. /\ readyQueue' \in Counts /\ doneQueue' \in Counts
      /\ canQueryCallback' \subseteq Element /\ buildableCallback' \subseteq Element
  <2> HIDE DEF arrivals
  <2> QED  BY <1>1, <1>2, EnqueueTyped DEF JobInv, SessionTyped
<1>4. /\ phase' = "run" /\ schedHandle' = TRUE /\ requiredCallback' \subseteq Element
      /\ UNCHANGED <<position, failedTasks, used, jobs, flagVars, userRetries>>
  BY DEF EnqueuePlan
<1> QED  BY <1>3, <1>4, SameJobs DEF JobInv, SessionTyped, flagVars

LEMMA JobInvNext == JobInv /\ [Next]_vars => JobInv'
<1> SUFFICES ASSUME JobInv, [Next]_vars PROVE JobInv'
  OBVIOUS
<1>1. CASE \E j \in jobs : ThreadStep(j)
  <2>1. PICK j \in jobs : ThreadStep(j)
    BY <1>1
  <2>2. UNCHANGED mainVars /\ \E st \in JobState : ThreadAt(j, st)
    BY <2>1, ThreadStepMoves
  <2>3. JobsTyped' /\ JobsDistinct' /\ ResourcesExact'
    BY <2>2, ThreadAtMoves DEF mainVars
  <2> QED  BY <2>2, <2>3 DEF JobInv, SessionTyped, mainVars, queueVars, callbackVars, flagVars
<1>2. CASE \E j \in jobs, raised \in BOOLEAN, reaction \in OnFailure \cup {"none"} :
             JobDone(j, raised, reaction)
  BY <1>2, JobDoneKeeps
<1>3. CASE TerminateJobs
  BY <1>3, TerminateJobsMoves DEF TerminateJobs, JobInv, SessionTyped, loopVars, queueVars,
                                  callbackVars
<1>4. CASE QueryArtifact \/ QueryArtifactDone
  BY <1>4, SameJobs DEF QueryArtifact, QueryArtifactDone, JobInv, SessionTyped, queueVars,
                        callbackVars, flagVars
<1>5. CASE Quit \/ TerminateStream \/ TerminateScheduler
  BY <1>5, SameJobs DEF Quit, TerminateStream, TerminateScheduler, JobInv, SessionTyped,
                        loopVars, queueVars, callbackVars
<1>6. CASE Stopped \/ UNCHANGED vars
  BY <1>6, SameJobs DEF Stopped, vars, JobInv, SessionTyped, queueVars, callbackVars, flagVars
<1> QED
  BY <1>1, <1>2, <1>3, <1>4, <1>5, <1>6, EnqueuePlanKeeps, RealScheduleKeeps
     DEF Next, MainStep, Environment

LEMMA SpecJobInv == Spec => []JobInv
BY JobInvInit, JobInvNext, PTL DEF Spec

\* The resources counted as used are those of the active jobs, and within their limits.
THEOREM ResourcesAreExact == Spec => []ResourcesExact
<1>1. JobInv => ResourcesExact
  BY DEF JobInv
<1> QED  BY <1>1, SpecJobInv, PTL

\* The only jobs that a step adds are those of a run of real_schedule.
LEMMA OnlyScheduled ==
  ASSUME JobInv, [Next]_vars, NEW j \in NewJobs
  PROVE  RealSchedule /\ QueueJobs /\ ~terminated /\ \E q \in QueueId : j \in New(q)
<1>1. j \in jobs' /\ \A k \in jobs : ~SameJob(j, k)
  BY DEF NewJobs, SameJob
<1>2. CASE \E k \in jobs : ThreadStep(k)
  BY <1>1, <1>2, ThreadStepMoves, ThreadAtMoves DEF mainVars
<1>3. CASE \/ QueryArtifact \/ QueryArtifactDone \/ EnqueuePlan
           \/ \E k \in jobs, raised \in BOOLEAN, reaction \in OnFailure \cup {"none"} :
                JobDone(k, raised, reaction)
           \/ Environment \/ Stopped \/ UNCHANGED vars
  <2>1. ASSUME NEW k, NEW raised, NEW reaction, JobDone(k, raised, reaction)
        PROVE  jobs' \subseteq jobs
    BY <2>1 DEF JobDone
  <2>2. \/ jobs' \subseteq jobs
        \/ QueryArtifact \/ QueryArtifactDone \/ EnqueuePlan \/ Environment \/ Stopped
        \/ UNCHANGED vars
    BY <1>3, <2>1
  <2>3. jobs' \subseteq jobs
    BY <2>2 DEF QueryArtifact, QueryArtifactDone, EnqueuePlan, Environment, Quit,
                TerminateStream, TerminateScheduler, Stopped, vars
  <2> QED  BY <1>1, <2>3 DEF SameJob
<1>4. CASE TerminateJobs
  BY <1>1, <1>4, TerminateJobsMoves
<1>5. CASE RealSchedule
  <2>1. jobs' # jobs
    BY <1>1 DEF SameJob
  <2>2. ~terminated /\ QueueJobs
    BY <1>5, <2>1 DEF RealSchedule
  <2> QED  BY <1>1, <1>5, <2>2, QueueJobsKeeps DEF SameJob
<1> QED
  BY <1>2, <1>3, <1>4, <1>5 DEF Next, MainStep

\* Behind the build queue there is only the push queue.
LEMMA AfterBuild ==
  ASSUME NEW b \in QueueId, NEW q \in QueueId, Queues[b] = "Build", b < q
  PROVE  Queues[q] = "Push"
<1>1. QueueOrder[Queues[b]] < QueueOrder[Queues[q]]
  BY QueuesAssumption
<1> QED  BY <1>1, QueuesTyped DEF QueueOrder

\* After the user quits, no more jobs are started in the queues up to the build; after
\* a termination none at all.
THEOREM QuittingIsHonoured == Spec => QuitIsHonoured
<1>1. ASSUME JobInv, [Next]_vars
      PROVE  [\A j \in NewJobs : /\ ~terminated
                                 /\ queueJobs \/ InQueue(j, "Push")]_vars
  <2> SUFFICES ASSUME NEW j \in NewJobs
               PROVE  ~terminated /\ (queueJobs \/ InQueue(j, "Push"))
    OBVIOUS
  <2>1. ~terminated /\ \E q \in QueueId : j \in New(q)
    BY <1>1, OnlyScheduled
  <2>2. PICK q \in QueueId : j \in New(q)
    BY <2>1
  <2>3. j.queue = q /\ q \in Harvested
    BY <1>1, <2>2, NewOfQueue
  <2> QED  BY <2>1, <2>3, AfterBuild DEF Harvested, InQueue
<1> QED  BY <1>1, SpecJobInv, PTL DEF Spec, QuitIsHonoured

-----------------------------------------------------------------------------
(* Readiness. *)

BuildQueued ==
  \A q \in QueueId, e \in Element :
    Queues[q] = "Build" /\ readyQueue[q][e] # 0 => BuildDeps[e] \subseteq ready

BuildJobs == \A j \in jobs : InQueue(j, "Build") => BuildDeps[j.elem] \subseteq ready

Readiness == CountersExact /\ ReadySound /\ ready \subseteq Element

Inv == Readiness /\ BuildQueued /\ BuildJobs

LEMMA InitInv == Init => Inv
<1> SUFFICES ASSUME Init PROVE Inv
  OBVIOUS
<1>1. Readiness
  BY InitiallyExact DEF Init, Readiness, ElementInit
<1>2. BuildQueued
  BY DEF Init, BuildQueued, NoArrivals, Nothing
<1> QED  BY <1>1, <1>2 DEF Init, Inv, BuildJobs

\* An element that the build queue takes as ready has its build dependencies ready;
\* the queues ask this of the state before and of the state after a handler.
ReadyToBuild ==
  CountersExact => \A q \in QueueId, e \in Element :
                     Queues[q] = "Build" /\ Ready(q, e) => BuildDeps[e] \subseteq ready

LEMMA ReadyToBuildNow == ReadyToBuild
<1> SUFFICES ASSUME CountersExact, NEW q \in QueueId, NEW e \in Element,
                    Queues[q] = "Build", Ready(q, e)
             PROVE  BuildDeps[e] \subseteq ready
  BY DEF ReadyToBuild
<1>1. buildDepsUncached[e] = 0
  BY DEF Ready, Pending, Skipped, Buildable
<1>2. IsFiniteSet(BuildDeps[e] \ ready) /\ Cardinality(BuildDeps[e] \ ready) = 0
  BY <1>1, FiniteDeps, FS_Subset DEF CountersExact
<1> QED  BY <1>2, FS_EmptySet

LEMMA ReadyToBuildNext == ReadyToBuild'
BY ReadyToBuildNow, PTL

\* Steps that leave the readiness and the waiting elements alone need only care
\* about the jobs, which keep their queues and elements.
Kept == UNCHANGED <<cascadeVars, readyQueue>>

LEMMA KeptInv ==
  ASSUME Inv, Kept, \A j \in jobs' : \E k \in jobs : SameJob(j, k)
  PROVE  Inv'
<1>1. Readiness'
  BY DEF Inv, Kept, cascadeVars, Readiness, CountersExact, ReadySound
<1>2. BuildQueued'
  BY DEF Inv, Kept, cascadeVars, BuildQueued
<1>3. BuildJobs'
  BY DEF Inv, Kept, cascadeVars, BuildJobs, InQueue, SameJob
<1> QED  BY <1>1, <1>2, <1>3 DEF Inv

LEMMA ThreadInv ==
  ASSUME Inv, JobInv, NEW j \in jobs, ThreadStep(j)
  PROVE  Inv'
<1>1. UNCHANGED cascadeVars
  BY DEF ThreadStep, Begin, PullStep, FetchStep, Assemble, CacheArtifact, PushStep, Terminate,
         elementVars
<1>2. UNCHANGED mainVars /\ \E st \in JobState : ThreadAt(j, st)
  BY ThreadStepMoves
<1>3. \A k \in jobs' : \E l \in jobs : SameJob(k, l)
  BY <1>2, ThreadAtMoves DEF mainVars
<1> QED  BY <1>1, <1>2, <1>3, KeptInv DEF Kept, mainVars, queueVars

\* What a handler announces, and what it then puts into the queues.
LEMMA EnqueueInv ==
  ASSUME Inv, CountersExact', ready \subseteq ready',
         NEW arrivals, NEW done, NEW fired, Enqueue(arrivals, done, fired)
  PROVE  BuildQueued'
<1> SUFFICES ASSUME NEW q \in QueueId, NEW e \in Element,
                    Queues[q] = "Build", readyQueue'[q][e] # 0
             PROVE  BuildDeps[e] \subseteq ready'
  BY DEF BuildQueued
<1>1. CASE readyQueue[q][e] # 0
  BY <1>1 DEF Inv, BuildQueued
<1>2. CASE readyQueue[q][e] = 0
  <2>1. Ready(q, e)'
    BY <1>2 DEF Enqueue
  <2> QED  BY <2>1, ReadyToBuildNext DEF ReadyToBuild
<1> QED  BY <1>1, <1>2

LEMMA QueryArtifactDoneInv ==
  ASSUME Inv, QueryArtifactDone
  PROVE  Inv'
<1>1. UNCHANGED <<readyQueue, jobs>>
  BY DEF QueryArtifactDone, queueVars
<1>2. CASE UNCHANGED cascadeVars
  BY <1>1, <1>2, KeptInv DEF Kept, SameJob
<1>3. CASE LoadArtifactDone(Plan[position])
  <2>1. Readiness' /\ ready \subseteq ready'
    BY <1>3, LoadArtifactDoneKeeps DEF Inv, Readiness
  <2>2. BuildQueued' /\ BuildJobs'
    BY <1>1, <2>1 DEF Inv, BuildQueued, BuildJobs, InQueue
  <2> QED  BY <2>1, <2>2 DEF Inv
<1> QED  BY <1>2, <1>3 DEF QueryArtifactDone

LEMMA EnqueuePlanInv ==
  ASSUME Inv, EnqueuePlan
  PROVE  Inv'
<1>1. UNCHANGED <<cascadeVars, jobs>>
  BY DEF EnqueuePlan, elementVars
<1>2. Readiness' /\ ready \subseteq ready'
  BY <1>1 DEF Inv, cascadeVars, Readiness, CountersExact, ReadySound
<1>3. BuildQueued'
  BY <1>2, EnqueueInv DEF EnqueuePlan, Readiness
<1>4. BuildJobs'
  BY <1>1, <1>2 DEF Inv, BuildJobs, InQueue
<1> QED  BY <1>2, <1>3, <1>4 DEF Inv

LEMMA JobDoneInv ==
  ASSUME Inv, JobInv, NEW j \in jobs, NEW failing, NEW reaction, JobDone(j, failing, reaction)
  PROVE  Inv'
<1>1. j.elem \in Element
  BY DEF JobInv, JobsTyped, JobRecord
<1>2. Finish(j, failing)
  BY DEF JobDone
<1>3. \/ LoadArtifactDone(j.elem)
      \/ AssembleDone(j.elem, j.st = "ok")
      \/ UNCHANGED cascadeVars
  BY <1>2 DEF Finish, elementVars
<1>4. Readiness' /\ ready \subseteq ready'
  <2>1. CASE LoadArtifactDone(j.elem)
    BY <2>1, LoadArtifactDoneKeeps DEF Inv, Readiness
  <2>2. CASE AssembleDone(j.elem, j.st = "ok")
    BY <1>1, <2>2, AssembleDoneKeeps DEF Inv, Readiness
  <2>3. CASE UNCHANGED cascadeVars
    BY <2>3 DEF Inv, cascadeVars, Readiness, CountersExact, ReadySound
  <2> QED  BY <1>3, <2>1, <2>2, <2>3
<1>5. BuildQueued'
  BY <1>4, EnqueueInv DEF JobDone, Readiness
<1>6. jobs' \subseteq jobs
  BY DEF JobDone
<1>7. BuildJobs'
  BY <1>4, <1>6 DEF Inv, BuildJobs, InQueue
<1> QED  BY <1>4, <1>5, <1>7 DEF Inv

LEMMA TerminateJobsInv ==
  ASSUME Inv, JobInv, TerminateJobs
  PROVE  Inv'
<1>1. Kept
  BY DEF TerminateJobs, loopVars, elementVars, queueVars, Kept
<1> QED  BY <1>1, TerminateJobsMoves, KeptInv

\* Jobs are started for elements that were ready in a queue, or that the queue takes
\* as ready when they arrive.
LEMMA RealScheduleInv ==
  ASSUME Inv, JobInv, RealSchedule
  PROVE  Inv'
<1>1. UNCHANGED cascadeVars
  BY DEF RealSchedule, elementVars
<1>2. Readiness'
  BY <1>1 DEF Inv, cascadeVars, Readiness, CountersExact, ReadySound
<1>3. CASE terminated
  <2>1. UNCHANGED <<readyQueue, jobs>>
    BY <1>3 DEF RealSchedule
  <2> QED  BY <1>1, <2>1, KeptInv DEF Kept, SameJob
<1>4. CASE ~terminated
  <2>1. QueueJobs
    BY <1>4 DEF RealSchedule
  <2>2. ASSUME NEW q \in QueueId, NEW e \in Element, Queues[q] = "Build", Queued[q][e] # 0
        PROVE  BuildDeps[e] \subseteq ready
    <3>1. CASE readyQueue[q][e] # 0
      BY <2>2, <3>1 DEF Inv, BuildQueued
    <3>2. CASE readyQueue[q][e] = 0
      <4>1. Ready(q, e)
        BY <2>2, <3>2 DEF Queued
      <4> QED  BY <2>2, <4>1, ReadyToBuildNow DEF ReadyToBuild, Inv, Readiness
    <3> QED  BY <3>1, <3>2
  <2>3. BuildQueued'
    <3> SUFFICES ASSUME NEW q \in QueueId, NEW e \in Element,
                        Queues[q] = "Build", readyQueue'[q][e] # 0
                 PROVE  BuildDeps[e] \subseteq ready'
      BY DEF BuildQueued
    <3>1. readyQueue'[q][e] <= Queued[q][e] /\ readyQueue'[q][e] \in Nat
          /\ Queued[q][e] \in Nat
      BY <2>1, QueueJobsTake
    <3> QED  BY <1>1, <2>2, <3>1 DEF cascadeVars
  <2>4. BuildJobs'
    <3> SUFFICES ASSUME NEW j \in jobs', InQueue(j, "Build")
                 PROVE  BuildDeps[j.elem] \subseteq ready'
      BY DEF BuildJobs, InQueue
    <3>1. CASE j \in jobs
      BY <1>1, <3>1 DEF Inv, BuildJobs, cascadeVars
    <3>2. CASE \E q \in QueueId : j \in New(q)
      <4>1. PICK q \in QueueId : j \in New(q)
        BY <3>2
      <4>2. j.elem \in Element /\ Queued[q][j.elem] # 0 /\ Queues[q] = "Build"
        BY <4>1, NewOfQueue DEF JobRecord, InQueue
      <4> QED  BY <1>1, <2>2, <4>2 DEF cascadeVars
    <3> QED  BY <2>1, <3>1, <3>2, QueueJobsKeeps
  <2> QED  BY <1>2, <2>3, <2>4 DEF Inv
<1> QED  BY <1>3, <1>4

LEMMA NextInv == JobInv /\ Inv /\ [Next]_vars => Inv'
<1> SUFFICES ASSUME JobInv, Inv, [Next]_vars PROVE Inv'
  OBVIOUS
<1>1. CASE \E j \in jobs : ThreadStep(j)
  BY <1>1, ThreadInv
<1>2. CASE \E j \in jobs, failing \in BOOLEAN, reaction \in OnFailure \cup {"none"} :
             JobDone(j, failing, reaction)
  BY <1>2, JobDoneInv
<1>3. CASE \/ QueryArtifact \/ Quit \/ TerminateStream \/ TerminateScheduler
           \/ Stopped \/ UNCHANGED vars
  <2>1. UNCHANGED <<cascadeVars, readyQueue, jobs>>
    BY <1>3 DEF QueryArtifact, Quit, TerminateStream, TerminateScheduler, Stopped, vars,
                loopVars, elementVars, queueVars
  <2> QED  BY <2>1, KeptInv DEF Kept, SameJob
<1> QED
  BY <1>1, <1>2, <1>3, QueryArtifactDoneInv, EnqueuePlanInv, RealScheduleInv, TerminateJobsInv
     DEF Next, MainStep, Environment

LEMMA SpecInv == Spec => []Inv
BY InitInv, NextInv, SpecJobInv, PTL DEF Spec

\* The readiness counters of all elements are exact at all times.
THEOREM CountersAreExact == Spec => []CountersExact
<1>1. Inv => CountersExact
  BY DEF Inv, Readiness
<1> QED  BY <1>1, SpecInv, PTL

\* What is announced as ready is ready with all it needs at runtime.
THEOREM ReadinessIsSound == Spec => []ReadySound
<1>1. Inv => ReadySound
  BY DEF Inv, Readiness
<1> QED  BY <1>1, SpecInv, PTL

\* While an element is built, all that is staged for its build is ready.
THEOREM BuildInputsAreReady == Spec => []BuildInputsReady
<1>1. Inv => BuildInputsReady
  <2> SUFFICES ASSUME Inv, NEW e \in Element, NEW j \in jobs, j.elem = e, InQueue(j, "Build")
               PROVE  BuildScope[e] \subseteq ready
    BY DEF BuildInputsReady, Building
  <2>1. BuildDeps[e] \subseteq ready
    BY DEF Inv, BuildJobs
  <2> QED  BY <2>1, ReadyHasBuildScope DEF Inv, Readiness
<1> QED  BY <1>1, SpecInv, PTL

-----------------------------------------------------------------------------
(* Types. *)

\* All of ElementTypeOK but the counters, whose type follows from what they count.
FlagsTyped ==
  /\ required \subseteq Element
  /\ cachedSuccessfully \subseteq Element
  /\ assembleScheduled \subseteq Element
  /\ assembleDone \subseteq Element
  /\ cacheKey \subseteq Element
  /\ runtimeDepsUncached \in [Element -> Int] /\ buildDepsUncached \in [Element -> Int]
  /\ ready \subseteq Element

ArtifactsTyped ==
  /\ stored \in [Element -> Result]
  /\ artifact \in [Element -> {"none", "uncached", "cached"}]
  /\ buildResult \in [Element -> Result]
  /\ pullPending \subseteq Element

SourcesTyped == sourcesCached \subseteq Element /\ originalCached \subseteq Element

ElementTyped == FlagsTyped /\ ArtifactsTyped /\ SourcesTyped

LEMMA TypedIsTypeOK == ElementTyped /\ CountersExact => ElementTypeOK
<1> SUFFICES ASSUME ElementTyped, CountersExact PROVE ElementTypeOK
  OBVIOUS
<1>1. ASSUME NEW e \in Element
      PROVE  runtimeDepsUncached[e] \in Nat /\ buildDepsUncached[e] \in Nat
  <2>1. IsFiniteSet(RuntimeDeps[e] \ ready) /\ IsFiniteSet(BuildDeps[e] \ ready)
    BY FiniteDeps, FS_Subset
  <2> QED  BY <2>1, FS_CardinalityType DEF CountersExact
<1>2. runtimeDepsUncached \in [Element -> Nat] /\ buildDepsUncached \in [Element -> Nat]
  BY <1>1 DEF ElementTyped, FlagsTyped
<1> QED  BY <1>2 DEF ElementTyped, FlagsTyped, ArtifactsTyped, SourcesTyped, ElementTypeOK

LEMMA NotifyTyped ==
  ASSUME FlagsTyped, NEW S \in SUBSET Element, NEW succeeded \in SUBSET Element,
         Notify(S, succeeded)
  PROVE  /\ ready' \subseteq Element /\ cachedSuccessfully' \subseteq Element
         /\ runtimeDepsUncached' \in [Element -> Int] /\ buildDepsUncached' \in [Element -> Int]
<1>1. ASSUME NEW e \in Element
      PROVE  /\ Cardinality(RuntimeDeps[e] \cap S) \in Int
             /\ Cardinality(BuildDeps[e] \cap S) \in Int
  <2>1. IsFiniteSet(RuntimeDeps[e] \cap S) /\ IsFiniteSet(BuildDeps[e] \cap S)
    BY FiniteDeps, FS_Subset
  <2> QED  BY <2>1, FS_CardinalityType
<1>2. ASSUME NEW e \in Element
      PROVE  /\ runtimeDepsUncached[e] - Cardinality(RuntimeDeps[e] \cap S) \in Int
             /\ buildDepsUncached[e] - Cardinality(BuildDeps[e] \cap S) \in Int
  <2> DEFINE r == Cardinality(RuntimeDeps[e] \cap S)
             b == Cardinality(BuildDeps[e] \cap S)
  <2>1. runtimeDepsUncached[e] \in Int /\ buildDepsUncached[e] \in Int
    BY DEF FlagsTyped
  <2>2. r \in Int /\ b \in Int
    BY <1>1
  <2> HIDE DEF r, b
  <2>3. runtimeDepsUncached[e] - r \in Int /\ buildDepsUncached[e] - b \in Int
    BY <2>1, <2>2
  <2> QED  BY <2>3 DEF r, b
<1>3. runtimeDepsUncached' \in [Element -> Int] /\ buildDepsUncached' \in [Element -> Int]
  BY <1>2 DEF Notify
<1> QED  BY <1>3 DEF Notify, FlagsTyped

LEMMA KeysTyped ==
  ASSUME NEW keys \in SUBSET Element, NEW S \in SUBSET Element
  PROVE  KeysUpdated(keys, S) \in SUBSET Element
BY DEF KeysUpdated

LEMMA LoadArtifactDoneTyped ==
  ASSUME FlagsTyped, NEW e \in Element, LoadArtifactDone(e)
  PROVE  FlagsTyped'
<1> DEFINE keys == IF artifact[e] = "cached" THEN KeysUpdated(cacheKey, {e}) ELSE cacheKey
           nowReady == NewlyReady(e, keys, Successful(artifact))
           scheduled == {x \in {e} \cap required : Assemblable(x)}
           nowRequired == NewlyRequired(UNION {BuildDeps[x] : x \in scheduled})
           nowScheduled == scheduled \cup {x \in nowRequired : Assemblable(x)}
<1>1. keys \in SUBSET Element
  BY KeysTyped DEF FlagsTyped
<1>2. nowReady \in SUBSET Element
  <2>1. Successful(artifact) \subseteq Element
    BY DEF Successful
  <2> HIDE DEF keys
  <2> QED  BY <2>1, NewlyReadyIsNew
<1>3. nowRequired \in SUBSET Element
  BY DEF NewlyRequired
<1>4. scheduled \in SUBSET Element
  OBVIOUS
<1>5. Woken(nowReady) \in SUBSET Element
  BY DEF Woken, FlagsTyped
<1>6. /\ Notify(nowReady, nowReady)
      /\ required' = required \cup nowRequired
      /\ assembleScheduled' = assembleScheduled \cup nowScheduled
      /\ cacheKey' = KeysUpdated(KeysUpdated(keys, Woken(nowReady)), nowScheduled)
      /\ UNCHANGED assembleDone
  BY DEF LoadArtifactDone
<1> HIDE DEF keys, nowReady, scheduled, nowRequired
<1>7. nowScheduled \in SUBSET Element
  BY <1>3, <1>4
<1> HIDE DEF nowScheduled
<1>8. cacheKey' \in SUBSET Element
  BY <1>1, <1>5, <1>6, <1>7, KeysTyped
<1> QED  BY <1>2, <1>3, <1>6, <1>7, <1>8, NotifyTyped DEF FlagsTyped

LEMMA AssembleDoneTyped ==
  ASSUME FlagsTyped, ArtifactsTyped, NEW e \in Element, NEW successful,
         AssembleDone(e, successful)
  PROVE  FlagsTyped' /\ ArtifactsTyped'
<1> DEFINE handle == [artifact EXCEPT ![e] = IF successful \/ stored[e] # "none" THEN "cached"
                                             ELSE "uncached"]
           built == IF successful THEN {e} ELSE {}
           keys == KeysUpdated(cacheKey, {e})
           nowReady == NewlyReady(e, keys, Successful(handle) \cup built)
<1>1. keys \in SUBSET Element /\ built \in SUBSET Element
  BY KeysTyped DEF FlagsTyped
<1>2. nowReady \in SUBSET Element
  <2>1. Successful(handle) \cup built \subseteq Element
    BY <1>1 DEF Successful
  <2> HIDE DEF keys, handle, built
  <2> QED  BY <2>1, NewlyReadyIsNew
<1>3. Woken(nowReady) \in SUBSET Element
  BY DEF Woken, FlagsTyped
<1>4. /\ artifact' = handle
      /\ assembleDone' = assembleDone \cup {e}
      /\ Notify(nowReady, nowReady \cup built)
      /\ cacheKey' = KeysUpdated(keys, Woken(nowReady))
      /\ UNCHANGED <<required, assembleScheduled, stored, buildResult, pullPending>>
  BY DEF AssembleDone
<1>5. ArtifactsTyped'
  BY <1>4 DEF ArtifactsTyped
<1> HIDE DEF handle, keys, nowReady, built
<1>6. cacheKey' \in SUBSET Element
  BY <1>1, <1>3, <1>4, KeysTyped
<1>7. nowReady \cup built \in SUBSET Element
  BY <1>1, <1>2
<1> QED  BY <1>2, <1>4, <1>5, <1>6, <1>7, NotifyTyped DEF FlagsTyped

LEMMA ThreadTyped ==
  ASSUME ElementTyped, JobInv, NEW j \in jobs, ThreadStep(j)
  PROVE  ElementTyped'
<1>1. j.elem \in Element
  BY DEF JobInv, JobsTyped, JobRecord
<1>2. UNCHANGED cascadeVars
  BY DEF ThreadStep, Begin, PullStep, FetchStep, Assemble, CacheArtifact, PushStep, Terminate,
         elementVars
<1>3. FlagsTyped'
  BY <1>2 DEF ElementTyped, FlagsTyped, cascadeVars
<1>4. CASE UNCHANGED elementVars
  BY <1>3, <1>4 DEF ElementTyped, ArtifactsTyped, SourcesTyped, elementVars, artifactVars,
                    sourceVars
<1>5. CASE PullBegins(j.elem) /\ UNCHANGED sourceVars
  BY <1>3, <1>5 DEF ElementTyped, ArtifactsTyped, SourcesTyped, PullBegins, sourceVars
<1>6. CASE \E found \in RemoteArtifacts, discarded \in BOOLEAN :
             PullEnds(j.elem, found, discarded) /\ UNCHANGED sourceVars
  <2>1. PICK found \in RemoteArtifacts, discarded \in BOOLEAN :
          PullEnds(j.elem, found, discarded) /\ UNCHANGED sourceVars
    BY <1>6
  <2>2. found \in Result
    BY ParameterAssumption
  <2>3. ArtifactsTyped'
    BY <1>1, <2>1, <2>2 DEF ElementTyped, ArtifactsTyped, PullEnds
  <2> QED  BY <1>3, <2>1, <2>3 DEF ElementTyped, SourcesTyped, sourceVars
<1>7. CASE FetchStep(j)
  BY <1>1, <1>3, <1>7 DEF FetchStep, ElementTyped, ArtifactsTyped, SourcesTyped, artifactVars,
                          sourceVars
<1>8. CASE Assemble(j)
  <2>1. ArtifactsTyped'
    BY <1>1, <1>8 DEF Assemble, ElementTyped, ArtifactsTyped, Result
  <2> QED  BY <1>3, <1>8, <2>1 DEF Assemble, ElementTyped, SourcesTyped, sourceVars
<1>9. CASE CacheArtifact(j)
  <2>1. ArtifactsTyped'
    BY <1>1, <1>9 DEF CacheArtifact, ElementTyped, ArtifactsTyped
  <2> QED  BY <1>3, <1>9, <2>1 DEF CacheArtifact, ElementTyped, SourcesTyped, sourceVars
<1>10. \/ UNCHANGED elementVars \/ FetchStep(j) \/ Assemble(j) \/ CacheArtifact(j)
       \/ PullBegins(j.elem) /\ UNCHANGED sourceVars
       \/ \E found \in RemoteArtifacts, discarded \in BOOLEAN :
            PullEnds(j.elem, found, discarded) /\ UNCHANGED sourceVars
  <2>1. CASE Begin(j)
    BY <1>2, <2>1 DEF Begin, elementVars
  <2>2. CASE PullStep(j)
    BY <2>2 DEF PullStep, elementVars
  <2> QED  BY <2>1, <2>2 DEF ThreadStep, PushStep, Terminate
<1> QED  BY <1>4, <1>5, <1>6, <1>7, <1>8, <1>9, <1>10

LEMMA TypedNext ==
  ASSUME ElementTyped, JobInv, [Next]_vars
  PROVE  ElementTyped'
<1>1. CASE \E j \in jobs : ThreadStep(j)
  BY <1>1, ThreadTyped
<1>2. ASSUME NEW j \in jobs, NEW raised, NEW reaction, JobDone(j, raised, reaction)
      PROVE  ElementTyped'
  <2>1. j.elem \in Element
    BY DEF JobInv, JobsTyped, JobRecord
  <2>2. \/ LoadArtifactDone(j.elem) /\ UNCHANGED <<artifactVars, sourceVars>>
        \/ FetchDone(j.elem) /\ UNCHANGED <<artifactVars, cascadeVars>>
        \/ AssembleDone(j.elem, j.st = "ok") /\ UNCHANGED sourceVars
        \/ UNCHANGED elementVars
    BY <1>2 DEF JobDone, Finish
  <2>3. CASE LoadArtifactDone(j.elem) /\ UNCHANGED <<artifactVars, sourceVars>>
    <3>1. FlagsTyped'
      BY <2>1, <2>3, LoadArtifactDoneTyped DEF ElementTyped
    <3> QED  BY <2>3, <3>1 DEF ElementTyped, ArtifactsTyped, SourcesTyped, artifactVars, sourceVars
  <2>4. CASE FetchDone(j.elem) /\ UNCHANGED <<artifactVars, cascadeVars>>
    BY <2>1, <2>4 DEF FetchDone, ElementTyped, FlagsTyped, ArtifactsTyped, SourcesTyped,
                      artifactVars, cascadeVars
  <2>5. CASE AssembleDone(j.elem, j.st = "ok") /\ UNCHANGED sourceVars
    <3>1. FlagsTyped' /\ ArtifactsTyped'
      BY <2>1, <2>5, AssembleDoneTyped DEF ElementTyped
    <3> QED  BY <2>5, <3>1 DEF ElementTyped, SourcesTyped, sourceVars
  <2>6. CASE UNCHANGED elementVars
    BY <2>6 DEF elementVars, ElementTyped, FlagsTyped, ArtifactsTyped, SourcesTyped,
                artifactVars, cascadeVars, sourceVars
  <2> QED  BY <2>2, <2>3, <2>4, <2>5, <2>6
<1>3. ASSUME QueryArtifact \/ QueryArtifactDone PROVE ElementTyped'
  <2>1. Plan[position] \in Element
    <3>1. Plan \in Seq(Element) /\ position \in 1..Len(Plan)
      BY <1>3, PlanAssumption DEF QueryArtifact, QueryArtifactDone, JobInv, SessionTyped
    <3> QED  BY <3>1
  <2>2. CASE QueryArtifact
    <3>1. LoadArtifact(Plan[position]) /\ UNCHANGED <<sourceVars, cascadeVars>>
      BY <2>2 DEF QueryArtifact
    <3>2. ArtifactsTyped'
      BY <2>1, <3>1 DEF LoadArtifact, ElementTyped, ArtifactsTyped
    <3> QED  BY <3>1, <3>2 DEF ElementTyped, FlagsTyped, SourcesTyped, cascadeVars, sourceVars
  <2>3. CASE QueryArtifactDone
    <3>1. UNCHANGED <<artifactVars, sourceVars>>
      BY <2>3 DEF QueryArtifactDone
    <3>2. FlagsTyped'
      <4>1. CASE UNCHANGED cascadeVars
        BY <4>1 DEF ElementTyped, FlagsTyped, cascadeVars
      <4>2. CASE LoadArtifactDone(Plan[position])
        BY <2>1, <4>2, LoadArtifactDoneTyped DEF ElementTyped
      <4> QED  BY <2>3, <4>1, <4>2 DEF QueryArtifactDone
    <3> QED  BY <3>1, <3>2 DEF ElementTyped, ArtifactsTyped, SourcesTyped, artifactVars, sourceVars
  <2> QED  BY <1>3, <2>2, <2>3
<1>4. ASSUME \/ EnqueuePlan \/ RealSchedule \/ TerminateJobs \/ Quit \/ TerminateStream
             \/ TerminateScheduler \/ Stopped \/ UNCHANGED vars
      PROVE  ElementTyped'
  <2>1. UNCHANGED elementVars
    BY <1>4 DEF EnqueuePlan, RealSchedule, TerminateJobs, Quit, TerminateStream,
                TerminateScheduler, Stopped, vars, loopVars
  <2> QED  BY <2>1 DEF elementVars, ElementTyped, FlagsTyped, ArtifactsTyped, SourcesTyped,
                       artifactVars, cascadeVars, sourceVars
<1> QED  BY <1>1, <1>2, <1>3, <1>4 DEF Next, MainStep, Environment

LEMMA TypedInit == Init => ElementTyped
<1> SUFFICES ASSUME ElementInit(LocalArtifacts, LocalSources) PROVE ElementTyped
  BY DEF Init
<1>1. \A e \in Element : Cardinality(RuntimeDeps[e]) \in Int /\ Cardinality(BuildDeps[e]) \in Int
  BY FiniteDeps, FS_CardinalityType
<1>2. FlagsTyped
  BY <1>1, SessionAssumption DEF ElementInit, FlagsTyped, Reach
<1>3. ArtifactsTyped
  BY ParameterAssumption DEF ElementInit, ArtifactsTyped, Result
<1>4. SourcesTyped
  BY DEF ElementInit, SourcesTyped
<1> QED  BY <1>2, <1>3, <1>4 DEF ElementTyped

LEMMA SpecTyped == Spec => []ElementTyped
BY TypedInit, TypedNext, SpecJobInv, PTL DEF Spec

\* Every variable keeps its type: no counter of a queue, a resource or a dependency
\* ever falls below zero.
THEOREM TypesAreKept == Spec => []TypeOK
<1>1. ElementTyped /\ JobInv /\ Inv => TypeOK
  BY TypedIsTypeOK DEF Inv, Readiness, JobInv, SessionTyped, JobsTyped, Counts, Heap, TypeOK
<1> QED  BY <1>1, SpecTyped, SpecInv, SpecJobInv, PTL

-----------------------------------------------------------------------------
(* The places of an element: a job, a place in a queue or a callback. *)

NoJob(e) == \A j \in jobs : j.elem # e
OneJob(e) == \A j, k \in jobs : j.elem = e /\ k.elem = e => j = k

NoneOf(count, e) == \A q \in QueueId : count[q][e] = 0
OneOf(count, e) ==
  /\ \A q \in QueueId : count[q][e] <= 1
  /\ \A p, q \in QueueId : count[p][e] # 0 /\ count[q][e] # 0 => p = q

NotWaiting(e) == e \notin canQueryCallback /\ e \notin buildableCallback

\* In no queue; in at most one place of one queue.
Idle(e) == NoneOf(readyQueue, e) /\ NoneOf(doneQueue, e) /\ NotWaiting(e)
OneSpot(e) ==
  \/ /\ NoneOf(readyQueue, e) /\ NoneOf(doneQueue, e)
     /\ ~(e \in canQueryCallback /\ e \in buildableCallback)
  \/ OneOf(readyQueue, e) /\ NoneOf(doneQueue, e) /\ NotWaiting(e)
  \/ NoneOf(readyQueue, e) /\ OneOf(doneQueue, e) /\ NotWaiting(e)

Single(e) ==
  \/ Idle(e) /\ e \notin requiredCallback /\ OneJob(e)
  \/ NoJob(e) /\ e \notin requiredCallback /\ OneSpot(e)
  \/ NoJob(e) /\ Idle(e)

\* While the caches are queried nothing has a place yet.
QueryEmpty ==
  phase \in {"query", "queried"} =>
    /\ jobs = {} /\ requiredCallback = {} /\ canQueryCallback = {} /\ buildableCallback = {}
    /\ readyQueue = NoArrivals /\ doneQueue = NoArrivals

PlaceInv == QueryEmpty /\ \A e \in Element : Single(e)

LEMMA PlaceInvInit == Init => PlaceInv
BY DEF Init, PlaceInv, QueryEmpty, Single, Idle, NoneOf, NotWaiting, NoJob, NoArrivals, Nothing

\* What is single has at most one place.
LEMMA SingleIsOnePlace ==
  ASSUME JobInv, NEW e \in Element, Single(e)
  PROVE  Cardinality(Places(e)) <= 1
<1>1. ASSUME NEW x, Places(e) \subseteq {x}
      PROVE  Cardinality(Places(e)) <= 1
  <2>1. Places(e) = {} \/ Places(e) = {x}
    BY <1>1
  <2>2. Cardinality({}) = 0 /\ Cardinality({x}) = 1
    BY FS_EmptySet, FS_Singleton
  <2>3. Cardinality(Places(e)) = 0 \/ Cardinality(Places(e)) = 1
    BY <2>1, <2>2
  <2> QED  BY <2>3
<1> DEFINE inReady == UNION {{"ready"} \X {q} \X (1..readyQueue[q][e]) : q \in QueueId}
           inDone == UNION {{"done"} \X {q} \X (1..doneQueue[q][e]) : q \in QueueId}
           toQuery == {<<"canQuery", c>> : c \in {e} \cap canQueryCallback}
           toBuild == {<<"buildable", c>> : c \in {e} \cap buildableCallback}
           waiting == toQuery \cup toBuild
           called == {<<"required", c>> : c \in {e} \cap requiredCallback}
           inJob == {<<"job", j>> : j \in InThread(e)}
<1>2. Places(e) = inJob \cup called \cup toQuery \cup toBuild \cup inReady \cup inDone
  BY DEF Places
<1>3. \A q \in QueueId : readyQueue[q][e] \in Nat /\ doneQueue[q][e] \in Nat
  BY DEF JobInv, SessionTyped, Counts, Heap
<1>4. NoneOf(readyQueue, e) => inReady = {}
  BY DEF NoneOf
<1>5. NoneOf(doneQueue, e) => inDone = {}
  BY DEF NoneOf
<1>6. ASSUME OneOf(readyQueue, e) PROVE \E x : inReady \subseteq {x}
  <2>1. CASE NoneOf(readyQueue, e)
    BY <1>4, <2>1
  <2>2. CASE \E q \in QueueId : readyQueue[q][e] # 0
    <3>1. PICK q \in QueueId : readyQueue[q][e] # 0
      BY <2>2
    <3>2. readyQueue[q][e] = 1 /\ \A p \in QueueId : p # q => readyQueue[p][e] = 0
      BY <1>3, <1>6, <3>1 DEF OneOf
    <3>3. inReady \subseteq {<<"ready", q, 1>>}
      BY <3>2
    <3> QED  BY <3>3
  <2> QED  BY <2>1, <2>2 DEF NoneOf
<1>7. ASSUME OneOf(doneQueue, e) PROVE \E x : inDone \subseteq {x}
  <2>1. CASE NoneOf(doneQueue, e)
    BY <1>5, <2>1
  <2>2. CASE \E q \in QueueId : doneQueue[q][e] # 0
    <3>1. PICK q \in QueueId : doneQueue[q][e] # 0
      BY <2>2
    <3>2. doneQueue[q][e] = 1 /\ \A p \in QueueId : p # q => doneQueue[p][e] = 0
      BY <1>3, <1>7, <3>1 DEF OneOf
    <3>3. inDone \subseteq {<<"done", q, 1>>}
      BY <3>2
    <3> QED  BY <3>3
  <2> QED  BY <2>1, <2>2 DEF NoneOf
<1>8. NotWaiting(e) => waiting = {}
  BY DEF NotWaiting
<1>9. ~(e \in canQueryCallback /\ e \in buildableCallback) => \E x : waiting \subseteq {x}
  OBVIOUS
<1>10. /\ \E x : called \subseteq {x}
       /\ e \notin requiredCallback => called = {}
  OBVIOUS
<1>11. /\ NoJob(e) => inJob = {}
       /\ OneJob(e) => \E x : inJob \subseteq {x}
  <2>1. NoJob(e) => InThread(e) = {}
    BY DEF NoJob, InThread
  <2>2. OneJob(e) => \E j : InThread(e) \subseteq {j}
    BY DEF OneJob, InThread
  <2> QED  BY <2>1, <2>2
<1>12. Places(e) = inJob \cup called \cup waiting \cup inReady \cup inDone
  <2> HIDE DEF inReady, inDone, toQuery, toBuild, called, inJob
  <2> QED  BY <1>2
<1> HIDE DEF inReady, inDone, waiting, called, inJob
<1>13. \E x : Places(e) \subseteq {x}
  BY <1>4, <1>5, <1>6, <1>7, <1>8, <1>9, <1>10, <1>11, <1>12 DEF Single, Idle, OneSpot
<1> QED  BY <1>1, <1>13

-----------------------------------------------------------------------------
(* Into a queue: an element waits, is skipped or is ready. *)

\* The answers of the status methods exclude each other, and only two queues make
\* elements wait.
OneAnswer ==
  \A q \in QueueId, e \in Element :
    /\ ~(Pending(q, e) /\ Skipped(q, e))
    /\ Pending(q, e) => Queues[q] \in {"Fetch", "Build"}

LEMMA OneAnswerNow == OneAnswer
BY DEF OneAnswer, Pending, Skipped, NothingToFetch

LEMMA OneAnswerNext == OneAnswer'
BY OneAnswerNow, PTL

LEMMA OneOfEach == \A p, q \in QueueId : Queues[p] = Queues[q] => p = q
<1> SUFFICES ASSUME NEW p \in QueueId, NEW q \in QueueId, Queues[p] = Queues[q], p # q
             PROVE  FALSE
  OBVIOUS
<1>1. p < q \/ q < p
  BY QueuesTyped
<1>2. QueueOrder[Queues[p]] < QueueOrder[Queues[q]] \/ QueueOrder[Queues[q]] < QueueOrder[Queues[p]]
  BY <1>1, QueuesAssumption
<1> QED  BY <1>2, QueuesTyped DEF QueueOrder

\* The one copy of an element that arrives in no other place goes to one place.
LEMMA EnqueueOne ==
  ASSUME JobInv, NEW arrivals \in Counts, NEW done \in Counts, NEW fired,
         Enqueue(arrivals, done, fired),
         NEW e \in Element, NoneOf(readyQueue, e), NoneOf(done, e), OneOf(arrivals, e),
         e \notin canQueryCallback \ fired.canQuery,
         e \notin buildableCallback \ fired.buildable
  PROVE  OneSpot(e)'
<1>1. \A q \in QueueId :
        /\ arrivals[q][e] \in {0, 1} /\ readyQueue[q][e] = 0 /\ done[q][e] = 0
  <2>1. \A q \in QueueId : arrivals[q][e] \in Nat
    BY DEF Counts, Heap
  <2> QED  BY <2>1 DEF NoneOf, OneOf
<1>2. \A q \in QueueId :
        /\ readyQueue'[q][e] = IF Ready(q, e)' THEN arrivals[q][e] ELSE 0
        /\ doneQueue'[q][e] = IF Skipped(q, e)' THEN arrivals[q][e] ELSE 0
  BY <1>1 DEF Enqueue
<1>3. /\ e \in canQueryCallback' =>
           \E q \in QueueId : Queues[q] = "Fetch" /\ arrivals[q][e] > 0 /\ Pending(q, e)'
      /\ e \in buildableCallback' =>
           \E q \in QueueId : Queues[q] = "Build" /\ arrivals[q][e] > 0 /\ Pending(q, e)'
  BY DEF Enqueue, Registered
<1>4. CASE \A q \in QueueId : arrivals[q][e] = 0
  BY <1>2, <1>3, <1>4 DEF OneSpot, NoneOf
<1>5. CASE \E q \in QueueId : arrivals[q][e] # 0
  <2>1. PICK q \in QueueId : arrivals[q][e] = 1
    BY <1>1, <1>5
  <2>2. \A p \in QueueId : p # q => arrivals[p][e] = 0
    BY <2>1 DEF OneOf
  <2>3. \A p \in QueueId : p # q => readyQueue'[p][e] = 0 /\ doneQueue'[p][e] = 0
    BY <1>2, <2>2
  <2>4. /\ e \in canQueryCallback' => Queues[q] = "Fetch" /\ Pending(q, e)'
        /\ e \in buildableCallback' => Queues[q] = "Build" /\ Pending(q, e)'
    BY <1>3, <2>2
  <2>5. ~(Pending(q, e)' /\ Skipped(q, e)')
    BY OneAnswerNext DEF OneAnswer
  <2>6. CASE Pending(q, e)'
    <3>1. readyQueue'[q][e] = 0 /\ doneQueue'[q][e] = 0
      BY <1>2, <2>5, <2>6 DEF Ready
    <3> QED  BY <2>3, <2>4, <3>1 DEF OneSpot, NoneOf
  <2>7. CASE ~Pending(q, e)'
    <3>1. NotWaiting(e)'
      BY <2>4, <2>7 DEF NotWaiting
    <3>2. /\ readyQueue'[q][e] = 0 \/ doneQueue'[q][e] = 0
          /\ readyQueue'[q][e] \in {0, 1} /\ doneQueue'[q][e] \in {0, 1}
      BY <1>2, <2>1 DEF Ready
    <3>3. /\ readyQueue'[q][e] = 0 => NoneOf(readyQueue, e)'
          /\ doneQueue'[q][e] = 0 => NoneOf(doneQueue, e)'
          /\ OneOf(readyQueue, e)' /\ OneOf(doneQueue, e)'
      BY <2>3, <3>2 DEF NoneOf, OneOf
    <3> QED  BY <3>1, <3>2, <3>3 DEF OneSpot
  <2> QED  BY <2>6, <2>7
<1> QED  BY <1>4, <1>5

\* What does not arrive stays where it is.
LEMMA EnqueueNone ==
  ASSUME JobInv, NEW arrivals \in Counts, NEW done \in Counts, NEW fired,
         Enqueue(arrivals, done, fired),
         NEW e \in Element, NoneOf(arrivals, e),
         e \notin fired.canQuery, e \notin fired.buildable
  PROVE  /\ \A q \in QueueId : readyQueue'[q][e] = readyQueue[q][e] /\ doneQueue'[q][e] = done[q][e]
         /\ e \in canQueryCallback' <=> e \in canQueryCallback
         /\ e \in buildableCallback' <=> e \in buildableCallback
<1>1. \A q \in QueueId : arrivals[q][e] = 0 /\ readyQueue[q][e] \in Nat /\ done[q][e] \in Nat
  BY DEF NoneOf, JobInv, SessionTyped, Counts, Heap
<1>2. \A q \in QueueId :
        /\ readyQueue'[q][e] = readyQueue[q][e] + (IF Ready(q, e)' THEN arrivals[q][e] ELSE 0)
        /\ doneQueue'[q][e] = done[q][e] + (IF Skipped(q, e)' THEN arrivals[q][e] ELSE 0)
  BY DEF Enqueue
<1>3. e \notin Registered("Fetch", arrivals) /\ e \notin Registered("Build", arrivals)
  BY <1>1 DEF Registered
<1>4. /\ e \in canQueryCallback' <=> e \in canQueryCallback
      /\ e \in buildableCallback' <=> e \in buildableCallback
  BY <1>3 DEF Enqueue
<1>5. \A q \in QueueId : readyQueue'[q][e] = readyQueue[q][e] /\ doneQueue'[q][e] = done[q][e]
  BY <1>1, <1>2
<1> QED  BY <1>4, <1>5

-----------------------------------------------------------------------------
(* One run of real_schedule. *)

\* Of an element that is done in one queue, one copy comes to the next ones, and no
\* further than to the first of them that does not skip it.
LEMMA LeavesOnce ==
  ASSUME JobInv, NEW e \in Element, OneOf(doneQueue, e)
  PROVE  \A i \in 0..Len(Queues) :
           /\ Leaving[i][e] \in {0, 1}
           /\ Leaving[i][e] = 1 => \E p \in 1..i : /\ doneQueue[p][e] # 0
                                                  /\ \A r \in (p + 1)..i : Skipped(r, e)
<1> DEFINE N == Len(Queues)
           OnWay(i, p) == doneQueue[p][e] # 0 /\ \A r \in (p + 1)..i : Skipped(r, e)
           Good(i) == /\ Leaving[i][e] \in {0, 1}
                      /\ Leaving[i][e] = 1 => \E p \in 1..i : OnWay(i, p)
           T == {i \in 0..N : Good(i)}
<1>1. N \in Nat /\ QueueId = 1..N
  BY QueuesTyped
<1>2. \A q \in QueueId : doneQueue[q][e] \in {0, 1}
  <2>1. \A q \in QueueId : doneQueue[q][e] \in Nat
    BY DEF JobInv, SessionTyped, Counts, Heap
  <2> QED  BY <2>1 DEF OneOf
<1>3. /\ Leaving[0][e] = 0
      /\ \A q \in QueueId : Leaving[q][e] =
           doneQueue[q][e] + (IF Skipped(q, e) THEN Leaving[q - 1][e] ELSE 0)
  <2>1. doneQueue \in Counts
    BY DEF JobInv, SessionTyped
  <2>2. /\ Leaving[0] = Nothing
        /\ \A q \in QueueId : Leaving[q] = [x \in Element |->
             doneQueue[q][x] + (IF Skipped(q, x) THEN Leaving[q - 1][x] ELSE 0)]
    BY <2>1, LeavingTyped
  <2> QED  BY <2>2 DEF Nothing
<1> HIDE DEF N
<1>4. 0 \in T
  BY <1>1, <1>3
<1>5. ASSUME NEW i \in 0..(N - 1), i \in T PROVE i + 1 \in T
  <2>1. i + 1 \in QueueId /\ (i + 1) - 1 = i /\ i + 1 \in 0..N /\ 1..i \subseteq QueueId
        /\ i + 1 \notin 1..i
    BY <1>1
  <2>2. Leaving[i + 1][e] = doneQueue[i + 1][e] + (IF Skipped(i + 1, e) THEN Leaving[i][e] ELSE 0)
    BY <1>3, <2>1
  <2>3. Good(i)
    BY <1>5
  <2>4. CASE doneQueue[i + 1][e] = 1
    <3>1. Leaving[i][e] = 0
      BY <2>1, <2>3, <2>4 DEF OneOf
    <3>2. Leaving[i + 1][e] = 1
      BY <2>2, <2>4, <3>1
    <3>3. OnWay(i + 1, i + 1)
      BY <2>1, <2>4
    <3> QED  BY <2>1, <3>2, <3>3
  <2>5. CASE doneQueue[i + 1][e] = 0
    <3>1. Leaving[i + 1][e] = IF Skipped(i + 1, e) THEN Leaving[i][e] ELSE 0
      BY <2>2, <2>3, <2>5
    <3>2. ASSUME Leaving[i + 1][e] = 1 PROVE \E p \in 1..(i + 1) : OnWay(i + 1, p)
      <4>1. Skipped(i + 1, e) /\ Leaving[i][e] = 1
        BY <3>1, <3>2
      <4>2. PICK p \in 1..i : OnWay(i, p)
        BY <2>3, <4>1
      <4>3. OnWay(i + 1, p)
        BY <2>1, <4>1, <4>2
      <4> QED  BY <4>3
    <3>3. Leaving[i + 1][e] \in {0, 1}
      BY <2>3, <3>1
    <3> QED  BY <2>1, <3>2, <3>3
  <2> QED  BY <1>2, <2>1, <2>4, <2>5
<1>6. \A i \in 0..N : i \in T
  <2> HIDE DEF T
  <2> QED  BY <1>1, <1>4, <1>5, Climb
<1> QED  BY <1>6 DEF N

LEMMA ArrivesOnce ==
  ASSUME JobInv, NEW e \in Element, OneOf(doneQueue, e)
  PROVE  /\ \A q \in QueueId : Arrived[q][e] \in {0, 1}
         /\ \A p, q \in QueueId :
              Arrived[p][e] = 1 /\ Arrived[q][e] = 1 /\ ~Skipped(p, e) /\ ~Skipped(q, e) => p = q
<1>1. \A q \in QueueId : q - 1 \in 0..Len(Queues) /\ Arrived[q] = Leaving[q - 1]
  BY QueuesTyped DEF Arrived
<1>2. \A q \in QueueId : Arrived[q][e] \in {0, 1}
  BY <1>1, LeavesOnce
<1>3. ASSUME NEW p \in QueueId, NEW q \in QueueId, p < q,
             Arrived[p][e] = 1, Arrived[q][e] = 1, ~Skipped(p, e)
      PROVE  FALSE
  <2>1. PICK s \in 1..(p - 1) : doneQueue[s][e] # 0
    BY <1>1, <1>3, LeavesOnce
  <2>2. PICK t \in 1..(q - 1) : doneQueue[t][e] # 0 /\ \A r \in (t + 1)..(q - 1) : Skipped(r, e)
    BY <1>1, <1>3, LeavesOnce
  <2>3. s \in QueueId /\ t \in QueueId /\ p \in Nat /\ q \in Nat
    BY QueuesTyped
  <2>4. s = t
    BY <2>1, <2>2, <2>3 DEF OneOf
  <2>5. p \in (t + 1)..(q - 1)
    BY <1>3, <2>3, <2>4
  <2> QED  BY <1>3, <2>2, <2>5
<1>4. \A p, q \in QueueId : p < q \/ q < p \/ p = q
  BY QueuesTyped
<1> QED  BY <1>2, <1>3, <1>4

\* A queue starts a job for the one copy it has of an element, or keeps it.
LEMMA TakenOnce ==
  ASSUME JobInv, QueueJobs, NEW e \in Element, OneOf(Queued, e)
  PROVE  /\ OneOf(readyQueue, e)'
         /\ \A q \in QueueId : \A j \in New(q) : j.elem = e => NoneOf(readyQueue, e)'
         /\ \A p, q \in QueueId : \A j \in New(p) : \A k \in New(q) :
              j.elem = e /\ k.elem = e => j = k
<1>1. \A q \in QueueId : /\ Queued[q][e] \in {0, 1}
                         /\ readyQueue'[q][e] \in Nat /\ readyQueue'[q][e] <= Queued[q][e]
  <2>1. \A q \in QueueId : /\ Queued[q][e] \in Nat
                           /\ readyQueue'[q][e] \in Nat /\ readyQueue'[q][e] <= Queued[q][e]
    BY QueueJobsTake
  <2> QED  BY <2>1 DEF OneOf
<1>2. \A q \in QueueId : /\ readyQueue'[q][e] <= 1
                         /\ readyQueue'[q][e] # 0 => Queued[q][e] # 0
  BY <1>1
<1>3. OneOf(readyQueue, e)'
  BY <1>2 DEF OneOf
<1>4. ASSUME NEW q \in QueueId, NEW j \in New(q), j.elem = e
      PROVE  /\ Queued[q][e] = 1 /\ j.queue = q /\ j.copy = Latest(q, e) + 1
             /\ NoneOf(readyQueue, e)'
  <2> DEFINE job(c) == [queue |-> q, elem |-> c[1], copy |-> Latest(q, c[1]) + c[2],
                        st |-> "start", stop |-> "no"]
  <2>0. New(q) = {job(c) : c \in PoppedOf(q)}
    BY DEF New, JobsOf, Latest
  <2>1. PICK c \in PoppedOf(q) : c[1] = e /\ j.copy = Latest(q, c[1]) + c[2]
    BY <1>4, <2>0
  <2>2. c[2] \in 1..Queued[q][e]
    BY <2>1, QueuedAndPopped
  <2>3. Queued[q][e] = 1 /\ c[2] = 1
    BY <1>1, <2>2
  <2> DEFINE S == {d \in PoppedOf(q) : d[1] = e}
  <2>4. IsFiniteSet(S) /\ c \in S
    BY <2>1, QueuedAndPopped, FS_Subset
  <2>5. readyQueue'[q][e] = Queued[q][e] - Cardinality(S)
    BY QueueJobsDoes
  <2> HIDE DEF S
  <2>6. Cardinality(S) \in Nat /\ Cardinality(S) # 0
    BY <2>4, FS_CardinalityType, FS_EmptySet
  <2>7. readyQueue'[q][e] = 0
    BY <1>1, <2>3, <2>5, <2>6
  <2>8. \A p \in QueueId : p # q => readyQueue'[p][e] = 0
    BY <1>2, <2>3 DEF OneOf
  <2> QED  BY <2>1, <2>3, <2>7, <2>8, NewOfQueue DEF NoneOf
<1>5. ASSUME NEW p \in QueueId, NEW q \in QueueId, NEW j \in New(p), NEW k \in New(q),
             j.elem = e, k.elem = e
      PROVE  j = k
  <2>1. p = q
    <3>1. Queued[p][e] = 1 /\ Queued[q][e] = 1
      BY <1>4, <1>5
    <3> QED  BY <3>1 DEF OneOf
  <2>2. SameJob(j, k)
    BY <1>4, <1>5, <2>1 DEF SameJob
  <2> QED  BY <2>1, <2>2, NewOfQueue
<1> QED  BY <1>3, <1>4, <1>5

\* An element that queues have one copy of, or none, and that has no other place.
LEMMA QueuedSingle ==
  ASSUME JobInv, QueueJobs, NEW e \in Element, NoJob(e), OneOf(Queued, e),
         NotWaiting(e)', e \notin requiredCallback'
  PROVE  Single(e)'
<1>1. NoneOf(doneQueue, e)'
  BY QueueJobsDoes DEF NoneOf, NoArrivals, Nothing
<1>2. jobs' = jobs \cup UNION {New(q) : q \in QueueId}
  BY QueueJobsKeeps
<1>3. CASE \E q \in QueueId : \E j \in New(q) : j.elem = e
  <2>1. OneJob(e)'
    BY <1>2, TakenOnce DEF OneJob, NoJob
  <2>2. NoneOf(readyQueue, e)'
    BY <1>3, TakenOnce
  <2> QED  BY <1>1, <2>1, <2>2 DEF Single, Idle
<1>4. CASE \A q \in QueueId : \A j \in New(q) : j.elem # e
  <2>1. NoJob(e)'
    BY <1>2, <1>4 DEF NoJob
  <2>2. OneOf(readyQueue, e)'
    BY TakenOnce
  <2> QED  BY <1>1, <2>1, <2>2 DEF Single, OneSpot
<1> QED  BY <1>3, <1>4

\* What is done nowhere arrives nowhere, and what no queue holds is not taken.
LEMMA NothingArrives ==
  ASSUME JobInv, NEW e \in Element, NoneOf(doneQueue, e)
  PROVE  /\ \A q \in QueueId : Arrived[q][e] = 0 /\ Queued[q][e] = readyQueue[q][e]
         /\ NoneOf(readyQueue, e) => \A q \in QueueId : \A j \in New(q) : j.elem # e
<1>1. OneOf(doneQueue, e)
  BY DEF NoneOf, OneOf
<1>2. \A q \in QueueId : q - 1 \in 0..Len(Queues) /\ 1..(q - 1) \subseteq QueueId
                         /\ Arrived[q] = Leaving[q - 1]
  BY QueuesTyped DEF Arrived
<1>3. ASSUME NEW q \in QueueId PROVE Arrived[q][e] = 0
  <2>1. /\ Leaving[q - 1][e] \in {0, 1}
        /\ Leaving[q - 1][e] = 1 => \E p \in 1..(q - 1) : doneQueue[p][e] # 0
    BY <1>1, <1>2, LeavesOnce
  <2> QED  BY <1>2, <2>1 DEF NoneOf
<1>4. \A q \in QueueId : readyQueue[q][e] \in Nat
  BY DEF JobInv, SessionTyped, Counts, Heap
<1>5. \A q \in QueueId : Queued[q][e] = readyQueue[q][e]
  BY <1>3, <1>4 DEF Queued
<1>6. NoneOf(readyQueue, e) => \A q \in QueueId : \A j \in New(q) : j.elem # e
  BY <1>5, NewOfQueue DEF NoneOf
<1> QED  BY <1>3, <1>5, <1>6

LEMMA QueueJobsLeaves ==
  ASSUME JobInv, QueueJobs, NEW e \in Element, NoneOf(doneQueue, e), NoneOf(readyQueue, e)
  PROVE  /\ NoneOf(doneQueue, e)' /\ NoneOf(readyQueue, e)'
         /\ e \in canQueryCallback' <=> e \in canQueryCallback
         /\ e \in buildableCallback' <=> e \in buildableCallback
         /\ NoJob(e) => NoJob(e)'
         /\ OneJob(e) => OneJob(e)'
<1>1. NoneOf(doneQueue, e)'
  BY QueueJobsDoes DEF NoneOf, NoArrivals, Nothing
<1>2. NoneOf(readyQueue, e)'
  <2> SUFFICES ASSUME NEW q \in QueueId PROVE readyQueue'[q][e] = 0
    BY DEF NoneOf
  <2>1. Queued[q][e] = 0
    BY NothingArrives DEF NoneOf
  <2>2. readyQueue'[q][e] \in Nat /\ readyQueue'[q][e] <= Queued[q][e]
    BY QueueJobsTake
  <2> QED  BY <2>1, <2>2
<1>3. /\ e \in canQueryCallback' <=> e \in canQueryCallback
      /\ e \in buildableCallback' <=> e \in buildableCallback
  <2>1. e \notin Registered("Fetch", Arrived) /\ e \notin Registered("Build", Arrived)
    BY NothingArrives DEF Registered
  <2> QED  BY <2>1, QueueJobsDoes
<1>4. jobs' = jobs \cup UNION {New(q) : q \in QueueId}
  BY QueueJobsKeeps
<1>5. \A q \in QueueId : \A j \in New(q) : j.elem # e
  BY NothingArrives
<1>6. /\ NoJob(e) => NoJob(e)'
      /\ OneJob(e) => OneJob(e)'
  BY <1>4, <1>5 DEF NoJob, OneJob
<1> QED  BY <1>1, <1>2, <1>3, <1>6

LEMMA QueueJobsSingle ==
  ASSUME JobInv, QueueJobs, UNCHANGED <<elementVars, requiredCallback>>,
         NEW e \in Element, Single(e)
  PROVE  Single(e)'
<1>1. jobs' = jobs \cup UNION {New(q) : q \in QueueId}
  BY QueueJobsKeeps
<1>2. \A q \in QueueId :
        /\ Queued[q][e] = readyQueue[q][e] + (IF Ready(q, e) THEN Arrived[q][e] ELSE 0)
        /\ readyQueue[q][e] \in Nat /\ Arrived[q][e] \in Nat
  BY QueuedAndPopped DEF Queued, JobInv, SessionTyped, Counts, Heap
<1>3. /\ e \in canQueryCallback' <=> \/ e \in canQueryCallback
                                     \/ \E q \in QueueId : /\ Queues[q] = "Fetch" /\ Arrived[q][e] > 0
                                                           /\ Pending(q, e)'
      /\ e \in buildableCallback' <=> \/ e \in buildableCallback
                                      \/ \E q \in QueueId : /\ Queues[q] = "Build" /\ Arrived[q][e] > 0
                                                            /\ Pending(q, e)'
  BY QueueJobsDoes DEF Registered
<1>4. \A q \in QueueId : Pending(q, e)' <=> Pending(q, e)
  BY DEF Pending, NothingToBuild, CachedSuccess, Successful, Buildable, FetchNeeded,
         elementVars, artifactVars, sourceVars, cascadeVars
<1>5. CASE NoneOf(doneQueue, e)
  <2>1. CASE NoneOf(readyQueue, e)
    BY <1>5, <2>1, QueueJobsLeaves DEF Single, Idle, OneSpot, NotWaiting
  <2>2. CASE ~NoneOf(readyQueue, e)
    <3>1. NoJob(e) /\ OneOf(readyQueue, e) /\ NotWaiting(e) /\ e \notin requiredCallback
      BY <2>2 DEF Single, Idle, OneSpot
    <3>2. \A q \in QueueId : Arrived[q][e] = 0 /\ Queued[q][e] = readyQueue[q][e]
      BY <1>5, NothingArrives
    <3>3. OneOf(Queued, e) /\ NotWaiting(e)'
      BY <1>3, <3>1, <3>2 DEF OneOf, NotWaiting
    <3> QED  BY <3>1, <3>3, QueuedSingle
  <2> QED  BY <2>1, <2>2
<1>6. CASE ~NoneOf(doneQueue, e)
  <2>1. /\ NoJob(e) /\ NoneOf(readyQueue, e) /\ OneOf(doneQueue, e) /\ NotWaiting(e)
        /\ e \notin requiredCallback
    BY <1>6 DEF Single, Idle, OneSpot
  <2>2. /\ \A q \in QueueId : Arrived[q][e] \in {0, 1}
        /\ \A p, q \in QueueId :
             Arrived[p][e] = 1 /\ Arrived[q][e] = 1 /\ ~Skipped(p, e) /\ ~Skipped(q, e) => p = q
    BY <2>1, ArrivesOnce
  <2>3. \A q \in QueueId : Queued[q][e] = IF Ready(q, e) THEN Arrived[q][e] ELSE 0
    BY <1>2, <2>1 DEF NoneOf
  <2>4. \A q \in QueueId : /\ Queued[q][e] \in {0, 1}
                           /\ Queued[q][e] = 1 => Arrived[q][e] = 1 /\ Ready(q, e)
    BY <2>2, <2>3
  <2>5. OneOf(Queued, e)
    BY <2>2, <2>4 DEF OneOf, Ready
  <2>6. CASE \E q \in QueueId : Arrived[q][e] = 1 /\ Pending(q, e)
    <3>1. PICK q \in QueueId : Arrived[q][e] = 1 /\ Pending(q, e)
      BY <2>6
    <3>2. ~Skipped(q, e) /\ ~Ready(q, e)
      BY <3>1, OneAnswerNow DEF OneAnswer, Ready
    <3>3. \A p \in QueueId : Queued[p][e] = 0
      BY <2>2, <2>4, <3>1, <3>2 DEF Ready
    <3>4. NoneOf(readyQueue, e)'
      <4> SUFFICES ASSUME NEW p \in QueueId PROVE readyQueue'[p][e] = 0
        BY DEF NoneOf
      <4>1. readyQueue'[p][e] \in Nat /\ readyQueue'[p][e] <= Queued[p][e]
        BY QueueJobsTake
      <4> QED  BY <3>3, <4>1
    <3>5. NoneOf(doneQueue, e)'
      BY QueueJobsDoes DEF NoneOf, NoArrivals, Nothing
    <3>6. NoJob(e)'
      <4>1. \A p \in QueueId : \A j \in New(p) : j.elem # e
        BY <3>3, NewOfQueue
      <4> QED  BY <1>1, <2>1, <4>1 DEF NoJob
    <3>7. \A p \in QueueId : Arrived[p][e] > 0 /\ Pending(p, e) => p = q
      BY <2>2, <3>1, <3>2, OneAnswerNow DEF OneAnswer
    <3>8. ~(e \in canQueryCallback' /\ e \in buildableCallback')
      BY <1>3, <1>4, <2>1, <3>7 DEF NotWaiting
    <3> QED  BY <2>1, <3>4, <3>5, <3>6, <3>8 DEF Single, OneSpot
  <2>7. CASE \A q \in QueueId : ~(Arrived[q][e] = 1 /\ Pending(q, e))
    <3>1. NotWaiting(e)'
      BY <1>3, <1>4, <2>1, <2>2, <2>7 DEF NotWaiting
    <3> QED  BY <2>1, <2>5, <3>1, QueuedSingle
  <2> QED  BY <2>6, <2>7
<1> QED  BY <1>5, <1>6

-----------------------------------------------------------------------------
(* The other steps, when the user does not retry. *)

\* An element arrives in one queue if there is one reason at most.
LEMMA OneReason ==
  ASSUME NEW fired, NEW e \in Element, NEW only \in {"required", "canQuery", "buildable"},
         e \in fired.required => only = "required",
         e \in fired.canQuery => only = "canQuery",
         e \in fired.buildable => only = "buildable"
  PROVE  /\ OneOf(Arrivals(fired, {}), e)
         /\ (e \notin fired.required /\ e \notin fired.canQuery /\ e \notin fired.buildable
               => NoneOf(Arrivals(fired, {}), e))
<1> DEFINE W == {"required", "canQuery", "buildable", "again"}
           Reasons(q, x) == {why \in W :
             CASE why = "required"  -> q = 1 /\ x \in fired.required
               [] why = "canQuery"  -> Queues[q] = "Fetch" /\ x \in fired.canQuery
               [] why = "buildable" -> Queues[q] = "Build" /\ x \in fired.buildable
               [] why = "again"     -> <<q, x>> \in {}}
           a == Arrivals(fired, {})
<1>1. a = [q \in QueueId |-> [x \in Element |-> Cardinality(Reasons(q, x))]]
  BY DEF Arrivals
<1>2. \A q \in QueueId : Reasons(q, e) = {} \/ Reasons(q, e) = {only}
  OBVIOUS
<1>3. \A q \in QueueId : Reasons(q, e) # {} =>
        \/ only = "required" /\ q = 1 /\ e \in fired.required
        \/ only = "canQuery" /\ Queues[q] = "Fetch" /\ e \in fired.canQuery
        \/ only = "buildable" /\ Queues[q] = "Build" /\ e \in fired.buildable
  OBVIOUS
<1>4. \A q \in QueueId : a[q][e] = Cardinality(Reasons(q, e))
  <2> HIDE DEF Reasons
  <2> QED  BY <1>1
<1> HIDE DEF Reasons, a
<1>5. Cardinality({}) = 0 /\ Cardinality({only}) = 1
  BY FS_EmptySet, FS_Singleton
<1>6. \A q \in QueueId : a[q][e] \in {0, 1} /\ (a[q][e] # 0 => Reasons(q, e) # {})
  BY <1>2, <1>4, <1>5
<1>7. ASSUME NEW p \in QueueId, NEW q \in QueueId, a[p][e] # 0, a[q][e] # 0 PROVE p = q
  <2>1. (p = 1 /\ q = 1) \/ Queues[p] = Queues[q]
    BY <1>3, <1>6, <1>7
  <2> QED  BY <2>1, OneOfEach
<1>8. OneOf(a, e)
  BY <1>6, <1>7 DEF OneOf
<1>9. e \notin fired.required /\ e \notin fired.canQuery /\ e \notin fired.buildable => NoneOf(a, e)
  BY <1>3, <1>6 DEF NoneOf
<1> QED  BY <1>8, <1>9 DEF a

LEMMA JobDoneSingle ==
  ASSUME JobInv, \A e \in Element : Single(e),
         NEW j \in jobs, NEW raised \in BOOLEAN, NEW reaction, reaction # "retry",
         JobDone(j, raised, reaction), NEW x \in Element
  PROVE  Single(x)'
<1> DEFINE q == j.queue
           e == j.elem
           done == IF raised THEN doneQueue ELSE [doneQueue EXCEPT ![q][e] = @ + 1]
           fired == Fired(j)
           arrivals == Arrivals(fired, {})
<1>1. q \in QueueId /\ e \in Element
  BY DEF JobInv, JobsTyped, JobRecord
<1>2. arrivals \in Counts
  BY ArrivalsTyped
<1>3. /\ done \in Counts
      /\ \A p \in QueueId, y \in Element : done[p][y] =
           IF p = q /\ y = e /\ ~raised THEN doneQueue[p][y] + 1 ELSE doneQueue[p][y]
  <2>1. doneQueue \in [QueueId -> [Element -> Nat]]
    BY DEF JobInv, SessionTyped, Counts, Heap
  <2>2. doneQueue[q][e] + 1 \in Nat
    BY <1>1, <2>1
  <2>3. [doneQueue[q] EXCEPT ![e] = @ + 1] \in [Element -> Nat]
    BY <1>1, <2>1, <2>2
  <2>4. [doneQueue EXCEPT ![q][e] = @ + 1] \in [QueueId -> [Element -> Nat]]
    BY <1>1, <2>1, <2>3
  <2>5. done \in Counts
    BY <2>1, <2>4 DEF Counts, Heap
  <2>6. ASSUME NEW p \in QueueId, NEW y \in Element
        PROVE  done[p][y] = IF p = q /\ y = e /\ ~raised THEN doneQueue[p][y] + 1
                            ELSE doneQueue[p][y]
    <3>1. CASE p = q
      BY <1>1, <2>1, <3>1
    <3>2. CASE p # q
      BY <1>1, <2>1, <3>2
    <3> QED  BY <3>1, <3>2
  <2> QED  BY <2>5, <2>6
<1>4. Enqueue(arrivals, done, fired) /\ jobs' = jobs \ {j}
      /\ requiredCallback' = requiredCallback \ fired.required
  BY DEF JobDone
<1>5. /\ fired.required \subseteq requiredCallback
      /\ fired.canQuery \subseteq canQueryCallback \cap {e}
      /\ fired.buildable \subseteq buildableCallback
  BY DEF Fired
<1> HIDE DEF done, fired
<1>6. CASE x = e
  <2>1. Idle(x) /\ x \notin requiredCallback /\ OneJob(x)
    BY <1>6 DEF Single, NoJob
  <2>2. x \notin fired.required /\ x \notin fired.canQuery /\ x \notin fired.buildable
    BY <1>5, <2>1 DEF Idle, NotWaiting
  <2>3. NoneOf(arrivals, x)
    BY <2>2, OneReason
  <2>4. NoJob(x)'
    BY <1>4, <1>6, <2>1 DEF NoJob, OneJob
  <2> HIDE DEF arrivals
  <2>5. /\ \A p \in QueueId : readyQueue'[p][x] = readyQueue[p][x] /\ doneQueue'[p][x] = done[p][x]
        /\ NotWaiting(x)'
    BY <1>2, <1>3, <1>4, <2>1, <2>2, <2>3, EnqueueNone DEF Idle, NotWaiting
  <2>6. \A p \in QueueId : doneQueue'[p][x] = IF p = q /\ ~raised THEN 1 ELSE 0
    BY <1>3, <1>6, <2>1, <2>5 DEF Idle, NoneOf
  <2>7. NoneOf(readyQueue, x)' /\ OneOf(doneQueue, x)'
    BY <2>1, <2>5, <2>6 DEF Idle, NoneOf, OneOf
  <2> QED  BY <1>4, <2>1, <2>4, <2>5, <2>7 DEF Single, OneSpot
<1>7. CASE x # e
  <2>1. \A p \in QueueId : done[p][x] = doneQueue[p][x]
    BY <1>3, <1>7
  <2>2. /\ NoJob(x) => NoJob(x)'
        /\ OneJob(x) => OneJob(x)'
    BY <1>4 DEF NoJob, OneJob
  <2>3. x \notin fired.canQuery
    BY <1>5, <1>7
  <2>4. CASE x \in fired.required
    <3>1. NoJob(x) /\ Idle(x)
      BY <1>5, <2>4 DEF Single
    <3>2. x \notin fired.buildable
      BY <1>5, <3>1 DEF Idle, NotWaiting
    <3>3. OneOf(arrivals, x)
      BY <2>3, <2>4, <3>2, OneReason
    <3>4. NoneOf(readyQueue, x) /\ NoneOf(done, x) /\ NotWaiting(x)
      BY <2>1, <3>1 DEF Idle, NoneOf
    <3> HIDE DEF arrivals
    <3>5. OneSpot(x)'
      BY <1>2, <1>3, <1>4, <3>3, <3>4, EnqueueOne DEF NotWaiting
    <3> QED  BY <1>4, <2>2, <2>4, <3>1, <3>5 DEF Single
  <2>5. CASE x \in fired.buildable /\ x \notin fired.required
    <3>1. NoJob(x) /\ x \notin requiredCallback /\ OneSpot(x) /\ x \in buildableCallback
      BY <1>5, <2>5 DEF Single, Idle, NotWaiting
    <3>2. NoneOf(readyQueue, x) /\ NoneOf(doneQueue, x) /\ x \notin canQueryCallback
      BY <3>1 DEF OneSpot, NotWaiting
    <3>3. OneOf(arrivals, x)
      BY <2>3, <2>5, OneReason
    <3>4. NoneOf(done, x)
      BY <2>1, <3>2 DEF NoneOf
    <3> HIDE DEF arrivals
    <3>5. OneSpot(x)'
      BY <1>2, <1>3, <1>4, <2>5, <3>2, <3>3, <3>4, EnqueueOne
    <3> QED  BY <1>4, <2>2, <3>1, <3>5 DEF Single
  <2>6. CASE x \notin fired.buildable /\ x \notin fired.required
    <3>1. NoneOf(arrivals, x)
      BY <2>3, <2>6, OneReason
    <3> HIDE DEF arrivals
    <3>2. /\ \A p \in QueueId : readyQueue'[p][x] = readyQueue[p][x] /\ doneQueue'[p][x] = done[p][x]
          /\ x \in canQueryCallback' <=> x \in canQueryCallback
          /\ x \in buildableCallback' <=> x \in buildableCallback
      BY <1>2, <1>3, <1>4, <2>3, <2>6, <3>1, EnqueueNone
    <3>3. \A p \in QueueId : doneQueue'[p][x] = doneQueue[p][x]
      BY <2>1, <3>2
    <3>4. x \in requiredCallback' <=> x \in requiredCallback
      BY <1>4, <2>6
    <3>5. /\ Idle(x) => Idle(x)'
          /\ OneSpot(x) => OneSpot(x)'
      BY <3>2, <3>3 DEF Idle, OneSpot, NoneOf, OneOf, NotWaiting
    <3> QED  BY <2>2, <3>4, <3>5 DEF Single
  <2> QED  BY <2>4, <2>5, <2>6
<1> QED  BY <1>6, <1>7

\* Jobs that only move on stay at their place.
LEMMA SameJobsSingle ==
  ASSUME JobsDistinct', UNCHANGED queueVars, \A k \in jobs' : \E l \in jobs : SameJob(k, l),
         NEW e \in Element, Single(e)
  PROVE  Single(e)'
<1>1. /\ NoJob(e) => NoJob(e)'
      /\ OneJob(e) => OneJob(e)'
  BY DEF NoJob, OneJob, SameJob, JobsDistinct
<1>2. /\ Idle(e) => Idle(e)'
      /\ OneSpot(e) => OneSpot(e)'
      /\ e \in requiredCallback' <=> e \in requiredCallback
  BY DEF Idle, OneSpot, NoneOf, OneOf, NotWaiting, queueVars, callbackVars
<1> QED  BY <1>1, <1>2 DEF Single

LEMMA EnqueuePlanSingle ==
  ASSUME JobInv, QueryEmpty, EnqueuePlan, NEW e \in Element
  PROVE  Single(e)'
<1> DEFINE arrivals == [NoArrivals EXCEPT ![1] = Once(required)]
<1>1. /\ jobs = {} /\ NotWaiting(e) /\ NoneOf(readyQueue, e) /\ NoneOf(doneQueue, e)
      /\ doneQueue \in Counts
  BY DEF QueryEmpty, EnqueuePlan, NotWaiting, NoneOf, NoArrivals, Nothing, JobInv, SessionTyped
<1>2. /\ arrivals \in Counts
      /\ \A q \in QueueId : arrivals[q][e] = IF q = 1 /\ e \in required THEN 1 ELSE 0
  <2>1. NoArrivals \in Counts /\ Once(required) \in Heap
    BY NoArrivalsTyped, OnceTyped
  <2>2. Once(required)[e] = IF e \in required THEN 1 ELSE 0
    BY DEF Once
  <2>3. \A q \in QueueId : NoArrivals[q][e] = 0
    BY DEF NoArrivals, Nothing
  <2> QED  BY <2>1, <2>2, <2>3 DEF Counts
<1>3. /\ Enqueue(arrivals, doneQueue, NoneFired)
      /\ UNCHANGED jobs /\ requiredCallback' = Element \ required
  BY DEF EnqueuePlan
<1> HIDE DEF arrivals
<1>4. NoJob(e)'
  BY <1>1, <1>3 DEF NoJob
<1>5. CASE e \in required
  <2>1. OneOf(arrivals, e)
    BY <1>2 DEF OneOf
  <2>2. OneSpot(e)'
    BY <1>1, <1>2, <1>3, <2>1, EnqueueOne DEF NotWaiting
  <2> QED  BY <1>3, <1>4, <1>5, <2>2 DEF Single
<1>6. CASE e \notin required
  <2>1. NoneOf(arrivals, e)
    BY <1>2, <1>6 DEF NoneOf
  <2>2. e \notin NoneFired.canQuery /\ e \notin NoneFired.buildable
    BY DEF NoneFired
  <2>3. /\ \A q \in QueueId : readyQueue'[q][e] = readyQueue[q][e] /\ doneQueue'[q][e] = doneQueue[q][e]
        /\ e \in canQueryCallback' <=> e \in canQueryCallback
        /\ e \in buildableCallback' <=> e \in buildableCallback
    BY <1>1, <1>2, <1>3, <2>1, <2>2, EnqueueNone
  <2>4. Idle(e)'
    BY <1>1, <2>3 DEF Idle, NoneOf, NotWaiting
  <2> QED  BY <1>4, <2>4 DEF Single
<1> QED  BY <1>5, <1>6

LEMMA PlaceInvNext ==
  ASSUME "retry" \notin OnFailure, JobInv, JobInv', PlaceInv, [Next]_vars
  PROVE  PlaceInv'
<1>1. ASSUME UNCHANGED <<queueVars, phase>>, \A k \in jobs' : \E l \in jobs : SameJob(k, l)
      PROVE  PlaceInv'
  <2>1. QueryEmpty'
    BY <1>1 DEF PlaceInv, QueryEmpty, queueVars, callbackVars
  <2>2. \A e \in Element : Single(e)'
    BY <1>1, SameJobsSingle DEF PlaceInv, JobInv
  <2> QED  BY <2>1, <2>2 DEF PlaceInv
<1>2. CASE \E j \in jobs : ThreadStep(j)
  <2>1. UNCHANGED <<queueVars, phase>> /\ \A k \in jobs' : \E l \in jobs : SameJob(k, l)
    BY <1>2, ThreadStepMoves, ThreadAtMoves DEF mainVars
  <2> QED  BY <1>1, <2>1
<1>3. CASE TerminateJobs
  BY <1>1, <1>3, TerminateJobsMoves DEF TerminateJobs, loopVars
<1>4. CASE Environment \/ Stopped \/ UNCHANGED vars
  <2>1. UNCHANGED <<queueVars, phase, jobs>>
    BY <1>4 DEF Environment, Quit, TerminateStream, TerminateScheduler, Stopped, vars, loopVars
  <2> QED  BY <1>1, <2>1 DEF SameJob
<1>5. CASE QueryArtifact \/ QueryArtifactDone
  <2>1. /\ UNCHANGED <<queueVars, jobs>>
        /\ phase \in {"query", "queried"}
    BY <1>5 DEF QueryArtifact, QueryArtifactDone
  <2>2. QueryEmpty'
    BY <2>1 DEF PlaceInv, QueryEmpty, queueVars, callbackVars
  <2>3. \A e \in Element : Single(e)'
    BY <2>1, SameJobsSingle DEF PlaceInv, JobInv, SameJob
  <2> QED  BY <2>2, <2>3 DEF PlaceInv
<1>6. CASE EnqueuePlan
  <2>1. QueryEmpty'
    BY <1>6 DEF EnqueuePlan, QueryEmpty
  <2> QED  BY <1>6, <2>1, EnqueuePlanSingle DEF PlaceInv
<1>7. CASE RealSchedule
  <2>1. QueryEmpty'
    BY <1>7 DEF RealSchedule, QueryEmpty
  <2>2. UNCHANGED <<elementVars, requiredCallback>>
    BY <1>7 DEF RealSchedule
  <2>3. CASE terminated
    <3>1. UNCHANGED <<queueVars, jobs>>
      BY <1>7, <2>3 DEF RealSchedule, queueVars, callbackVars
    <3>2. \A e \in Element : Single(e)'
      BY <3>1, SameJobsSingle DEF PlaceInv, JobInv, SameJob
    <3> QED  BY <2>1, <3>2 DEF PlaceInv
  <2>4. CASE ~terminated
    <3>1. QueueJobs
      BY <1>7, <2>4 DEF RealSchedule
    <3> QED  BY <2>1, <2>2, <3>1, QueueJobsSingle DEF PlaceInv
  <2> QED  BY <2>3, <2>4
<1>8. CASE \E j \in jobs, raised \in BOOLEAN, reaction \in OnFailure \cup {"none"} :
             JobDone(j, raised, reaction)
  <2>1. PICK j \in jobs, raised \in BOOLEAN, reaction \in OnFailure \cup {"none"} :
          JobDone(j, raised, reaction)
    BY <1>8
  <2>2. reaction # "retry"
    OBVIOUS
  <2>3. QueryEmpty'
    BY <2>1 DEF JobDone, QueryEmpty
  <2> QED  BY <2>1, <2>2, <2>3, JobDoneSingle DEF PlaceInv
<1> QED
  BY <1>2, <1>3, <1>4, <1>5, <1>6, <1>7, <1>8 DEF Next, MainStep

LEMMA SpecPlaceInv ==
  ASSUME "retry" \notin OnFailure
  PROVE  Spec => []PlaceInv
<1>1. JobInv /\ JobInv' /\ PlaceInv /\ [Next]_vars => PlaceInv'
  BY PlaceInvNext
<1> QED  BY <1>1, PlaceInvInit, SpecJobInv, PTL DEF Spec

\* Unless the user retries a failed job, an element is never in two places of a
\* session: it has one job, waits in one queue or for one callback.
THEOREM ElementsHaveOnePlace ==
  ASSUME "retry" \notin OnFailure
  PROVE  Spec => []OnePlace
<1>1. JobInv /\ PlaceInv => OnePlace
  BY SingleIsOnePlace DEF PlaceInv, OnePlace
<1> QED  BY <1>1, SpecPlaceInv, SpecJobInv, PTL

-----------------------------------------------------------------------------
(* Only what is required has a place, and only what is needed is required. *)

Needed(e) ==
  \/ e \in Targets
  \/ \E d \in required : e \in RuntimeDeps[d] \/ (d \in assembleScheduled /\ e \in BuildDeps[d])

Unplaced(e) == NoJob(e) /\ Idle(e)

NeedInv ==
  /\ \A e \in required : Needed(e)
  /\ \A e \in Element : e \in required \/ Unplaced(e)

LEMMA NeedInvInit == Init => NeedInv
<1> SUFFICES ASSUME Init PROVE NeedInv
  OBVIOUS
<1>1. \A e \in Element : Unplaced(e)
  BY DEF Init, Unplaced, NoJob, Idle, NoneOf, NotWaiting, NoArrivals, Nothing
<1>2. required = IF RequiredScope = "none" THEN Targets ELSE Reach(RuntimeDeps, Targets)
  BY DEF Init, ElementInit
<1>3. \A e \in required : Needed(e)
  <2>1. CASE RequiredScope = "none"
    BY <1>2, <2>1 DEF Needed
  <2>2. CASE RequiredScope # "none"
    BY <1>2, <2>2, ReachedIsNeeded, SessionAssumption DEF Needed
  <2> QED  BY <2>1, <2>2
<1> QED  BY <1>1, <1>3 DEF NeedInv

\* The handlers require only what is needed.
LEMMA HandlersRequire ==
  ASSUME \A x \in required : Needed(x), NEW e \in Element, LoadArtifactDone(e)
  PROVE  /\ required \subseteq required'
         /\ \A x \in required' : Needed(x)'
<1> DEFINE scheduled == {x \in {e} \cap required : Assemblable(x)}
           roots == UNION {BuildDeps[x] : x \in scheduled}
           nowRequired == NewlyRequired(roots)
           nowScheduled == scheduled \cup {x \in nowRequired : Assemblable(x)}
<1>1. /\ required' = required \cup nowRequired
      /\ assembleScheduled' = assembleScheduled \cup nowScheduled
  BY DEF LoadArtifactDone
<1>2. scheduled \subseteq required /\ roots \in SUBSET Element
  BY FiniteDeps
<1>3. ASSUME NEW x \in required PROVE Needed(x)'
  BY <1>1, <1>3 DEF Needed
<1>4. ASSUME NEW x \in nowRequired PROVE Needed(x)'
  <2>1. CASE x \in roots
    <3>1. PICK d \in scheduled : x \in BuildDeps[d]
      BY <2>1
    <3> QED  BY <1>1, <1>2, <3>1 DEF Needed
  <2>2. CASE \E d \in nowRequired : x \in RuntimeDeps[d] \/ (Assemblable(d) /\ x \in BuildDeps[d])
    <3>1. PICK d \in nowRequired : x \in RuntimeDeps[d] \/ (Assemblable(d) /\ x \in BuildDeps[d])
      BY <2>2
    <3>2. d \in required' /\ (Assemblable(d) => d \in assembleScheduled')
      BY <1>1
    <3> QED  BY <3>1, <3>2 DEF Needed
  <2>3. \/ x \in roots
        \/ \E d \in nowRequired : x \in RuntimeDeps[d] \/ (Assemblable(d) /\ x \in BuildDeps[d])
    <3> HIDE DEF roots
    <3> QED  BY <1>2, NewlyRequiredIsNeeded
  <2> QED  BY <2>1, <2>2, <2>3
<1> HIDE DEF nowRequired
<1> QED  BY <1>1, <1>3, <1>4

\* Steps that leave an element that is not required without a place.
LEMMA SameRequired ==
  ASSUME NeedInv, UNCHANGED <<required, assembleScheduled>>,
         \A e \in Element \ required : Unplaced(e)'
  PROVE  NeedInv'
BY DEF NeedInv, Needed

LEMMA JobDoneUnplaced ==
  ASSUME JobInv, NeedInv, required \subseteq required',
         NEW j \in jobs, NEW raised \in BOOLEAN, NEW reaction,
         JobDone(j, raised, reaction), NEW x \in Element \ required'
  PROVE  Unplaced(x)'
<1> DEFINE q == j.queue
           e == j.elem
           done == IF raised THEN doneQueue ELSE [doneQueue EXCEPT ![q][e] = @ + 1]
           fired == Fired(j)
           Again(again) == IF again THEN {<<q, e>>} ELSE {}
           arrivals(again) == Arrivals(fired, Again(again))
<1>1. /\ q \in QueueId /\ e \in Element
      /\ \E again \in BOOLEAN : Enqueue(arrivals(again), done, fired)
      /\ jobs' \subseteq jobs
  <2>1. j \in JobRecord
    BY DEF JobInv, JobsTyped
  <2> QED  BY <2>1 DEF JobDone, JobRecord
<1>2. PICK again \in BOOLEAN : Enqueue(arrivals(again), done, fired)
  BY <1>1
<1>3. x # e /\ Unplaced(x)
  BY DEF NeedInv, Unplaced, NoJob
<1>4. /\ fired.required \subseteq required'
      /\ fired.canQuery \subseteq canQueryCallback
      /\ fired.buildable \subseteq buildableCallback
  BY DEF Fired
<1>5. x \notin fired.required /\ x \notin fired.canQuery /\ x \notin fired.buildable
  BY <1>3, <1>4 DEF Unplaced, Idle, NotWaiting
<1>6. done \in Counts /\ NoneOf(done, x)
  <2>1. doneQueue \in [QueueId -> [Element -> Nat]] /\ NoneOf(doneQueue, x)
    BY <1>3 DEF JobInv, SessionTyped, Counts, Heap, Unplaced, Idle
  <2>2. doneQueue[q][e] + 1 \in Nat
    BY <1>1, <2>1
  <2>3. [doneQueue[q] EXCEPT ![e] = @ + 1] \in [Element -> Nat]
    BY <1>1, <2>1, <2>2
  <2>4. [doneQueue EXCEPT ![q][e] = @ + 1] \in [QueueId -> [Element -> Nat]]
    BY <1>1, <2>1, <2>3
  <2>5. done \in Counts
    BY <2>1, <2>4 DEF Counts, Heap
  <2>6. ASSUME NEW p \in QueueId PROVE done[p][x] = 0
    <3>1. CASE p = q
      BY <1>1, <1>3, <2>1, <3>1 DEF NoneOf
    <3>2. CASE p # q
      BY <1>1, <1>3, <2>1, <3>2 DEF NoneOf
    <3> QED  BY <3>1, <3>2
  <2> QED  BY <2>5, <2>6 DEF NoneOf
<1>7. arrivals(again) \in Counts
  BY ArrivalsTyped
<1>8. NoneOf(arrivals(again), x)
  <2> HIDE DEF fired
  <2>1. \A p : <<p, x>> \notin Again(again)
    BY <1>3
  <2> HIDE DEF Again, e
  <2> DEFINE Reasons(p, y) == {why \in {"required", "canQuery", "buildable", "again"} :
               CASE why = "required"  -> p = 1 /\ y \in fired.required
                 [] why = "canQuery"  -> Queues[p] = "Fetch" /\ y \in fired.canQuery
                 [] why = "buildable" -> Queues[p] = "Build" /\ y \in fired.buildable
                 [] why = "again"     -> <<p, y>> \in Again(again)}
  <2>2. arrivals(again) = [p \in QueueId |-> [y \in Element |-> Cardinality(Reasons(p, y))]]
    BY DEF Arrivals
  <2>3. \A p \in QueueId : Reasons(p, x) = {}
    BY <1>5, <2>1
  <2> HIDE DEF Reasons, arrivals
  <2>4. \A p \in QueueId : arrivals(again)[p][x] = Cardinality(Reasons(p, x))
    BY <2>2
  <2>5. Cardinality({}) = 0
    BY FS_EmptySet
  <2> QED  BY <2>3, <2>4, <2>5 DEF NoneOf
<1> HIDE DEF arrivals, done, fired
<1>9. /\ \A p \in QueueId : readyQueue'[p][x] = readyQueue[p][x] /\ doneQueue'[p][x] = done[p][x]
      /\ x \in canQueryCallback' <=> x \in canQueryCallback
      /\ x \in buildableCallback' <=> x \in buildableCallback
  BY <1>2, <1>5, <1>6, <1>7, <1>8, EnqueueNone
<1>10. NoJob(x)'
  BY <1>1, <1>3 DEF Unplaced, NoJob
<1> QED  BY <1>3, <1>6, <1>9, <1>10 DEF Unplaced, Idle, NoneOf, NotWaiting

LEMMA NeedInvNext ==
  ASSUME JobInv, NeedInv, [Next]_vars
  PROVE  NeedInv'
<1>1. ASSUME UNCHANGED <<required, assembleScheduled, readyQueue, doneQueue, canQueryCallback,
                         buildableCallback>>,
             \A k \in jobs' : \E l \in jobs : SameJob(k, l)
      PROVE  NeedInv'
  <2>1. ASSUME NEW e \in Element, Unplaced(e) PROVE Unplaced(e)'
    BY <1>1, <2>1 DEF Unplaced, NoJob, Idle, NoneOf, NotWaiting, SameJob
  <2> QED  BY <1>1, <2>1, SameRequired DEF NeedInv
<1>2. CASE \E j \in jobs : ThreadStep(j)
  <2>1. PICK j \in jobs : ThreadStep(j)
    BY <1>2
  <2>2. UNCHANGED cascadeVars
    BY <2>1 DEF ThreadStep, Begin, PullStep, FetchStep, Assemble, CacheArtifact, PushStep,
                Terminate, elementVars
  <2>3. UNCHANGED queueVars /\ \A k \in jobs' : \E l \in jobs : SameJob(k, l)
    BY <2>1, ThreadStepMoves, ThreadAtMoves DEF mainVars
  <2> QED  BY <1>1, <2>2, <2>3 DEF cascadeVars, queueVars, callbackVars
<1>3. CASE TerminateJobs
  BY <1>1, <1>3, TerminateJobsMoves
     DEF TerminateJobs, loopVars, elementVars, cascadeVars, queueVars, callbackVars
<1>4. CASE QueryArtifact \/ Environment \/ Stopped \/ UNCHANGED vars
  <2>1. UNCHANGED <<cascadeVars, queueVars, jobs>>
    BY <1>4 DEF QueryArtifact, Environment, Quit, TerminateStream, TerminateScheduler, Stopped,
                vars, loopVars, elementVars
  <2> QED  BY <1>1, <2>1 DEF SameJob, cascadeVars, queueVars, callbackVars
<1>5. CASE QueryArtifactDone
  <2>1. UNCHANGED <<queueVars, jobs>>
    BY <1>5 DEF QueryArtifactDone
  <2>2. CASE UNCHANGED cascadeVars
    BY <1>1, <2>1, <2>2 DEF SameJob, cascadeVars, queueVars, callbackVars
  <2>3. CASE LoadArtifactDone(Plan[position])
    <3>1. Plan[position] \in Element
      <4>1. Plan \in Seq(Element) /\ position \in 1..Len(Plan)
        BY <1>5, PlanAssumption DEF QueryArtifactDone, JobInv, SessionTyped
      <4> QED  BY <4>1
    <3>2. required \subseteq required' /\ \A x \in required' : Needed(x)'
      BY <2>3, <3>1, HandlersRequire DEF NeedInv
    <3>3. \A e \in Element : Unplaced(e) => Unplaced(e)'
      BY <2>1 DEF Unplaced, NoJob, Idle, NoneOf, NotWaiting, queueVars, callbackVars
    <3> QED  BY <3>2, <3>3 DEF NeedInv
  <2> QED  BY <1>5, <2>2, <2>3 DEF QueryArtifactDone
<1>6. CASE EnqueuePlan
  <2>1. UNCHANGED <<required, assembleScheduled, jobs>>
    BY <1>6 DEF EnqueuePlan, elementVars, cascadeVars
  <2>2. ASSUME NEW e \in Element \ required PROVE Unplaced(e)'
    <3> DEFINE arrivals == [NoArrivals EXCEPT ![1] = Once(required)]
    <3>1. Unplaced(e)
      BY DEF NeedInv
    <3>2. arrivals \in Counts
      BY NoArrivalsTyped, OnceTyped DEF Counts
    <3>3. NoneOf(arrivals, e)
      <4>1. NoArrivals \in Counts
        BY NoArrivalsTyped
      <4>2. Once(required)[e] = 0 /\ \A q \in QueueId : NoArrivals[q][e] = 0
        BY DEF Once, NoArrivals, Nothing
      <4> QED  BY <4>1, <4>2 DEF NoneOf, Counts
    <3>4. Enqueue(arrivals, doneQueue, NoneFired) /\ doneQueue \in Counts
      BY <1>6 DEF EnqueuePlan, JobInv, SessionTyped
    <3>5. e \notin NoneFired.canQuery /\ e \notin NoneFired.buildable
      BY DEF NoneFired
    <3> HIDE DEF arrivals
    <3>6. /\ \A q \in QueueId : readyQueue'[q][e] = readyQueue[q][e]
                                /\ doneQueue'[q][e] = doneQueue[q][e]
          /\ e \in canQueryCallback' <=> e \in canQueryCallback
          /\ e \in buildableCallback' <=> e \in buildableCallback
      BY <3>2, <3>3, <3>4, <3>5, EnqueueNone
    <3> QED  BY <2>1, <3>1, <3>6 DEF Unplaced, NoJob, Idle, NoneOf, NotWaiting
  <2> QED  BY <2>1, <2>2, SameRequired
<1>7. CASE RealSchedule
  <2>1. UNCHANGED <<required, assembleScheduled, requiredCallback>>
    BY <1>7 DEF RealSchedule, elementVars, cascadeVars
  <2>2. CASE terminated
    <3>1. UNCHANGED <<readyQueue, doneQueue, canQueryCallback, buildableCallback, jobs>>
      BY <1>7, <2>2 DEF RealSchedule
    <3> QED  BY <1>1, <2>1, <3>1 DEF SameJob
  <2>3. CASE ~terminated
    <3>1. QueueJobs
      BY <1>7, <2>3 DEF RealSchedule
    <3>2. ASSUME NEW e \in Element \ required PROVE Unplaced(e)'
      BY <3>1, QueueJobsLeaves DEF NeedInv, Unplaced, Idle, NotWaiting
    <3> QED  BY <2>1, <3>2, SameRequired
  <2> QED  BY <2>2, <2>3
<1>8. ASSUME NEW j \in jobs, NEW raised \in BOOLEAN, NEW reaction, JobDone(j, raised, reaction)
      PROVE  NeedInv'
  <2>1. j.elem \in Element
    BY DEF JobInv, JobsTyped, JobRecord
  <2>2. \/ LoadArtifactDone(j.elem)
        \/ UNCHANGED <<required, assembleScheduled>>
    BY <1>8 DEF JobDone, Finish, FetchDone, AssembleDone, elementVars, cascadeVars
  <2>3. required \subseteq required' /\ \A x \in required' : Needed(x)'
    <3>1. CASE LoadArtifactDone(j.elem)
      BY <2>1, <3>1, HandlersRequire DEF NeedInv
    <3>2. CASE UNCHANGED <<required, assembleScheduled>>
      BY <3>2 DEF NeedInv, Needed
    <3> QED  BY <2>2, <3>1, <3>2
  <2>4. \A x \in Element \ required' : Unplaced(x)'
    BY <1>8, <2>3, JobDoneUnplaced
  <2> QED  BY <2>3, <2>4 DEF NeedInv
<1> QED
  BY <1>2, <1>3, <1>4, <1>5, <1>6, <1>7, <1>8 DEF Next, MainStep

LEMMA SpecNeedInv == Spec => []NeedInv
<1>1. JobInv /\ NeedInv /\ [Next]_vars => NeedInv'
  BY NeedInvNext
<1> QED  BY <1>1, NeedInvInit, SpecJobInv, PTL DEF Spec

\* Whatever is fetched or built is a target, or is needed by an element that is
\* itself required, to run it or to assemble it.
THEOREM WorkIsNeeded == Spec => []OnlyNeededWork
<1>1. ASSUME JobInv, NeedInv PROVE OnlyNeededWork
  <2> SUFFICES ASSUME NEW j \in jobs PROVE Needed(j.elem)
    BY DEF OnlyNeededWork, Needed
  <2>1. j.elem \in Element
    BY <1>1 DEF JobInv, JobsTyped, JobRecord
  <2> QED  BY <1>1, <2>1 DEF NeedInv, Unplaced, NoJob
<1> QED  BY <1>1, SpecNeedInv, SpecJobInv, PTL

-----------------------------------------------------------------------------
(* No lost wake-up. *)

WakeInv ==
  /\ requiredCallback \cap required = {}
  /\ \A e \in canQueryCallback : artifact[e] = "none"
  /\ \A e \in buildableCallback : ~Buildable(e)

LEMMA WakeInvInit == Init => WakeInv
BY DEF Init, WakeInv

\* Only elements that are among those woken turn buildable when others turn ready.
LEMMA TurnsBuildable ==
  ASSUME CountersExact, NEW e \in Element, NEW S, S \cap ready = {}, NEW succeeded,
         Notify(S, succeeded),
         e \in assembleScheduled' => e \in assembleScheduled,
         FetchNeeded(e)' <=> FetchNeeded(e),
         ~Buildable(e), Buildable(e)'
  PROVE  e \in Woken(ready' \ ready)
<1> DEFINE n == Cardinality(BuildDeps[e] \cap S)
           u == buildDepsUncached[e]
<1>1. ready' \ ready = S
  BY DEF Notify
<1>2. /\ e \in assembleScheduled /\ ~FetchNeeded(e)
      /\ buildDepsUncached'[e] = 0 /\ u # 0
  BY DEF Buildable
<1>3. IsFiniteSet(BuildDeps[e] \cap S) /\ IsFiniteSet(BuildDeps[e] \ ready)
  BY FiniteDeps, FS_Subset
<1>4. n \in Nat /\ u \in Nat
  <2>1. u = Cardinality(BuildDeps[e] \ ready)
    BY DEF CountersExact
  <2> QED  BY <1>3, <2>1, FS_CardinalityType
<1>5. buildDepsUncached'[e] = u - n
  BY DEF Notify
<1> HIDE DEF n, u
<1>6. u = n /\ n # 0
  BY <1>2, <1>4, <1>5
<1>7. BuildDeps[e] \cap S # {}
  BY <1>6, FS_EmptySet DEF n
<1> QED  BY <1>1, <1>2, <1>6, <1>7 DEF Woken, n, u

\* While nobody has it, nothing that an element waits for happens to it but by the
\* handlers that call it back.
LEMMA WaitingIsFree ==
  ASSUME PlaceInv, NEW e \in Element, ~NotWaiting(e)
  PROVE  NoJob(e) /\ e \notin requiredCallback
BY DEF PlaceInv, Single, Idle

LEMMA ThreadWake ==
  ASSUME JobInv, PlaceInv, ElementTyped, WakeInv, NEW j \in jobs, ThreadStep(j)
  PROVE  WakeInv'
<1>1. j.elem \in Element
  BY DEF JobInv, JobsTyped, JobRecord
<1>2. UNCHANGED <<cascadeVars, mainVars>>
  BY DEF ThreadStep, Begin, PullStep, FetchStep, Assemble, CacheArtifact, PushStep, Terminate,
         elementVars
<1>3. ASSUME NEW e \in Element, e # j.elem
      PROVE  artifact'[e] = artifact[e] /\ (FetchNeeded(e)' <=> FetchNeeded(e))
  <2>1. CASE UNCHANGED artifact
    <3>1. FetchNeeded(e)' <=> FetchNeeded(e)
      BY <1>3 DEF ThreadStep, Begin, PullStep, FetchStep, Assemble, CacheArtifact, PushStep,
                  Terminate, elementVars, sourceVars, FetchNeeded
    <3> QED  BY <2>1, <3>1
  <2>2. CASE \E found, discarded : PullEnds(j.elem, found, discarded) /\ UNCHANGED sourceVars
    <3>1. artifact'[e] = artifact[e]
      BY <1>3, <2>2 DEF PullEnds, ElementTyped, ArtifactsTyped
    <3> QED  BY <2>2, <3>1 DEF sourceVars, FetchNeeded
  <2>3. UNCHANGED artifact
        \/ \E found, discarded : PullEnds(j.elem, found, discarded) /\ UNCHANGED sourceVars
    BY DEF ThreadStep, Begin, PullBegins, PullStep, FetchStep, Assemble, CacheArtifact, PushStep,
           Terminate, elementVars, artifactVars
  <2> QED  BY <2>1, <2>2, <2>3
<1>4. \A e \in Element : ~NotWaiting(e) => e # j.elem
  BY WaitingIsFree DEF NoJob
<1>5. canQueryCallback \subseteq Element /\ buildableCallback \subseteq Element
  BY DEF JobInv, SessionTyped
<1> QED
  BY <1>2, <1>3, <1>4, <1>5
     DEF WakeInv, Buildable, NotWaiting, cascadeVars, mainVars, queueVars, callbackVars

\* What the end of a job changes of an element that waits for something.
LEMMA JobDoneChanges ==
  ASSUME JobInv, Inv, ElementTyped, NeedInv,
         NEW j \in jobs, NEW raised \in BOOLEAN, NEW reaction, JobDone(j, raised, reaction),
         NEW e \in Element, e # j.elem
  PROVE  /\ artifact'[e] = artifact[e]
         /\ e \in required /\ ~Buildable(e) /\ Buildable(e)' => e \in Woken(ready' \ ready)
<1>1. CountersExact
  BY DEF Inv, Readiness
<1>2. \/ LoadArtifactDone(j.elem) /\ UNCHANGED <<artifactVars, sourceVars>>
      \/ FetchDone(j.elem) /\ UNCHANGED <<artifactVars, cascadeVars>>
      \/ AssembleDone(j.elem, j.st = "ok") /\ UNCHANGED sourceVars
      \/ UNCHANGED elementVars
  BY DEF JobDone, Finish
<1>3. CASE LoadArtifactDone(j.elem) /\ UNCHANGED <<artifactVars, sourceVars>>
  <2> DEFINE keys == IF artifact[j.elem] = "cached" THEN KeysUpdated(cacheKey, {j.elem}) ELSE cacheKey
             S == NewlyReady(j.elem, keys, Successful(artifact))
             scheduled == {x \in {j.elem} \cap required : Assemblable(x)}
             nowRequired == NewlyRequired(UNION {BuildDeps[x] : x \in scheduled})
             nowScheduled == scheduled \cup {x \in nowRequired : Assemblable(x)}
  <2>1. Notify(S, S) /\ assembleScheduled' = assembleScheduled \cup nowScheduled
    BY <1>3 DEF LoadArtifactDone
  <2>2. S \cap ready = {}
    <3> HIDE DEF keys
    <3> QED  BY NewlyReadyIsNew
  <2>3. nowScheduled \cap required \subseteq {j.elem}
    BY DEF NewlyRequired
  <2>4. FetchNeeded(e)' <=> FetchNeeded(e)
    BY <1>3 DEF sourceVars, FetchNeeded
  <2> HIDE DEF S, nowScheduled
  <2>5. e \in required /\ ~Buildable(e) /\ Buildable(e)' => e \in Woken(ready' \ ready)
    BY <1>1, <2>1, <2>2, <2>3, <2>4, TurnsBuildable
  <2> QED  BY <1>3, <2>5 DEF artifactVars
<1>4. CASE FetchDone(j.elem) /\ UNCHANGED <<artifactVars, cascadeVars>>
  BY <1>4 DEF FetchDone, artifactVars, cascadeVars, Buildable, FetchNeeded
<1>5. CASE AssembleDone(j.elem, j.st = "ok") /\ UNCHANGED sourceVars
  <2> DEFINE handle == [artifact EXCEPT ![j.elem] =
                          IF j.st = "ok" \/ stored[j.elem] # "none" THEN "cached" ELSE "uncached"]
             built == IF j.st = "ok" THEN {j.elem} ELSE {}
             keys == KeysUpdated(cacheKey, {j.elem})
             S == NewlyReady(j.elem, keys, Successful(handle) \cup built)
  <2>1. Notify(S, S \cup built) /\ UNCHANGED assembleScheduled /\ artifact' = handle
    BY <1>5 DEF AssembleDone
  <2>2. S \cap ready = {}
    <3> HIDE DEF keys, handle, built
    <3> QED  BY NewlyReadyIsNew
  <2>3. FetchNeeded(e)' <=> FetchNeeded(e)
    BY <1>5 DEF sourceVars, FetchNeeded
  <2>4. artifact'[e] = artifact[e]
    BY <2>1 DEF ElementTyped, ArtifactsTyped
  <2> HIDE DEF S, built
  <2>5. ~Buildable(e) /\ Buildable(e)' => e \in Woken(ready' \ ready)
    BY <1>1, <2>1, <2>2, <2>3, TurnsBuildable
  <2> QED  BY <2>4, <2>5
<1>6. CASE UNCHANGED elementVars
  BY <1>6 DEF elementVars, artifactVars, sourceVars, cascadeVars, Buildable, FetchNeeded
<1> QED  BY <1>2, <1>3, <1>4, <1>5, <1>6

LEMMA JobDoneWake ==
  ASSUME JobInv, Inv, PlaceInv, NeedInv, ElementTyped, WakeInv, required \subseteq required',
         NEW j \in jobs, NEW raised \in BOOLEAN, NEW reaction, JobDone(j, raised, reaction)
  PROVE  WakeInv'
<1> DEFINE fired == Fired(j)
<1>1. PICK arrivals, done : Enqueue(arrivals, done, fired)
  BY DEF JobDone
<1>2. /\ requiredCallback' = requiredCallback \ fired.required
      /\ fired.required = requiredCallback \cap (required' \ required)
      /\ fired.buildable = buildableCallback \cap Woken(ready' \ ready)
  BY DEF JobDone, Fired
<1> HIDE DEF fired
<1>3. requiredCallback' \cap required' = {}
  BY <1>2 DEF WakeInv
<1>4. canQueryCallback \subseteq Element /\ buildableCallback \subseteq Element
  BY DEF JobInv, SessionTyped
<1>5. ASSUME NEW e \in Element, ~NotWaiting(e)
      PROVE  e # j.elem /\ e \in required
  BY <1>5, WaitingIsFree DEF NoJob, NeedInv, Unplaced, Idle
<1>6. ASSUME NEW e \in canQueryCallback' PROVE artifact'[e] = "none"
  <2>1. CASE e \in Registered("Fetch", arrivals)
    <3>1. PICK q \in QueueId : Queues[q] = "Fetch" /\ Pending(q, e)'
      BY <2>1 DEF Registered
    <3> QED  BY <3>1 DEF Pending
  <2>2. CASE e \in canQueryCallback
    <3>1. e # j.elem /\ artifact[e] = "none" /\ e \in Element
      BY <1>4, <1>5, <2>2 DEF WakeInv, NotWaiting
    <3> QED  BY <3>1, JobDoneChanges
  <2> QED  BY <1>1, <2>1, <2>2 DEF Enqueue
<1>7. ASSUME NEW e \in buildableCallback' PROVE ~Buildable(e)'
  <2>1. CASE e \in Registered("Build", arrivals)
    <3>1. PICK q \in QueueId : Queues[q] = "Build" /\ Pending(q, e)'
      BY <2>1 DEF Registered
    <3> QED  BY <3>1 DEF Pending
  <2>2. CASE e \in buildableCallback /\ e \notin fired.buildable
    <3>1. e # j.elem /\ e \in required /\ ~Buildable(e) /\ e \in Element
      BY <1>4, <1>5, <2>2 DEF WakeInv, NotWaiting
    <3>2. e \notin Woken(ready' \ ready)
      BY <1>2, <2>2
    <3> QED  BY <3>1, <3>2, JobDoneChanges
  <2> QED  BY <1>1, <2>1, <2>2 DEF Enqueue
<1> QED  BY <1>3, <1>6, <1>7 DEF WakeInv

LEMMA WakeInvNext ==
  ASSUME JobInv, Inv, PlaceInv, NeedInv, ElementTyped, WakeInv, [Next]_vars
  PROVE  WakeInv'
<1>1. ASSUME UNCHANGED <<elementVars, requiredCallback, canQueryCallback, buildableCallback>>
      PROVE  WakeInv'
  BY <1>1 DEF WakeInv, Buildable, FetchNeeded, elementVars, artifactVars, sourceVars, cascadeVars
<1>2. CASE \E j \in jobs : ThreadStep(j)
  BY <1>2, ThreadWake
<1>3. CASE TerminateJobs \/ Environment \/ Stopped \/ UNCHANGED vars
  <2>1. UNCHANGED <<elementVars, queueVars>>
    BY <1>3 DEF TerminateJobs, Environment, Quit, TerminateStream, TerminateScheduler, Stopped,
                vars, loopVars
  <2> QED  BY <1>1, <2>1 DEF queueVars, callbackVars
<1>4. CASE QueryArtifact \/ QueryArtifactDone
  BY <1>4 DEF QueryArtifact, QueryArtifactDone, PlaceInv, QueryEmpty, WakeInv, queueVars,
              callbackVars
<1>5. CASE EnqueuePlan
  <2>1. /\ UNCHANGED required /\ requiredCallback' = Element \ required
        /\ canQueryCallback = {} /\ buildableCallback = {}
    BY <1>5 DEF EnqueuePlan, elementVars, cascadeVars, PlaceInv, QueryEmpty
  <2>2. PICK arrivals : /\ canQueryCallback' \subseteq Registered("Fetch", arrivals)
                        /\ buildableCallback' \subseteq Registered("Build", arrivals)
    BY <1>5, <2>1 DEF EnqueuePlan, Enqueue
  <2> QED  BY <2>1, <2>2 DEF WakeInv, Registered, Pending
<1>6. CASE RealSchedule
  <2>1. UNCHANGED <<elementVars, requiredCallback>>
    BY <1>6 DEF RealSchedule
  <2>2. CASE terminated
    BY <1>1, <1>6, <2>1, <2>2 DEF RealSchedule
  <2>3. CASE ~terminated
    <3>1. /\ canQueryCallback' = canQueryCallback \cup Registered("Fetch", Arrived)
          /\ buildableCallback' = buildableCallback \cup Registered("Build", Arrived)
      BY <1>6, <2>3, QueueJobsDoes DEF RealSchedule
    <3>2. /\ \A e \in Registered("Fetch", Arrived) : artifact'[e] = "none"
          /\ \A e \in Registered("Build", Arrived) : ~Buildable(e)'
      BY DEF Registered, Pending
    <3>3. /\ UNCHANGED <<artifact, required>>
          /\ \A e \in Element : Buildable(e)' <=> Buildable(e)
      BY <2>1 DEF Buildable, FetchNeeded, elementVars, artifactVars, sourceVars, cascadeVars
    <3>4. buildableCallback \subseteq Element
      BY DEF JobInv, SessionTyped
    <3> QED  BY <2>1, <3>1, <3>2, <3>3, <3>4 DEF WakeInv
  <2> QED  BY <2>2, <2>3
<1>7. ASSUME NEW j \in jobs, NEW raised \in BOOLEAN, NEW reaction, JobDone(j, raised, reaction)
      PROVE  WakeInv'
  <2>1. required \subseteq required'
    BY <1>7 DEF JobDone, Finish, LoadArtifactDone, FetchDone, AssembleDone, elementVars,
                cascadeVars
  <2> QED  BY <1>7, <2>1, JobDoneWake
<1> QED
  BY <1>2, <1>3, <1>4, <1>5, <1>6, <1>7 DEF Next, MainStep

\* No lost wake-up: unless the user retries a failed job, no element waits in a queue
\* for what has already happened.
THEOREM NoWakeupIsMissed ==
  ASSUME "retry" \notin OnFailure
  PROVE  Spec => []NoMissedWakeup
<1>1. JobInv /\ Inv /\ PlaceInv /\ NeedInv /\ ElementTyped /\ WakeInv /\ [Next]_vars => WakeInv'
  BY WakeInvNext
<1>2. WakeInv => NoMissedWakeup
  BY DEF WakeInv, NoMissedWakeup
<1> QED
  BY <1>1, <1>2, WakeInvInit, SpecJobInv, SpecInv, SpecPlaceInv, SpecNeedInv, SpecTyped, PTL
     DEF Spec
=============================================================================

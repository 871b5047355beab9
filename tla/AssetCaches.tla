---------------------------- MODULE AssetCaches ----------------------------
(***************************************************************************)
(* The caches of artifacts, of staged element sources and of single        *)
(* sources (_artifactcache.py, _elementsourcescache.py, _sourcecache.py):  *)
(* several clients, each with a local cache, work on one element and share *)
(* remotes.  A remote has an index, which maps keys to digests of protos,  *)
(* a storage, which holds blobs, or both.                                  *)
(*                                                                         *)
(* Every call of a remote is a step.  Servers and buildbox-casd are        *)
(* external: a call may fail, a storage may be full, and a local cache may *)
(* drop blobs between two commands.                                        *)
(***************************************************************************)
EXTENDS Naturals, Sequences, FiniteSets

CONSTANTS
  Clients,       \* machines that run bst on the same element
  Remotes,       \* the configured remotes, numbered by priority
  Index,         \* those that are an index
  Storage,       \* those that are a storage
  Push,          \* those that accept pushes
  MayBeDown,     \* those that may not answer when a client sets them up
  Artifacts,     \* digests of the artifact protos that builds of the element can produce
  Strong, Strict, Weak,  \* the keys recorded in each artifact
  HasBuildtree,  \* artifacts with a build tree
  Builds,        \* what the builds of each client produce
  StrictKey, WeakKey,    \* the keys of the element, the same for all clients
  Sources,       \* the sources of the element in order: each is its key and its digest
  NeedsPrevious, \* sources that need those listed before them
  Staged,        \* key and digest of the staged sources of the element
  Ops,           \* what each client does
  StrictMode,    \* context.get_strict()
  PullBuildtrees, \* context.pull_buildtrees
  Faults,        \* what may go wrong: "index", "storage", "full", "fetch", "expiry"
  MaxFaults,     \* bound on how often
  MaxOps,        \* bound on the commands of a client
  NoDigest

SourceKeys == {Sources[i] : i \in DOMAIN Sources}
Digests == Artifacts \cup SourceKeys \cup {Staged}
Keys == {StrictKey, WeakKey, Staged} \cup SourceKeys \cup {Strong[a] : a \in Artifacts}
          \cup {Strict[a] : a \in Artifacts} \cup {Weak[a] : a \in Artifacts}

ASSUME CachesAssumption ==
  /\ Remotes \subseteq Nat /\ IsFiniteSet(Remotes)
  /\ Index \subseteq Remotes /\ Storage \subseteq Remotes /\ Push \subseteq Remotes
  /\ HasBuildtree \subseteq Artifacts
  /\ NoDigest \notin Digests
  /\ Staged \notin SourceKeys /\ Sources \in Seq(SourceKeys)
  /\ (Artifacts \cup {StrictKey, WeakKey} \cup {Strong[a] : a \in Artifacts}
       \cup {Strict[a] : a \in Artifacts} \cup {Weak[a] : a \in Artifacts})
        \cap (SourceKeys \cup {Staged}) = {}
  /\ Builds \in [Clients -> SUBSET Artifacts]
  /\ MaxFaults \in Nat /\ MaxOps \in Nat

VARIABLES
  index,      \* what each index maps each key to
  storage,    \* the blobs of each storage
  refs,       \* the proto files of each client: the digest each key refers to
  cas,        \* the blobs in the local CAS of each client
  originals,  \* the sources that the plugins of each client have downloaded
  connected,  \* AssetCache._remotes: the remotes each client could set up
  call,       \* what each client is doing
  result,     \* how the last command of each client ended
  ops,        \* commands each client has started
  faults      \* what has gone wrong so far

remoteVars == <<index, storage>>
localVars == <<refs, cas, originals>>
vars == <<remoteVars, localVars, connected, call, result, ops, faults>>

\* A part of what a digest stands for.  "files" is a directory tree.
Blob(d, part) == <<d, part>>
Blobs(d) ==
  {Blob(d, p) : p \in IF d \in Artifacts THEN {"files", "meta", "proto"}
                          \cup (IF d \in HasBuildtree THEN {"buildtree"} ELSE {})
                      ELSE IF d = Staged THEN {"files", "proto"} ELSE {"files"}}

Asset(key) == IF key = Staged THEN "elementsources"
              ELSE IF key \in SourceKeys THEN "source" ELSE "artifact"

Idle == [op |-> "idle", at |-> "idle", key |-> NoDigest, digest |-> NoDigest, rest |-> {},
         parts |-> <<>>, errors |-> FALSE, there |-> FALSE, source |-> 0,
         cached |-> FALSE, missed |-> {}]

First(rest) == CHOOSE r \in rest : \A s \in rest : r <= s

\* get_remotes(): what was set up, only what accepts pushes if push.
IndexRemotes(c, push) == Index \cap connected[c] \cap (IF push THEN Push ELSE Remotes)
StorageRemotes(c, push) == Storage \cap connected[c] \cap (IF push THEN Push ELSE Remotes)
HasRemotes(c, push) == IndexRemotes(c, push) # {} /\ StorageRemotes(c, push) # {}

\* Artifact.query_cache() for the proto found under a key, and what cached(buildtree=) adds.
Cached(c, key) ==
  /\ refs[c][key] # NoDigest
  /\ {Blob(refs[c][key], "files"), Blob(refs[c][key], "meta")} \subseteq cas[c]
BuildtreeThere(c, key) == refs[c][key] \in HasBuildtree => Blob(refs[c][key], "buildtree") \in cas[c]

\* ElementSources.query_cache() and SourceCache.contains().
SourcesCached(c, key) == refs[c][key] # NoDigest /\ Blob(refs[c][key], "files") \in cas[c]

\* What _load_artifact() settles for: the artifact of the strict key, or in non-strict mode
\* that of the weak key.
LoadedKey(c) == IF Cached(c, StrictKey) \/ StrictMode THEN StrictKey ELSE WeakKey

Init ==
  /\ index = [r \in Index |-> [k \in Keys |-> NoDigest]]
  /\ storage = [r \in Storage |-> {}]
  /\ refs = [c \in Clients |-> [k \in Keys |-> NoDigest]]
  /\ cas = [c \in Clients |-> {}]
  /\ originals = [c \in Clients |-> {}]
  /\ connected \in [Clients -> {Remotes \ d : d \in SUBSET MayBeDown}]
  /\ call = [c \in Clients |-> Idle]
  /\ result = [c \in Clients |-> "none"]
  /\ ops = [c \in Clients |-> 0]
  /\ faults = 0

MayFail(kind) == kind \in Faults /\ faults < MaxFaults
Fault(kind) == MayFail(kind) /\ faults' = faults + 1

Ends(c, res) ==
  /\ call' = [call EXCEPT ![c] = Idle]
  /\ result' = [result EXCEPT ![c] = res]

\* The client does what it was doing, changed by a record of new values.
Goes(c, changes) ==
  /\ call' = [call EXCEPT ![c] = [f \in DOMAIN Idle |->
                                    IF f \in DOMAIN changes THEN changes[f] ELSE call[c][f]]]
  /\ UNCHANGED result

Starts(c, op) ==
  /\ call[c].op = "idle" /\ op \in Ops[c] /\ ops[c] < MaxOps
  /\ ops' = [ops EXCEPT ![c] = @ + 1]
  /\ UNCHANGED <<connected, faults>>

At(c, op, at) == call[c].op \in op /\ call[c].at = at /\ UNCHANGED <<connected, ops>>

-----------------------------------------------------------------------------
(* Pulling: one procedure for the three caches, with their differences. *)

\* A digest is to be had for the key: the indexes agree on it and a storage has all of it.
IsThere(c, key) ==
  \E d \in Digests :
    /\ \E r \in IndexRemotes(c, FALSE) : index[r][key] = d
    /\ \A r \in IndexRemotes(c, FALSE) : index[r][key] \in {d, NoDigest}
    /\ \E r \in StorageRemotes(c, FALSE) : Blobs(d) \subseteq storage[r]

PullOf(c, op, key, cached) ==
  [op |-> op, at |-> "index", key |-> key, digest |-> NoDigest, rest |-> IndexRemotes(c, FALSE),
   errors |-> FALSE, there |-> IsThere(c, key), cached |-> cached]

\* Mutant: build trees are never asked for.
PartsToPullPlain(key, d) ==
  CASE Asset(key) = "source" -> <<"files">>
    [] Asset(key) = "elementsources" -> <<"proto", "files">>
    [] OTHER -> <<"proto", "files", "meta">>

\* The order in which the parts are fetched; a directory comes with its files.
PartsToPull(key, d) ==
  CASE Asset(key) = "source" -> <<"files">>
    [] Asset(key) = "elementsources" -> <<"proto", "files">>
    [] OTHER -> IF PullBuildtrees /\ d \in HasBuildtree
                THEN <<"proto", "files", "buildtree", "meta">> ELSE <<"proto", "files", "meta">>

\* One index is asked for the digest.  The caches of artifacts and of staged sources take the
\* first answer and go on after an error; the cache of single sources asks every index, stores
\* each answer, keeps the last one, even if that is none, and fails at the first error.
AskIndex(c) ==
  LET k == call[c].key
      r == First(call[c].rest)
      single == Asset(k) = "source"
      found == index[r][k]
      later == call[c].rest \ {r}
  IN
  /\ At(c, {"pull", "fetch"}, "index") /\ call[c].rest # {}
  /\ \/ /\ found # NoDigest
        /\ Goes(c, [digest |-> found, rest |-> IF single THEN later ELSE {}])
        /\ refs' = IF single THEN [refs EXCEPT ![c][k] = found] ELSE refs
        /\ UNCHANGED faults
     \/ /\ found = NoDigest
        /\ Goes(c, [digest |-> NoDigest, rest |-> later])
        /\ UNCHANGED <<refs, faults>>
     \/ /\ Fault("index")
        /\ IF single THEN Ends(c, "error") ELSE Goes(c, [errors |-> TRUE, rest |-> later])
        /\ UNCHANGED refs
  /\ UNCHANGED <<remoteVars, cas, originals>>

\* Every index was asked.
IndexAsked(c) ==
  /\ At(c, {"pull", "fetch"}, "index") /\ call[c].rest = {}
  /\ IF call[c].digest # NoDigest
     THEN Goes(c, [at |-> "storage", rest |-> StorageRemotes(c, FALSE), errors |-> FALSE,
                   parts |-> PartsToPull(call[c].key, call[c].digest)])
     ELSE IF call[c].errors THEN Ends(c, "error") ELSE Goes(c, [at |-> "absent"])
  /\ UNCHANGED <<remoteVars, localVars, faults>>

FetchingPart(c) == At(c, {"pull", "fetch"}, "storage") /\ call[c].rest # {}
TryNext(c, errors) ==
  [rest |-> call[c].rest \ {First(call[c].rest)},
   parts |-> PartsToPull(call[c].key, call[c].digest), errors |-> errors]
PartIsThere(c) == Blob(call[c].digest, Head(call[c].parts)) \in storage[First(call[c].rest)] \cup cas[c]

\* The next part is fetched from a storage, or is in the local CAS already.  The proto is
\* written to the directory of protos before the rest is fetched.
FetchPart(c) ==
  LET p == Head(call[c].parts)
      d == call[c].digest
  IN
  /\ FetchingPart(c) /\ PartIsThere(c)
  /\ cas' = [cas EXCEPT ![c] = @ \cup {Blob(d, p)}]
  /\ refs' = IF p = "proto" THEN [refs EXCEPT ![c][call[c].key] = d] ELSE refs
  /\ Goes(c, IF Len(call[c].parts) = 1 THEN [at |-> "pulled"] ELSE [parts |-> Tail(call[c].parts)])
  /\ UNCHANGED <<remoteVars, originals, faults>>

\* Mutant: a proto whose blobs are not found is removed again.
BlobNotFoundCleansUp(c) ==
  /\ FetchingPart(c) /\ ~PartIsThere(c)
  /\ Goes(c, TryNext(c, call[c].errors))
  /\ refs' = [refs EXCEPT ![c][call[c].key] = NoDigest]
  /\ UNCHANGED <<remoteVars, cas, originals, faults>>

\* Not all blobs are available on this remote.
BlobNotFound(c) ==
  /\ FetchingPart(c) /\ ~PartIsThere(c)
  /\ Goes(c, TryNext(c, call[c].errors))
  /\ UNCHANGED <<remoteVars, localVars, faults>>

\* A failed batch of blobs ends the pull without trying the other remotes.  A tree that cannot
\* be fetched is noted, and the next remote is tried, but not for single sources.
FetchFails(c) ==
  /\ FetchingPart(c) /\ Fault("storage")
  /\ \/ Ends(c, "error")
     \/ /\ Head(call[c].parts) \in {"files", "buildtree"} /\ Asset(call[c].key) # "source"
        /\ Goes(c, TryNext(c, TRUE))
  /\ UNCHANGED <<remoteVars, localVars>>

\* Mutant: failures count as absence.
StorageAskedForgets(c) ==
  /\ At(c, {"pull", "fetch"}, "storage") /\ call[c].rest = {}
  /\ Goes(c, [at |-> "absent"])
  /\ UNCHANGED <<remoteVars, localVars, faults>>

StorageAsked(c) ==
  /\ At(c, {"pull", "fetch"}, "storage") /\ call[c].rest = {}
  /\ IF call[c].errors THEN Ends(c, "error") ELSE Goes(c, [at |-> "absent"])
  /\ UNCHANGED <<remoteVars, localVars, faults>>

-----------------------------------------------------------------------------
(* Artifacts: building, Element._load_artifact(pull=True), Element._push(). *)

\* Artifact.cache() of a build: the blobs, then the proto under the strong and the weak key.
BuildArtifact(c) ==
  /\ Starts(c, "build") /\ ~Cached(c, LoadedKey(c))
  /\ \E a \in Builds[c] :
       /\ cas' = [cas EXCEPT ![c] = @ \cup (Blobs(a) \ {Blob(a, "proto")})]
       /\ refs' = [refs EXCEPT ![c] = [k \in Keys |->
                     IF k \in {Strong[a], Weak[a]} THEN a ELSE @[k]]]
  /\ UNCHANGED <<remoteVars, originals, call, result>>

\* A pull job runs if the artifact, or its build tree when wanted, is not in the local cache.
StartPull(c) ==
  /\ Starts(c, "pull") /\ HasRemotes(c, FALSE)
  /\ ~Cached(c, StrictKey) \/ (PullBuildtrees /\ ~BuildtreeThere(c, StrictKey))
  /\ Goes(c, PullOf(c, "pull", StrictKey, Cached(c, StrictKey)))
  /\ UNCHANGED <<remoteVars, localVars>>

\* Artifact.pull(): the artifact is linked under each of the keys that it records.
ArtifactPulled(c) ==
  LET a == call[c].digest IN
  /\ At(c, {"pull"}, "pulled")
  /\ refs' = [refs EXCEPT ![c] = [k \in Keys |->
                IF k \in {Strong[a], Strict[a], Weak[a]} THEN a ELSE @[k]]]
  /\ Ends(c, "pulled")
  /\ UNCHANGED <<remoteVars, cas, originals, faults>>

\* In non-strict mode an artifact that is not there under the strict key is asked for under
\* the weak key.  Whether it is cached was decided before the pull.
ArtifactAbsent(c) ==
  /\ At(c, {"pull"}, "absent")
  /\ IF ~StrictMode /\ call[c].key = StrictKey /\ ~call[c].cached
     THEN Goes(c, PullOf(c, "pull", WeakKey, FALSE))
     ELSE Ends(c, "absent")
  /\ UNCHANGED <<remoteVars, localVars, faults>>

StartPush(c) ==
  LET k == LoadedKey(c) IN
  /\ Starts(c, "push") /\ HasRemotes(c, TRUE)
  /\ Cached(c, k) /\ BuildtreeThere(c, k)
  /\ Goes(c, [op |-> "push", at |-> "storage", key |-> k, digest |-> refs[c][k],
              rest |-> StorageRemotes(c, TRUE)])
  /\ cas' = [cas EXCEPT ![c] = @ \cup {Blob(refs[c][k], "proto")}]
  /\ UNCHANGED <<remoteVars, refs, originals>>

\* Everything goes to one storage, in this order.  A failure leaves a part of it there.  It ends
\* the push, but SourceCache.push() goes on with the next storage, and ArtifactCache.push() does
\* so if the storage is full.  (ElementSourcesCache.push() means to: it calls display_key(),
\* which is a string.)
PushOrder(d) == SelectSeq(<<"files", "buildtree", "proto", "meta">>,
                          LAMBDA p : Blob(d, p) \in Blobs(d))

PushBlobs(c) ==
  LET r == First(call[c].rest)
      d == call[c].digest
      later == call[c].rest \ {r}
      partly == \E n \in 0..Len(PushOrder(d)) :
                  storage' = [storage EXCEPT ![r] = @ \cup {Blob(d, PushOrder(d)[i]) : i \in 1..n}]
      missed == Goes(c, [rest |-> later, missed |-> call[c].missed \cup {r}])
  IN
  /\ At(c, {"push", "pushsources"}, "storage") /\ call[c].rest # {}
  /\ \/ /\ storage' = [storage EXCEPT ![r] = @ \cup Blobs(d)]
        /\ Goes(c, [rest |-> later]) /\ UNCHANGED faults
     \/ /\ Fault("full") /\ partly
        /\ IF Asset(call[c].key) = "elementsources" THEN Ends(c, "error") ELSE missed
     \/ /\ Fault("storage") /\ partly
        /\ IF Asset(call[c].key) = "source" THEN missed ELSE Ends(c, "error")
  /\ UNCHANGED <<index, localVars>>

\* Mutant: the index is told after the first storage.
BlobsPushedEarly(c) ==
  /\ At(c, {"push", "pushsources"}, "storage")
  /\ Goes(c, [at |-> "index", rest |-> IndexRemotes(c, TRUE)])
  /\ UNCHANGED <<remoteVars, localVars, faults>>

BlobsPushed(c) ==
  /\ At(c, {"push", "pushsources"}, "storage") /\ call[c].rest = {}
  /\ Goes(c, [at |-> "index", rest |-> IndexRemotes(c, TRUE)])
  /\ UNCHANGED <<remoteVars, localVars, faults>>

\* The keys an artifact is pushed under, with duplicates removed.
PushKeys(c) == IF Asset(call[c].key) = "artifact"
               THEN {Strong[call[c].digest], Weak[call[c].digest]} ELSE {call[c].key}

\* The index is asked first; which of several known keys it answers for is its choice.  The
\* push is skipped if the answer is the digest to be pushed, for a single source if there is
\* any answer, which is stored.
PushProto(c) ==
  LET r == First(call[c].rest)
      d == call[c].digest
      single == Asset(call[c].key) = "source"
      known == {index[r][k] : k \in PushKeys(c)} \ {NoDigest}
      next == Goes(c, [rest |-> call[c].rest \ {r}])
  IN
  /\ At(c, {"push", "pushsources"}, "index") /\ call[c].rest # {}
  /\ \/ /\ \E answer \in known : single \/ answer = d
        /\ next /\ UNCHANGED <<index, faults>>
     \/ /\ known = {} \/ (~single /\ \E answer \in known : answer # d)
        /\ index' = [index EXCEPT ![r] = [k \in Keys |-> IF k \in PushKeys(c) THEN d ELSE @[k]]]
        /\ next /\ UNCHANGED faults
     \/ Fault("index") /\ Ends(c, "error") /\ UNCHANGED index
  /\ UNCHANGED <<storage, localVars>>

ArtifactPushed(c) ==
  /\ At(c, {"push"}, "index") /\ call[c].rest = {}
  /\ Ends(c, "pushed")
  /\ UNCHANGED <<remoteVars, localVars, faults>>

-----------------------------------------------------------------------------
(* Sources: Element._fetch() and ElementSources.push(). *)

SourceAt(c) == Sources[call[c].source]

\* fetch(): the staged sources are cached, or asked for as a whole, or fetched one by one.
StartFetch(c) ==
  /\ Starts(c, "fetch") /\ ~SourcesCached(c, Staged)
  /\ IF HasRemotes(c, FALSE)
     THEN Goes(c, PullOf(c, "fetch", Staged, FALSE))
     ELSE Goes(c, [op |-> "fetch", at |-> "source", source |-> 1])
  /\ UNCHANGED <<remoteVars, localVars>>

StagedPulled(c) ==
  /\ At(c, {"fetch"}, "pulled") /\ call[c].key = Staged
  /\ Ends(c, "fetched")
  /\ UNCHANGED <<remoteVars, localVars, faults>>

\* The next source, after the staged sources were asked for or a source was pulled.
NextSource(c) ==
  /\ At(c, {"fetch"}, IF call[c].key = Staged THEN "absent" ELSE "pulled")
  /\ Goes(c, [at |-> "source", source |-> call[c].source + 1])
  /\ UNCHANGED <<remoteVars, localVars, faults>>

\* _fetch_source(): what is cached is skipped, what was downloaded is committed, and what is
\* not is asked for before it is downloaded.  A source that needs previous ones is only
\* downloaded.
FetchSource(c) ==
  LET s == SourceAt(c)
      done == Goes(c, [source |-> call[c].source + 1])
  IN
  /\ At(c, {"fetch"}, "source") /\ call[c].source \in DOMAIN Sources
  /\ \/ /\ s \in NeedsPrevious /\ s \in originals[c]
        /\ done /\ UNCHANGED <<refs, cas>>
     \/ /\ s \notin NeedsPrevious /\ SourcesCached(c, s)
        /\ done /\ UNCHANGED <<refs, cas>>
     \/ /\ s \notin NeedsPrevious /\ ~SourcesCached(c, s) /\ s \in originals[c]
        /\ refs' = [refs EXCEPT ![c][s] = s]
        /\ cas' = [cas EXCEPT ![c] = @ \cup Blobs(s)]
        /\ done
     \/ /\ s \notin NeedsPrevious /\ ~SourcesCached(c, s) /\ s \notin originals[c]
        /\ Goes(c, IF HasRemotes(c, FALSE) THEN PullOf(c, "fetch", s, FALSE)
                   ELSE [at |-> "absent", key |-> s])
        /\ UNCHANGED <<refs, cas>>
     \/ /\ s \in NeedsPrevious /\ s \notin originals[c]
        /\ Goes(c, [at |-> "absent", key |-> s])
        /\ UNCHANGED <<refs, cas>>
  /\ UNCHANGED <<remoteVars, originals, faults>>

\* Source._fetch() downloads the source; FetchSource then commits it.
FetchOriginal(c) ==
  /\ At(c, {"fetch"}, "absent") /\ call[c].key # Staged
  /\ \/ /\ originals' = [originals EXCEPT ![c] = @ \cup {SourceAt(c)}]
        /\ Goes(c, [at |-> "source"])
        /\ UNCHANGED faults
     \/ Fault("fetch") /\ Ends(c, "error") /\ UNCHANGED originals
  /\ UNCHANGED <<remoteVars, refs, cas>>

\* stage_and_cache(): all sources are staged from the source cache, or by their plugins.
StageAndCache(c) ==
  /\ At(c, {"fetch"}, "source") /\ call[c].source = Len(Sources) + 1
  /\ refs' = [refs EXCEPT ![c][Staged] = Staged]
  /\ cas' = [cas EXCEPT ![c] = @ \cup {Blob(Staged, "files")}]
  /\ Ends(c, "fetched")
  /\ UNCHANGED <<remoteVars, originals, faults>>

StartSourcePush(c) ==
  /\ Starts(c, "pushsources") /\ HasRemotes(c, TRUE) /\ SourcesCached(c, Staged)
  /\ Goes(c, [op |-> "pushsources", at |-> "source", source |-> 1])
  /\ UNCHANGED <<remoteVars, localVars>>

\* Every source that can be cached on its own and is, and at last the staged sources.
PushNextSource(c) ==
  LET i == call[c].source
      item == IF i = Len(Sources) + 1 THEN Staged ELSE SourceAt(c)
      push == Goes(c, [at |-> "storage", key |-> item, digest |-> refs[c][item],
                       rest |-> StorageRemotes(c, TRUE), missed |-> {}])
  IN
  /\ At(c, {"pushsources"}, "source")
  /\ IF item = Staged
     THEN push /\ cas' = [cas EXCEPT ![c] = @ \cup {Blob(Staged, "proto")}]
     ELSE /\ IF item \notin NeedsPrevious /\ SourcesCached(c, item)
             THEN push ELSE Goes(c, [source |-> i + 1])
          /\ UNCHANGED cas
  /\ UNCHANGED <<remoteVars, refs, originals, faults>>

SourcePushed(c) ==
  /\ At(c, {"pushsources"}, "index") /\ call[c].rest = {}
  /\ IF call[c].key = Staged THEN Ends(c, "pushed")
     ELSE Goes(c, [at |-> "source", source |-> call[c].source + 1])
  /\ UNCHANGED <<remoteVars, localVars, faults>>

-----------------------------------------------------------------------------
\* External: buildbox-casd makes room between two commands and drops files or build trees.
Expire(c) ==
  /\ call[c].op = "idle" /\ Fault("expiry")
  /\ \E b \in cas[c] : b[2] \in {"files", "buildtree"} /\ cas' = [cas EXCEPT ![c] = @ \ {b}]
  /\ UNCHANGED <<remoteVars, refs, originals, connected, call, result, ops>>

Pulling(c) ==
  \/ AskIndex(c) \/ IndexAsked(c) \/ FetchPart(c) \/ BlobNotFound(c) \/ FetchFails(c)
  \/ StorageAsked(c)
Pushing(c) == PushBlobs(c) \/ BlobsPushed(c) \/ PushProto(c)
ArtifactStep(c) == ArtifactPulled(c) \/ ArtifactAbsent(c) \/ ArtifactPushed(c)
SourceStep(c) ==
  \/ StagedPulled(c) \/ NextSource(c) \/ FetchSource(c) \/ FetchOriginal(c)
  \/ StageAndCache(c) \/ PushNextSource(c) \/ SourcePushed(c)
Start(c) == BuildArtifact(c) \/ StartPull(c) \/ StartPush(c) \/ StartFetch(c) \/ StartSourcePush(c)

Next == \E c \in Clients :
  Start(c) \/ Pulling(c) \/ Pushing(c) \/ ArtifactStep(c) \/ SourceStep(c) \/ Expire(c)

Spec == Init /\ [][Next]_vars

-----------------------------------------------------------------------------
(* Properties. *)

Ending(c, res) == call[c].op # "idle" /\ call'[c].op = "idle" /\ result'[c] = res

\* What is reported as pulled or fetched is complete in the local cache, whatever mixture of
\* remotes and earlier attempts it came from: Artifact.set_cached() and fetch_done() believe it
\* without looking.
SuccessIsComplete ==
  [][\A c \in Clients :
       /\ Ending(c, "pulled") => \E k \in Keys :
            /\ k = call[c].key /\ Cached(c, k)'
            /\ PullBuildtrees => BuildtreeThere(c, k)'
       /\ Ending(c, "fetched") => SourcesCached(c, Staged)']_vars

\* A pull of an artifact or of staged sources only reports that they are not available if they
\* were not: the fallback over indexes and storages leaves no remote out, and failures of some
\* remotes are not mistaken for absence.  (Unless another artifact is pushed under the same key
\* meanwhile, and is not in the storages this client can reach.)
PullFindsWhatIsThere ==
  [][\A c \in Clients :
       (/\ call[c].at \in {"index", "storage"} /\ call'[c].at = "absent"
        /\ Asset(call[c].key) # "source") => ~call[c].there]_vars

\* The same for a single source: "Attempts to pull sources from configure remote source caches"
\* (SourceCache.pull).
SourcePullFindsWhatIsThere ==
  [][\A c \in Clients :
       (/\ call[c].at \in {"index", "storage"} /\ call'[c].at = "absent"
        /\ Asset(call[c].key) = "source") => ~call[c].there]_vars

\* An index is only told of a digest when all that it stands for is in every storage that the
\* client pushes to and that did not refuse it, so that no client is sent to blobs that are
\* still on their way.
IndexAfterBlobs ==
  [][\A r \in Index, k \in Keys : index'[r][k] # index[r][k] =>
       \E c \in Clients : \A s \in StorageRemotes(c, TRUE) \ call[c].missed :
         call[c].op \in {"push", "pushsources"} /\ Blobs(index'[r][k]) \subseteq storage[s]]_vars

\* A pull, also one that fails half-way, does not cost the client an artifact that it has.  The
\* exception is a pull that finds another artifact under the same key: one for a missing build
\* tree, or in non-strict mode one for the weak key, though there is an artifact under it.
PullLosesNothing ==
  [][\A c \in Clients, k \in {StrictKey, WeakKey} :
       Cached(c, k) /\ ~Cached(c, k)' =>
         \/ call[c].op = "idle"
         \/ /\ PullBuildtrees \/ (~StrictMode /\ k = WeakKey)
            /\ call[c].op = "pull" /\ refs'[c][k] \notin {refs[c][k], NoDigest}]_vars

\* The artifact found under the strict key of an element is one that was built in strict mode:
\* "Add reference for the other key (weak key when pulling with strong key, strong key when
\* pulling with weak key)" (Artifact.pull).
StrictKeyIsStrict ==
  \A c \in Clients : refs[c][StrictKey] # NoDigest => Strong[refs[c][StrictKey]] = StrictKey
=============================================================================

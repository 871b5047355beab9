------------------------- MODULE AssetCachesProofs --------------------------
(***************************************************************************)
(* Proofs about AssetCaches, for any number of clients, remotes, sources   *)
(* and faults: an index is only told of what the storages have, a pull     *)
(* that succeeds is complete, a pull costs no artifact, and what is there  *)
(* is found if builds are reproducible.                                    *)
(***************************************************************************)
EXTENDS AssetCaches, WellFoundedInduction, TLAPS

Pushes(c) == call[c].op \in {"push", "pushsources"}

\* All storages of a client but some have what it pushes.
PushedTo(c, but) == \A s \in StorageRemotes(c, TRUE) \ but : Blobs(call[c].digest) \subseteq storage[s]

\* A client that pushes has served the storages that are not left to do and did not refuse, and
\* has served all of these before it turns to the index.
PushInv(c) ==
  Pushes(c) =>
    /\ call[c].at = "storage" => PushedTo(c, call[c].rest \cup call[c].missed)
    /\ call[c].at = "index" => PushedTo(c, call[c].missed)

Domains == DOMAIN call = Clients /\ DOMAIN storage = Storage /\ DOMAIN index = Index

Inv == Domains /\ \A c \in Clients : PushInv(c)

\* What a client does if it does not push.
OtherSteps(c) == Pulling(c) \/ ArtifactPulled(c) \/ ArtifactAbsent(c)
                   \/ StagedPulled(c) \/ NextSource(c) \/ FetchSource(c) \/ FetchOriginal(c)
                   \/ StageAndCache(c)

-----------------------------------------------------------------------------
\* Goes() changes some of the fields of one call.
LEMMA GoesChanges ==
  ASSUME NEW c \in Clients, NEW changes, Domains, Goes(c, changes)
  PROVE  /\ DOMAIN call' = Clients
         /\ \A d \in Clients \ {c} : call'[d] = call[d]
         /\ call'[c].op = IF "op" \in DOMAIN changes THEN changes.op ELSE call[c].op
         /\ call'[c].at = IF "at" \in DOMAIN changes THEN changes.at ELSE call[c].at
         /\ call'[c].digest = IF "digest" \in DOMAIN changes THEN changes.digest ELSE call[c].digest
         /\ call'[c].rest = IF "rest" \in DOMAIN changes THEN changes.rest ELSE call[c].rest
         /\ call'[c].missed = IF "missed" \in DOMAIN changes THEN changes.missed ELSE call[c].missed
BY DEF Goes, Domains, Idle

\* Ends() leaves a call idle.
LEMMA EndsCall ==
  ASSUME NEW c \in Clients, NEW res, Domains, Ends(c, res)
  PROVE  /\ DOMAIN call' = Clients
         /\ \A d \in Clients \ {c} : call'[d] = call[d]
         /\ call'[c].op = "idle"
BY DEF Ends, Domains, Idle

\* A client that is not concerned keeps its invariant while storages grow.
LEMMA OthersKeepInv ==
  ASSUME NEW c \in Clients, PushInv(c), call'[c] = call[c], UNCHANGED connected,
         \A s \in Storage : storage[s] \subseteq storage'[s]
  PROVE  PushInv(c)'
BY DEF PushInv, Pushes, PushedTo, StorageRemotes

\* What is not a push does not become one.
LEMMA OtherStepsDoNotPush ==
  ASSUME NEW c \in Clients, Domains, OtherSteps(c)
  PROVE  /\ UNCHANGED <<storage, index, connected>>
         /\ DOMAIN call' = Clients
         /\ \A d \in Clients \ {c} : call'[d] = call[d]
         /\ ~Pushes(c)'
<1> USE DEF remoteVars, At, Pushes
<1>1. CASE AskIndex(c)
  BY <1>1, GoesChanges, EndsCall DEF AskIndex
<1>2. CASE IndexAsked(c)
  BY <1>2, GoesChanges, EndsCall DEF IndexAsked
<1>3. CASE FetchPart(c)
  BY <1>3, GoesChanges, EndsCall DEF FetchPart, FetchingPart
<1>4. CASE BlobNotFound(c)
  BY <1>4, GoesChanges, EndsCall DEF BlobNotFound, FetchingPart, TryNext
<1>5. CASE FetchFails(c)
  BY <1>5, GoesChanges, EndsCall DEF FetchFails, FetchingPart, TryNext
<1>6. CASE StorageAsked(c)
  BY <1>6, GoesChanges, EndsCall DEF StorageAsked
<1>7. CASE ArtifactPulled(c) \/ StagedPulled(c) \/ StageAndCache(c)
  BY <1>7, EndsCall DEF ArtifactPulled, StagedPulled, StageAndCache
<1>8. CASE ArtifactAbsent(c)
  BY <1>8, GoesChanges, EndsCall DEF ArtifactAbsent, PullOf
<1>9. CASE NextSource(c)
  BY <1>9, GoesChanges DEF NextSource
<1>10. CASE FetchSource(c)
  <2>1. /\ call[c].op \in {"pull", "fetch"} \/ call[c].op = "fetch"
        /\ UNCHANGED <<storage, index, connected>>
    BY <1>10 DEF FetchSource
  <2>2. \/ Goes(c, [source |-> call[c].source + 1])
        \/ Goes(c, IF HasRemotes(c, FALSE) THEN PullOf(c, "fetch", SourceAt(c), FALSE)
                   ELSE [at |-> "absent", key |-> SourceAt(c)])
        \/ Goes(c, [at |-> "absent", key |-> SourceAt(c)])
    BY <1>10 DEF FetchSource
  <2>3. CASE Goes(c, [source |-> call[c].source + 1])
    BY <2>1, <2>3, GoesChanges
  <2>4. CASE Goes(c, PullOf(c, "fetch", SourceAt(c), FALSE))
    BY <2>1, <2>4, GoesChanges DEF PullOf
  <2>5. CASE Goes(c, [at |-> "absent", key |-> SourceAt(c)])
    BY <2>1, <2>5, GoesChanges
  <2>6. QED
    BY <2>2, <2>3, <2>4, <2>5
<1>11. CASE FetchOriginal(c)
  BY <1>11, GoesChanges, EndsCall DEF FetchOriginal
<1>12. QED
  BY <1>1, <1>2, <1>3, <1>4, <1>5, <1>6, <1>7, <1>8, <1>9, <1>10, <1>11 DEF OtherSteps, Pulling

\* Beginning a command.
LEMMA StartKeepsInv ==
  ASSUME NEW c \in Clients, Inv, Start(c)
  PROVE  Inv' /\ UNCHANGED index
<1> USE DEF remoteVars, localVars, Starts
<1>1. UNCHANGED <<storage, index, connected>> /\ Domains
  BY DEF Start, BuildArtifact, StartPull, StartPush, StartFetch, StartSourcePush, Inv
<1>2. DOMAIN call' = Clients /\ (\A d \in Clients \ {c} : call'[d] = call[d]) /\ PushInv(c)'
  <2>1. CASE BuildArtifact(c)
    BY <1>1, <2>1, OthersKeepInv DEF BuildArtifact, Inv, Domains
  <2>2. CASE StartPull(c)
    BY <1>1, <2>2, GoesChanges DEF StartPull, PullOf, PushInv, Pushes
  <2>3. CASE StartFetch(c)
    <3>1. \/ Goes(c, PullOf(c, "fetch", Staged, FALSE))
          \/ Goes(c, [op |-> "fetch", at |-> "source", source |-> 1])
      BY <2>3 DEF StartFetch
    <3>2. QED
      BY <1>1, <3>1, GoesChanges DEF PullOf, PushInv, Pushes
  <2>4. CASE StartSourcePush(c)
    BY <1>1, <2>4, GoesChanges DEF StartSourcePush, PushInv, Pushes
  <2>5. CASE StartPush(c)
    <3>1. PICK changes :
            /\ Goes(c, changes)
            /\ changes = [op |-> "push", at |-> "storage", key |-> LoadedKey(c),
                           digest |-> refs[c][LoadedKey(c)], rest |-> StorageRemotes(c, TRUE)]
      BY <2>5 DEF StartPush
    <3>2. DOMAIN call' = Clients /\ (\A d \in Clients \ {c} : call'[d] = call[d])
          /\ call'[c].at = "storage" /\ call'[c].rest = StorageRemotes(c, TRUE)
      <4>1. /\ "at" \in DOMAIN changes /\ changes.at = "storage"
            /\ "rest" \in DOMAIN changes /\ changes.rest = StorageRemotes(c, TRUE)
        BY <3>1
      <4>2. QED
        BY <1>1, <3>1, <4>1, GoesChanges
    <3>3. StorageRemotes(c, TRUE)' = StorageRemotes(c, TRUE)
      BY <1>1 DEF StorageRemotes
    <3>4. PushInv(c)'
      BY <3>2, <3>3 DEF PushInv, PushedTo
    <3>5. QED
      BY <3>2, <3>4
  <2>6. QED
    BY <2>1, <2>2, <2>3, <2>4, <2>5 DEF Start
<1>3. \A d \in Clients \ {c} : PushInv(d)'
  BY <1>1, <1>2, OthersKeepInv DEF Inv
<1>4. QED
  BY <1>1, <1>2, <1>3 DEF Inv, Domains

\* One storage is served, or refuses.
LEMMA PushBlobsKeepsInv ==
  ASSUME NEW c \in Clients, Inv, PushBlobs(c)
  PROVE  Inv' /\ UNCHANGED index
<1> DEFINE r == First(call[c].rest)
           later == call[c].rest \ {r}
<1> USE DEF At
<1>1. /\ UNCHANGED <<index, connected>> /\ Domains /\ Pushes(c) /\ call[c].at = "storage"
      /\ PushedTo(c, call[c].rest \cup call[c].missed)
  BY DEF PushBlobs, Inv, PushInv, Pushes
<1>2. \E new : storage' = [storage EXCEPT ![r] = @ \cup new]
  BY DEF PushBlobs
<1>3. DOMAIN storage' = Storage /\ \A s \in Storage : storage[s] \subseteq storage'[s]
  BY <1>1, <1>2 DEF Domains
<1>4. StorageRemotes(c, TRUE)' = StorageRemotes(c, TRUE) /\ StorageRemotes(c, TRUE) \subseteq Storage
  BY <1>1 DEF StorageRemotes
<1>5. DOMAIN call' = Clients /\ (\A d \in Clients \ {c} : call'[d] = call[d]) /\ PushInv(c)'
  <2>1. CASE /\ storage' = [storage EXCEPT ![r] = @ \cup Blobs(call[c].digest)]
             /\ Goes(c, [rest |-> later])
    <3>1. /\ DOMAIN call' = Clients /\ \A d \in Clients \ {c} : call'[d] = call[d]
          /\ call'[c].at = "storage" /\ call'[c].digest = call[c].digest
          /\ call'[c].rest = later /\ call'[c].missed = call[c].missed
      BY <1>1, <2>1, GoesChanges
    <3>2. ASSUME NEW s \in StorageRemotes(c, TRUE)' \ (call'[c].rest \cup call'[c].missed)
          PROVE  Blobs(call'[c].digest) \subseteq storage'[s]
      <4>1. CASE s = r
        BY <1>4, <2>1, <3>1, <4>1 DEF Inv, Domains
      <4>2. CASE s # r
        <5>1. Blobs(call[c].digest) \subseteq storage[s]
          BY <1>1, <1>4, <3>1, <3>2, <4>2 DEF PushedTo
        <5>2. QED
          BY <1>3, <1>4, <3>1, <3>2, <5>1
      <4>3. QED
        BY <4>1, <4>2
    <3>3. QED
      BY <3>1, <3>2 DEF PushInv, PushedTo
  <2>2. CASE Goes(c, [rest |-> later, missed |-> call[c].missed \cup {r}])
    <3>1. /\ DOMAIN call' = Clients /\ \A d \in Clients \ {c} : call'[d] = call[d]
          /\ call'[c].at = "storage" /\ call'[c].digest = call[c].digest
          /\ call'[c].rest = later /\ call'[c].missed = call[c].missed \cup {r}
      BY <1>1, <2>2, GoesChanges
    <3>2. ASSUME NEW s \in StorageRemotes(c, TRUE)' \ (call'[c].rest \cup call'[c].missed)
          PROVE  Blobs(call'[c].digest) \subseteq storage'[s]
      <4>1. Blobs(call[c].digest) \subseteq storage[s]
        BY <1>1, <1>4, <3>1, <3>2 DEF PushedTo
      <4>2. QED
        BY <1>3, <1>4, <3>1, <3>2, <4>1
    <3>3. QED
      BY <3>1, <3>2 DEF PushInv, PushedTo
  <2>3. CASE Ends(c, "error")
    BY <1>1, <2>3, EndsCall DEF PushInv, Pushes
  <2>4. QED
    BY <2>1, <2>2, <2>3 DEF PushBlobs
<1>6. \A d \in Clients \ {c} : PushInv(d)'
  BY <1>1, <1>3, <1>5, OthersKeepInv DEF Inv
<1>7. QED
  BY <1>1, <1>3, <1>5, <1>6 DEF Inv, Domains

\* Turning to the index.
LEMMA BlobsPushedKeepsInv ==
  ASSUME NEW c \in Clients, Inv, BlobsPushed(c)
  PROVE  Inv' /\ UNCHANGED index
<1> USE DEF At, remoteVars
<1>1. /\ UNCHANGED <<storage, index, connected>> /\ Domains /\ Pushes(c) /\ call[c].rest = {}
      /\ PushedTo(c, call[c].missed)
  BY DEF BlobsPushed, Inv, PushInv, Pushes, PushedTo
<1>2. /\ DOMAIN call' = Clients /\ \A d \in Clients \ {c} : call'[d] = call[d]
      /\ call'[c].at = "index" /\ call'[c].digest = call[c].digest
      /\ call'[c].missed = call[c].missed
  BY <1>1, GoesChanges DEF BlobsPushed
<1>3. PushInv(c)'
  BY <1>1, <1>2 DEF PushInv, PushedTo, StorageRemotes
<1>4. \A d \in Clients \ {c} : PushInv(d)'
  BY <1>1, <1>2, OthersKeepInv DEF Inv
<1>5. QED
  BY <1>1, <1>2, <1>3, <1>4 DEF Inv, Domains

\* What a step may do to an index.
IndexStep ==
  \A r \in Index, k \in Keys : index'[r][k] # index[r][k] =>
    \E c \in Clients : \A s \in StorageRemotes(c, TRUE) \ call[c].missed :
      call[c].op \in {"push", "pushsources"} /\ Blobs(index'[r][k]) \subseteq storage[s]

\* Telling an index, or finding that it knows.
LEMMA PushProtoKeepsInv ==
  ASSUME NEW c \in Clients, Inv, PushProto(c)
  PROVE  Inv' /\ IndexStep
<1> DEFINE r == First(call[c].rest)
           entries == [k \in Keys |-> IF k \in PushKeys(c) THEN call[c].digest ELSE index[r][k]]
<1> USE DEF At
<1>1. /\ UNCHANGED <<storage, connected>> /\ Domains /\ Pushes(c)
      /\ PushedTo(c, call[c].missed)
  BY DEF PushProto, Inv, PushInv, Pushes
<1>2. index' = index \/ index' = [index EXCEPT ![r] = entries]
  BY DEF PushProto
<1>3. DOMAIN index' = Index
  BY <1>1, <1>2 DEF Domains
<1>4. Goes(c, [rest |-> call[c].rest \ {r}]) \/ Ends(c, "error")
  BY DEF PushProto
<1>5. DOMAIN call' = Clients /\ (\A d \in Clients \ {c} : call'[d] = call[d]) /\ PushInv(c)'
  <2>1. CASE Goes(c, [rest |-> call[c].rest \ {r}])
    <3>1. call[c].at = "index"
      BY DEF PushProto
    <3>2. /\ DOMAIN call' = Clients /\ \A d \in Clients \ {c} : call'[d] = call[d]
          /\ call'[c].at = "index" /\ call'[c].digest = call[c].digest
          /\ call'[c].missed = call[c].missed
      BY <1>1, <2>1, <3>1, GoesChanges
    <3>3. QED
      BY <1>1, <3>2 DEF PushInv, PushedTo, StorageRemotes
  <2>2. CASE Ends(c, "error")
    BY <1>1, <2>2, EndsCall DEF PushInv, Pushes
  <2>3. QED
    BY <1>4, <2>1, <2>2
<1>6. IndexStep
  <2>1. SUFFICES ASSUME NEW i \in Index, NEW k \in Keys, index'[i][k] # index[i][k]
                 PROVE  index'[i][k] = call[c].digest
    BY <1>1 DEF IndexStep, PushedTo, Pushes
  <2>2. index' = [index EXCEPT ![r] = entries] /\ i = r
    BY <1>1, <1>2, <2>1 DEF Domains
  <2>3. index'[i][k] = entries[k]
    BY <1>1, <2>2 DEF Domains
  <2>4. QED
    BY <2>1, <2>2, <2>3
<1>7. \A d \in Clients \ {c} : PushInv(d)'
  BY <1>1, <1>5, OthersKeepInv DEF Inv
<1>8. QED
  BY <1>1, <1>3, <1>5, <1>6, <1>7 DEF Inv, Domains

\* The next source to push is taken up, or skipped.
LEMMA PushNextSourceKeepsInv ==
  ASSUME NEW c \in Clients, Inv, PushNextSource(c)
  PROVE  Inv' /\ UNCHANGED index
<1> DEFINE item == IF call[c].source = Len(Sources) + 1 THEN Staged ELSE SourceAt(c)
<1> USE DEF At, remoteVars
<1>1. /\ UNCHANGED <<storage, index, connected>> /\ Domains /\ call[c].at = "source"
  BY DEF PushNextSource, Inv
<1>2. StorageRemotes(c, TRUE)' = StorageRemotes(c, TRUE)
  BY <1>1 DEF StorageRemotes
<1>3. DOMAIN call' = Clients /\ (\A d \in Clients \ {c} : call'[d] = call[d]) /\ PushInv(c)'
  <2>1. CASE Goes(c, [source |-> call[c].source + 1])
    <3>1. /\ DOMAIN call' = Clients /\ \A d \in Clients \ {c} : call'[d] = call[d]
          /\ call'[c].at = "source"
      BY <1>1, <2>1, GoesChanges
    <3>2. QED
      BY <3>1 DEF PushInv
  <2>2. CASE Goes(c, [at |-> "storage", key |-> item, digest |-> refs[c][item],
                      rest |-> StorageRemotes(c, TRUE), missed |-> {}])
    <3>1. PICK changes :
            /\ Goes(c, changes)
            /\ changes = [at |-> "storage", key |-> item, digest |-> refs[c][item],
                           rest |-> StorageRemotes(c, TRUE), missed |-> {}]
      BY <2>2
    <3>2. /\ "at" \in DOMAIN changes /\ changes.at = "storage"
          /\ "rest" \in DOMAIN changes /\ changes.rest = StorageRemotes(c, TRUE)
      BY <3>1
    <3>3. /\ DOMAIN call' = Clients /\ \A d \in Clients \ {c} : call'[d] = call[d]
          /\ call'[c].at = "storage" /\ call'[c].rest = StorageRemotes(c, TRUE)
      BY <1>1, <3>1, <3>2, GoesChanges
    <3>4. QED
      BY <1>2, <3>3 DEF PushInv, PushedTo
  <2>3. QED
    BY <2>1, <2>2 DEF PushNextSource
<1>4. \A d \in Clients \ {c} : PushInv(d)'
  BY <1>1, <1>3, OthersKeepInv DEF Inv
<1>5. QED
  BY <1>1, <1>3, <1>4 DEF Inv, Domains

\* The end of a push of an artifact or of one source.
LEMMA PushEndsKeepsInv ==
  ASSUME NEW c \in Clients, Inv, ArtifactPushed(c) \/ SourcePushed(c)
  PROVE  Inv' /\ UNCHANGED index
<1> USE DEF At, remoteVars
<1>1. UNCHANGED <<storage, index, connected>> /\ Domains
  BY DEF ArtifactPushed, SourcePushed, Inv
<1>2. Ends(c, "pushed") \/ Goes(c, [at |-> "source", source |-> call[c].source + 1])
  BY DEF ArtifactPushed, SourcePushed
<1>3. DOMAIN call' = Clients /\ (\A d \in Clients \ {c} : call'[d] = call[d]) /\ PushInv(c)'
  <2>1. CASE Ends(c, "pushed")
    BY <1>1, <2>1, EndsCall DEF PushInv, Pushes
  <2>2. CASE Goes(c, [at |-> "source", source |-> call[c].source + 1])
    <3>1. /\ DOMAIN call' = Clients /\ \A d \in Clients \ {c} : call'[d] = call[d]
          /\ call'[c].at = "source"
      BY <1>1, <2>2, GoesChanges
    <3>2. QED
      BY <3>1 DEF PushInv
  <2>3. QED
    BY <1>2, <2>1, <2>2
<1>4. \A d \in Clients \ {c} : PushInv(d)'
  BY <1>1, <1>3, OthersKeepInv DEF Inv
<1>5. QED
  BY <1>1, <1>3, <1>4 DEF Inv, Domains

-----------------------------------------------------------------------------
LEMMA InvInit == Init => Inv
BY DEF Init, Inv, Domains, PushInv, Pushes, Idle

LEMMA InvStep ==
  ASSUME Inv, [Next]_vars
  PROVE  Inv' /\ (IndexStep \/ UNCHANGED index)
<1>1. CASE UNCHANGED vars
  BY <1>1 DEF vars, remoteVars, Inv, Domains, PushInv, Pushes, PushedTo, StorageRemotes
<1>2. ASSUME NEW c \in Clients, Start(c)
      PROVE  Inv' /\ UNCHANGED index
  BY <1>2, StartKeepsInv
<1>3. ASSUME NEW c \in Clients, OtherSteps(c)
      PROVE  Inv' /\ UNCHANGED index
  <2>1. Domains
    BY DEF Inv
  <2>2. /\ UNCHANGED <<storage, index, connected>> /\ DOMAIN call' = Clients
        /\ \A d \in Clients \ {c} : call'[d] = call[d]
        /\ PushInv(c)'
    BY <1>3, <2>1, OtherStepsDoNotPush DEF PushInv
  <2>3. \A d \in Clients \ {c} : PushInv(d)'
    BY <2>2, OthersKeepInv DEF Inv
  <2>4. QED
    BY <2>1, <2>2, <2>3 DEF Inv, Domains
<1>4. ASSUME NEW c \in Clients, Pushing(c)
      PROVE  Inv' /\ (IndexStep \/ UNCHANGED index)
  BY <1>4, PushBlobsKeepsInv, BlobsPushedKeepsInv, PushProtoKeepsInv DEF Pushing
<1>5. ASSUME NEW c \in Clients, PushNextSource(c) \/ ArtifactPushed(c) \/ SourcePushed(c)
      PROVE  Inv' /\ UNCHANGED index
  BY <1>5, PushNextSourceKeepsInv, PushEndsKeepsInv
<1>6. ASSUME NEW c \in Clients, Expire(c)
      PROVE  Inv' /\ UNCHANGED index
  BY <1>6 DEF Expire, remoteVars, Inv, Domains, PushInv, Pushes, PushedTo, StorageRemotes
<1>7. ASSUME NEW c \in Clients,
             \/ Start(c) \/ Pulling(c) \/ Pushing(c)
             \/ ArtifactStep(c) \/ SourceStep(c) \/ Expire(c)
      PROVE  \/ Start(c) \/ OtherSteps(c) \/ Pushing(c) \/ Expire(c)
             \/ PushNextSource(c) \/ ArtifactPushed(c) \/ SourcePushed(c)
  BY <1>7 DEF OtherSteps, ArtifactStep, SourceStep
<1>8. QED
  BY <1>1, <1>2, <1>3, <1>4, <1>5, <1>6, <1>7 DEF Next

\* An index is only told of a digest when everything that it stands for is in every storage the
\* client pushes to and that did not refuse: for any number of clients that push at the same
\* time, any remotes, and any failures (BaseCache._push: blobs, then protos).
THEOREM IndexTellsTheTruth == Spec => IndexAfterBlobs
<1>1. ASSUME Inv, [Next]_vars
      PROVE  [IndexStep]_vars
  BY <1>1, InvStep DEF IndexStep
<1>2. Inv /\ [Next]_vars => Inv'
  BY InvStep
<1>3. Spec => [][IndexStep]_vars
  BY InvInit, <1>1, <1>2, PTL DEF Spec
<1>4. [][IndexStep]_vars => IndexAfterBlobs
  BY PTL DEF IndexAfterBlobs, IndexStep
<1>5. QED
  BY <1>3, <1>4

-----------------------------------------------------------------------------
(* What a machine in the middle of a pull has, and what it loses. *)

LocalDomains ==
  /\ DOMAIN refs = Clients /\ DOMAIN cas = Clients /\ DOMAIN result = Clients
  /\ \A c \in Clients : DOMAIN refs[c] = Keys

Pulls(c) == call[c].op \in {"pull", "fetch"}

\* Artifacts are pulled under the strict key, in non-strict mode also under the weak one, sources
\* under theirs.
KeyInv(c) ==
  /\ call[c].op = "pull" =>
       /\ call[c].at # "source"
       /\ call[c].key = StrictKey \/ (~StrictMode /\ call[c].key = WeakKey)
  /\ call[c].op = "fetch" /\ call[c].at # "source" => call[c].key \in SourceKeys \cup {Staged}

PartNames == {"proto", "files", "buildtree", "meta"}

\* The parts to be fetched, and that the first n of them were.
Order(c) == PartsToPull(call[c].key, call[c].digest)
Got(c, n) == \A i \in 1..n :
  /\ Blob(call[c].digest, Order(c)[i]) \in cas[c]
  /\ Order(c)[i] = "proto" => refs[c][call[c].key] = call[c].digest

\* Some parts were fetched, those that are left to do follow them.
Left(c, n) ==
  /\ call[c].parts \in Seq(PartNames) /\ Len(call[c].parts) = Len(Order(c)) - n
  /\ \A i \in 1..Len(call[c].parts) : call[c].parts[i] = Order(c)[n + i]

PartsInv(c) ==
  Pulls(c) =>
    /\ call[c].at \in {"storage", "pulled"} => call[c].digest # NoDigest
    /\ call[c].at = "storage" => \E n \in 0..(Len(Order(c)) - 1) : Got(c, n) /\ Left(c, n)
    /\ call[c].at = "pulled" => Got(c, Len(Order(c)))

\* Without build trees and under the strict key, only what is not cached is pulled.
Replaces(k) == PullBuildtrees \/ (~StrictMode /\ k = WeakKey)
KeptInv(c) ==
  call[c].op = "pull" /\ call[c].key = StrictKey /\ ~Replaces(StrictKey) =>
    /\ call[c].at = "index" => ~Cached(c, StrictKey)
    /\ call[c].at = "storage" => ~Cached(c, StrictKey) \/ refs[c][StrictKey] = call[c].digest

LocalInv ==
  /\ Domains /\ LocalDomains
  /\ \A c \in Clients : KeyInv(c) /\ PartsInv(c) /\ KeptInv(c)

\* What is reported as pulled or fetched is complete, and a client loses no artifact, in one step.
Complete(c) ==
  /\ Ending(c, "pulled") => \E k \in Keys :
       /\ k = call[c].key /\ Cached(c, k)'
       /\ PullBuildtrees => BuildtreeThere(c, k)'
  /\ Ending(c, "fetched") => SourcesCached(c, Staged)'
Keeps(c) ==
  \A k \in {StrictKey, WeakKey} : Cached(c, k) /\ ~Cached(c, k)' =>
    \/ call[c].op = "idle"
    \/ Replaces(k) /\ call[c].op = "pull" /\ refs'[c][k] \notin {refs[c][k], NoDigest}

\* A step of one client: the others are left alone, and its invariant is kept.
Alone(c) ==
  /\ LocalDomains'
  /\ \A d \in Clients \ {c} : call'[d] = call[d] /\ refs'[d] = refs[d] /\ cas'[d] = cas[d]
Safe(c) == Alone(c) /\ KeyInv(c)' /\ PartsInv(c)' /\ KeptInv(c)' /\ Complete(c) /\ Keeps(c)

\* The other fields that Goes() may change.
LEMMA GoesSets ==
  ASSUME NEW c \in Clients, NEW changes, Domains, Goes(c, changes)
  PROVE  /\ call'[c].key = IF "key" \in DOMAIN changes THEN changes.key ELSE call[c].key
         /\ call'[c].parts = IF "parts" \in DOMAIN changes THEN changes.parts ELSE call[c].parts
         /\ call'[c].errors = IF "errors" \in DOMAIN changes THEN changes.errors ELSE call[c].errors
         /\ call'[c].there = IF "there" \in DOMAIN changes THEN changes.there ELSE call[c].there
         /\ call'[c].source = IF "source" \in DOMAIN changes THEN changes.source ELSE call[c].source
         /\ result' = result
BY DEF Goes, Domains, Idle

\* The keys of artifacts, of sources and of staged sources are told apart.
LEMMA Kinds ==
  /\ \A k \in {StrictKey, WeakKey} : k \in Keys /\ Asset(k) = "artifact" /\ k # Staged
  /\ \A k \in {StrictKey, WeakKey} : k \notin SourceKeys
  /\ \A k \in SourceKeys : k \in Keys /\ Asset(k) = "source" /\ k # Staged /\ k # NoDigest
  /\ Staged \in Keys /\ Asset(Staged) = "elementsources" /\ Staged # NoDigest
BY CachesAssumption DEF Keys, Asset, Digests

\* The order of the parts: first the proto, then the files, then what a pull is to bring.
LEMMA OrderOfParts ==
  ASSUME NEW k, NEW d
  PROVE  /\ PartsToPull(k, d) \in Seq(PartNames)
         /\ Len(PartsToPull(k, d)) \in Nat \ {0}
         /\ \A i \in 2..Len(PartsToPull(k, d)) : PartsToPull(k, d)[i] # "proto"
         /\ Asset(k) # "source" =>
              /\ PartsToPull(k, d)[1] = "proto"
              /\ 2 \in 1..Len(PartsToPull(k, d)) /\ PartsToPull(k, d)[2] = "files"
         /\ Asset(k) = "artifact" => \E i \in 1..Len(PartsToPull(k, d)) : PartsToPull(k, d)[i] = "meta"
         /\ Asset(k) = "artifact" /\ PullBuildtrees /\ d \in HasBuildtree =>
              \E i \in 1..Len(PartsToPull(k, d)) : PartsToPull(k, d)[i] = "buildtree"
<1> DEFINE order == PartsToPull(k, d)
<1> USE DEF PartNames
<1>1. CASE Asset(k) = "source"
  <2>1. order = <<"files">>
    BY <1>1 DEF PartsToPull
  <2>2. order \in Seq(PartNames) /\ Len(order) = 1
    BY <2>1
  <2>3. Len(order) \in Nat \ {0} /\ \A i \in 2..Len(order) : FALSE
    BY <2>2
  <2>4. QED
    BY <1>1, <2>2, <2>3
<1>2. CASE Asset(k) = "elementsources"
  <2>1. order = <<"proto", "files">>
    BY <1>2 DEF PartsToPull
  <2>2. order \in Seq(PartNames) /\ Len(order) = 2 /\ order[1] = "proto" /\ order[2] = "files"
    BY <2>1
  <2>3. Len(order) \in Nat \ {0} /\ 2 \in 1..Len(order) /\ \A i \in 2..Len(order) : i = 2
    BY <2>2
  <2>4. QED
    BY <1>2, <2>2, <2>3
<1>3. CASE /\ Asset(k) # "source" /\ Asset(k) # "elementsources"
           /\ PullBuildtrees /\ d \in HasBuildtree
  <2>1. order = <<"proto", "files", "buildtree", "meta">>
    BY <1>3 DEF PartsToPull
  <2>2. /\ order \in Seq(PartNames) /\ Len(order) = 4
        /\ order[1] = "proto" /\ order[2] = "files" /\ order[3] = "buildtree" /\ order[4] = "meta"
    BY <2>1
  <2>3. /\ Len(order) \in Nat \ {0} /\ {2, 3, 4} \subseteq 1..Len(order)
        /\ \A i \in 2..Len(order) : i \in {2, 3, 4}
    BY <2>2
  <2>4. QED
    BY <1>3, <2>2, <2>3
<1>4. CASE /\ Asset(k) # "source" /\ Asset(k) # "elementsources"
           /\ ~(PullBuildtrees /\ d \in HasBuildtree)
  <2>1. order = <<"proto", "files", "meta">>
    BY <1>4 DEF PartsToPull
  <2>2. /\ order \in Seq(PartNames) /\ Len(order) = 3
        /\ order[1] = "proto" /\ order[2] = "files" /\ order[3] = "meta"
    BY <2>1
  <2>3. /\ Len(order) \in Nat \ {0} /\ {2, 3} \subseteq 1..Len(order)
        /\ \A i \in 2..Len(order) : i \in {2, 3}
    BY <2>2
  <2>4. QED
    BY <1>4, <2>2, <2>3
<1>5. QED
  BY <1>1, <1>2, <1>3, <1>4

\* A step that leaves the protos alone and only adds blobs.
LEMMA AddsBlobs ==
  ASSUME NEW c \in Clients, LocalDomains, refs' = refs,
         cas' = cas \/ \E new : cas' = [cas EXCEPT ![c] = @ \cup new],
         result' = result \/ \E res : result' = [result EXCEPT ![c] = res],
         \A d \in Clients \ {c} : call'[d] = call[d]
  PROVE  /\ Alone(c) /\ Keeps(c)
         /\ \A k : Cached(c, k) => Cached(c, k)'
         /\ cas' = cas => \A k : Cached(c, k)' => Cached(c, k)
BY DEF LocalDomains, Alone, Keeps, Cached

\* Beginning to fetch the parts of a digest.
LEMMA NothingGotYet ==
  ASSUME NEW c \in Clients, call'[c].at = "storage", call'[c].digest # NoDigest,
         call'[c].parts = PartsToPull(call'[c].key, call'[c].digest)
  PROVE  PartsInv(c)'
<1>1. Order(c)' \in Seq(PartNames) /\ Len(Order(c)') \in Nat \ {0} /\ call'[c].parts = Order(c)'
  BY OrderOfParts DEF Order
<1>2. Got(c, 0)' /\ Left(c, 0)' /\ 0 \in 0..(Len(Order(c)') - 1)
  BY <1>1 DEF Got, Left
<1>3. QED
  BY <1>2 DEF PartsInv

\* A call that is over, and not reported as a success, or that is no pull, has nothing to keep.
LEMMA NoPull ==
  ASSUME NEW c \in Clients, Domains, Alone(c), Keeps(c), ~Pulls(c)',
         result'[c] \notin {"pulled", "fetched"} \/ call'[c].op # "idle" \/ call[c].op = "idle"
  PROVE  Safe(c)
BY DEF Pulls, Safe, KeyInv, PartsInv, KeptInv, Complete, Ending

\* A call that goes on is not over.
LEMMA GoingOn ==
  ASSUME NEW c \in Clients, call'[c].op # "idle"
  PROVE  Complete(c)
BY DEF Complete, Ending

\* How a command ends.
LEMMA EndsResult ==
  ASSUME NEW c \in Clients, NEW res, DOMAIN result = Clients, Ends(c, res)
  PROVE  result'[c] = res
BY DEF Ends

\* One index is asked.
LEMMA AskIndexSafe ==
  ASSUME NEW c \in Clients, LocalInv, AskIndex(c)
  PROVE  Safe(c)
<1> USE DEF At, remoteVars
<1>1. /\ Domains /\ LocalDomains /\ KeyInv(c) /\ KeptInv(c)
      /\ Pulls(c) /\ call[c].op # "idle" /\ call[c].at = "index" /\ cas' = cas
  BY DEF LocalInv, AskIndex, Pulls
<1>2. \/ refs' = refs
      \/ /\ Asset(call[c].key) = "source"
         /\ \E d : refs' = [refs EXCEPT ![c] = [@ EXCEPT ![call[c].key] = d]]
  BY DEF AskIndex
<1>3. \/ Ends(c, "error")
      \/ /\ \A d \in Clients \ {c} : call'[d] = call[d]
         /\ call'[c].op = call[c].op /\ call'[c].key = call[c].key /\ call'[c].at = "index"
         /\ result' = result
  <2>1. \/ Ends(c, "error")
        \/ \E d, rest : Goes(c, [digest |-> d, rest |-> rest])
        \/ \E e, rest : Goes(c, [errors |-> e, rest |-> rest])
    BY DEF AskIndex
  <2>2. ASSUME NEW d, NEW rest, Goes(c, [digest |-> d, rest |-> rest])
        PROVE  /\ \A e \in Clients \ {c} : call'[e] = call[e]
               /\ call'[c].op = call[c].op /\ call'[c].key = call[c].key /\ call'[c].at = "index"
               /\ result' = result
    BY <1>1, <2>2, GoesChanges, GoesSets
  <2>3. ASSUME NEW e, NEW rest, Goes(c, [errors |-> e, rest |-> rest])
        PROVE  /\ \A d \in Clients \ {c} : call'[d] = call[d]
               /\ call'[c].op = call[c].op /\ call'[c].key = call[c].key /\ call'[c].at = "index"
               /\ result' = result
    BY <1>1, <2>3, GoesChanges, GoesSets
  <2>4. QED
    BY <2>1, <2>2, <2>3
<1>4. Alone(c)
  <2>1. \A d \in Clients \ {c} : call'[d] = call[d]
    BY <1>1, <1>3, EndsCall
  <2>2. DOMAIN result' = Clients
    BY <1>1, <1>3 DEF LocalDomains, Ends
  <2>3. QED
    BY <1>1, <1>2, <2>1, <2>2 DEF Alone, LocalDomains
<1>5. \A k \in {StrictKey, WeakKey} : refs'[c][k] = refs[c][k]
  BY <1>1, <1>2, Kinds DEF LocalDomains
<1>6. Keeps(c)
  BY <1>1, <1>5 DEF Keeps, Cached
<1>7. CASE Ends(c, "error")
  BY <1>1, <1>4, <1>6, <1>7, EndsCall, EndsResult, NoPull DEF LocalDomains, Pulls
<1>8. CASE /\ call'[c].op = call[c].op /\ call'[c].key = call[c].key /\ call'[c].at = "index"
  <2>1. KeyInv(c)' /\ PartsInv(c)'
    BY <1>1, <1>8 DEF KeyInv, PartsInv
  <2>2. KeptInv(c)'
    BY <1>1, <1>5, <1>8 DEF KeptInv, Cached
  <2>3. QED
    BY <1>1, <1>4, <1>6, <1>8, <2>1, <2>2, GoingOn DEF Safe
<1>9. QED
  BY <1>3, <1>7, <1>8

\* A change of the call alone.
LEMMA CallOnly ==
  ASSUME NEW c \in Clients, LocalInv, UNCHANGED <<refs, cas>>,
         Ends(c, "error") \/ \E changes : Goes(c, changes)
  PROVE  Alone(c) /\ Keeps(c) /\ \A k : Cached(c, k)' <=> Cached(c, k)
<1>1. Domains /\ LocalDomains
  BY DEF LocalInv
<1>2. \A d \in Clients \ {c} : call'[d] = call[d]
  BY <1>1, GoesChanges, EndsCall
<1>3. result' = result \/ \E res : result' = [result EXCEPT ![c] = res]
  BY DEF Goes, Ends
<1>4. QED
  BY <1>1, <1>2, <1>3, AddsBlobs

\* A pull that fails.
LEMMA EndsInError ==
  ASSUME NEW c \in Clients, LocalInv, UNCHANGED <<refs, cas>>, Ends(c, "error")
  PROVE  Safe(c)
BY CallOnly, EndsCall, EndsResult, NoPull DEF LocalInv, LocalDomains, Pulls

\* A pull goes on, without parts to keep track of.
LEMMA GoesOn ==
  ASSUME NEW c \in Clients, LocalInv, UNCHANGED <<refs, cas>>, NEW changes, Goes(c, changes),
         call'[c].op = call[c].op, call[c].op # "idle",
         call'[c].at \in {"absent", "source"}, KeyInv(c)'
  PROVE  Safe(c)
<1>1. Alone(c) /\ Keeps(c)
  BY CallOnly
<1>2. PartsInv(c)' /\ KeptInv(c)' /\ Complete(c)
  BY GoingOn DEF PartsInv, KeptInv
<1>3. QED
  BY <1>1, <1>2 DEF Safe

\* The storages are turned to.
LEMMA IndexAskedSafe ==
  ASSUME NEW c \in Clients, LocalInv, IndexAsked(c)
  PROVE  Safe(c)
<1> DEFINE parts == PartsToPull(call[c].key, call[c].digest)
           storing == [at |-> "storage", rest |-> StorageRemotes(c, FALSE), errors |-> FALSE,
                       parts |-> parts]
<1> USE DEF At, localVars
<1>1. /\ Domains /\ KeyInv(c) /\ KeptInv(c) /\ UNCHANGED <<refs, cas>>
      /\ Pulls(c) /\ call[c].op # "idle" /\ call[c].at = "index"
  BY DEF LocalInv, IndexAsked, Pulls
<1>2. \/ Ends(c, "error") \/ Goes(c, [at |-> "absent"])
      \/ call[c].digest # NoDigest /\ Goes(c, storing)
  BY DEF IndexAsked
<1>3. CASE Ends(c, "error")
  BY <1>1, <1>3, EndsInError
<1>4. CASE Goes(c, [at |-> "absent"])
  <2>1. call'[c].at = "absent" /\ call'[c].op = call[c].op /\ call'[c].key = call[c].key
    BY <1>1, <1>4, GoesChanges, GoesSets
  <2>2. KeyInv(c)'
    BY <1>1, <2>1 DEF KeyInv
  <2>3. QED
    BY <1>1, <1>4, <2>1, <2>2, GoesOn
<1>5. CASE call[c].digest # NoDigest /\ Goes(c, storing)
  <2>1. /\ call'[c].at = "storage" /\ call'[c].op = call[c].op /\ call'[c].key = call[c].key
        /\ call'[c].digest = call[c].digest /\ call'[c].parts = parts
    BY <1>1, <1>5, GoesChanges, GoesSets
  <2>2. Alone(c) /\ Keeps(c) /\ (\A k : Cached(c, k)' <=> Cached(c, k))
    BY <1>1, <1>5, CallOnly
  <2>3. KeyInv(c)' /\ KeptInv(c)'
    BY <1>1, <2>1, <2>2 DEF KeyInv, KeptInv
  <2>4. PartsInv(c)'
    BY <1>5, <2>1, NothingGotYet
  <2>5. QED
    BY <1>1, <2>1, <2>2, <2>3, <2>4, GoingOn DEF Safe
<1>6. QED
  BY <1>2, <1>3, <1>4, <1>5

\* Turning to the next storage starts over.
LEMMA TriesNext ==
  ASSUME NEW c \in Clients, LocalInv, UNCHANGED <<refs, cas>>, NEW errors,
         Pulls(c), call[c].at = "storage", Goes(c, TryNext(c, errors))
  PROVE  Safe(c)
<1>1. Domains /\ KeyInv(c) /\ PartsInv(c) /\ KeptInv(c) /\ call[c].op # "idle"
  BY DEF LocalInv, Pulls
<1>2. /\ call'[c].at = "storage" /\ call'[c].op = call[c].op /\ call'[c].key = call[c].key
      /\ call'[c].digest = call[c].digest
      /\ call'[c].parts = PartsToPull(call[c].key, call[c].digest)
  BY <1>1, GoesChanges, GoesSets DEF TryNext
<1>3. Alone(c) /\ Keeps(c) /\ \A k : Cached(c, k)' <=> Cached(c, k)
  BY CallOnly
<1>4. KeyInv(c)' /\ KeptInv(c)'
  BY <1>1, <1>2, <1>3 DEF KeyInv, KeptInv, Alone
<1>5. PartsInv(c)'
  BY <1>1, <1>2, NothingGotYet DEF PartsInv
<1>6. QED
  BY <1>1, <1>2, <1>3, <1>4, <1>5, GoingOn DEF Safe

\* A storage that does not have a part, or that fails.
LEMMA NotFetchedSafe ==
  ASSUME NEW c \in Clients, LocalInv, BlobNotFound(c) \/ FetchFails(c) \/ StorageAsked(c)
  PROVE  Safe(c)
<1> USE DEF At, localVars
<1>1. /\ Domains /\ KeyInv(c) /\ UNCHANGED <<refs, cas>>
      /\ Pulls(c) /\ call[c].op # "idle" /\ call[c].at = "storage"
  BY DEF LocalInv, BlobNotFound, FetchFails, FetchingPart, StorageAsked, Pulls
<1>2. \/ Ends(c, "error") \/ Goes(c, [at |-> "absent"])
      \/ \E errors : Goes(c, TryNext(c, errors))
  BY DEF BlobNotFound, FetchFails, StorageAsked
<1>3. CASE Goes(c, [at |-> "absent"])
  <2>1. call'[c].at = "absent" /\ call'[c].op = call[c].op /\ call'[c].key = call[c].key
    BY <1>1, <1>3, GoesChanges, GoesSets
  <2>2. KeyInv(c)'
    BY <1>1, <2>1 DEF KeyInv
  <2>3. QED
    BY <1>1, <1>3, <2>1, <2>2, GoesOn
<1>4. QED
  BY <1>1, <1>2, <1>3, EndsInError, TriesNext

\* One part is fetched.  The proto comes first, and with it the key refers to the digest.
LEMMA FetchPartSafe ==
  ASSUME NEW c \in Clients, LocalInv, FetchPart(c)
  PROVE  Safe(c)
<1> DEFINE d == call[c].digest
           k == call[c].key
           p == Head(call[c].parts)
<1> USE DEF At, FetchingPart
<1>1. /\ Domains /\ LocalDomains /\ KeyInv(c) /\ PartsInv(c) /\ KeptInv(c)
      /\ Pulls(c) /\ call[c].op # "idle" /\ call[c].at = "storage" /\ d # NoDigest
  BY DEF LocalInv, FetchPart, Pulls, PartsInv
<1>2. PICK n \in 0..(Len(Order(c)) - 1) : Got(c, n) /\ Left(c, n)
  BY <1>1 DEF PartsInv
<1>3. /\ Order(c) \in Seq(PartNames) /\ Len(Order(c)) \in Nat \ {0}
      /\ \A i \in 2..Len(Order(c)) : Order(c)[i] # "proto"
      /\ Asset(k) # "source" => Order(c)[1] = "proto"
  BY OrderOfParts DEF Order
<1>4. p = Order(c)[n + 1] /\ n + 1 \in 1..Len(Order(c))
  BY <1>2, <1>3 DEF Left
<1>5. k \in Keys /\ (call[c].op = "fetch" => k \notin {StrictKey, WeakKey})
  BY <1>1, Kinds DEF KeyInv, Pulls
<1>6. /\ cas'[c] = cas[c] \cup {Blob(d, p)}
      /\ \A e \in Clients \ {c} : cas'[e] = cas[e]
      /\ DOMAIN cas' = Clients
  BY <1>1 DEF FetchPart, LocalDomains
<1>7. /\ refs'[c][k] = IF p = "proto" THEN d ELSE refs[c][k]
      /\ \A l \in Keys \ {k} : refs'[c][l] = refs[c][l]
      /\ \A e \in Clients \ {c} : refs'[e] = refs[e]
      /\ DOMAIN refs' = Clients /\ \A e \in Clients : DOMAIN refs'[e] = Keys
  BY <1>1, <1>5 DEF FetchPart, LocalDomains
<1>8. \/ Len(call[c].parts) = 1 /\ Goes(c, [at |-> "pulled"])
      \/ Len(call[c].parts) # 1 /\ Goes(c, [parts |-> Tail(call[c].parts)])
  BY DEF FetchPart
<1>9. /\ call'[c].op = call[c].op /\ call'[c].key = k /\ call'[c].digest = d
      /\ \/ Len(call[c].parts) = 1 /\ call'[c].at = "pulled"
         \/ /\ Len(call[c].parts) # 1 /\ call'[c].at = "storage"
            /\ call'[c].parts = Tail(call[c].parts)
      /\ \A e \in Clients \ {c} : call'[e] = call[e]
      /\ result' = result
  <2>1. CASE Len(call[c].parts) = 1 /\ Goes(c, [at |-> "pulled"])
    BY <1>1, <2>1, GoesChanges, GoesSets
  <2>2. CASE Len(call[c].parts) # 1 /\ Goes(c, [parts |-> Tail(call[c].parts)])
    <3>1. ASSUME NEW rest, Goes(c, [parts |-> rest])
          PROVE  /\ call'[c].op = call[c].op /\ call'[c].key = k /\ call'[c].digest = d
                 /\ call'[c].at = call[c].at /\ call'[c].parts = rest
                 /\ \A e \in Clients \ {c} : call'[e] = call[e]
                 /\ result' = result
      BY <1>1, <3>1, GoesChanges, GoesSets
    <3>2. QED
      BY <1>1, <2>2, <3>1
  <2>3. QED
    BY <1>8, <2>1, <2>2
<1>10. Alone(c)
  <2>1. LocalDomains'
    BY <1>1, <1>6, <1>7, <1>9 DEF LocalDomains
  <2>2. QED
    BY <1>6, <1>7, <1>9, <2>1 DEF Alone
<1>11. Order(c)' = Order(c)
  BY <1>9 DEF Order
<1>12. Got(c, n + 1)'
  <2>1. ASSUME NEW i \in 1..(n + 1)
        PROVE  Blob(d, Order(c)[i]) \in cas'[c] /\ (Order(c)[i] = "proto" => refs'[c][k] = d)
    <3>1. CASE i \in 1..n
      BY <1>2, <1>6, <1>7, <3>1 DEF Got
    <3>2. CASE i = n + 1
      BY <1>4, <1>6, <1>7, <3>2
    <3>3. QED
      BY <2>1, <3>1, <3>2
  <2>2. QED
    BY <1>9, <1>11, <2>1 DEF Got
<1>13. PartsInv(c)'
  <2>1. CASE Len(call[c].parts) = 1 /\ call'[c].at = "pulled"
    <3>1. n + 1 = Len(Order(c))
      <4>1. 1 = Len(Order(c)) - n
        BY <1>2, <2>1 DEF Left
      <4>2. n \in Nat /\ Len(Order(c)) \in Nat
        BY <1>2, <1>3
      <4>3. QED
        BY <4>1, <4>2
    <3>2. QED
      BY <1>1, <1>9, <1>11, <1>12, <2>1, <3>1 DEF PartsInv, Got
  <2>2. CASE /\ Len(call[c].parts) # 1 /\ call'[c].at = "storage"
             /\ call'[c].parts = Tail(call[c].parts)
    <3>1. n + 1 \in 0..(Len(Order(c)) - 1)
      BY <1>2, <1>3, <2>2 DEF Left
    <3>2. Left(c, n + 1)'
      BY <1>2, <1>3, <1>11, <2>2, <3>1 DEF Left
    <3>3. QED
      BY <1>1, <1>9, <1>11, <1>12, <2>2, <3>1, <3>2 DEF PartsInv
  <2>3. QED
    BY <1>9, <2>1, <2>2
\* Either the key refers to the digest already, or this is the proto.
<1>14. Asset(k) # "source" => p = "proto" \/ refs[c][k] = d
  <2>1. ASSUME Asset(k) # "source", p # "proto"
        PROVE  refs[c][k] = d
    <3>1. 1 \in 1..n
      BY <1>3, <1>4, <2>1
    <3>2. QED
      BY <1>2, <1>3, <2>1, <3>1 DEF Got
  <2>2. QED
    BY <2>1
<1>15. Keeps(c)
  <2>1. SUFFICES ASSUME NEW l \in {StrictKey, WeakKey}, Cached(c, l), ~Cached(c, l)'
                 PROVE  /\ Replaces(l) /\ call[c].op = "pull"
                        /\ refs'[c][l] \notin {refs[c][l], NoDigest}
    BY DEF Keeps
  <2>2. l \in Keys
    BY Kinds
  <2>3. refs'[c][l] # refs[c][l]
    BY <1>6, <2>1 DEF Cached
  <2>4. l = k /\ refs'[c][l] = d /\ refs[c][l] # d
    BY <1>7, <2>2, <2>3
  <2>5. call[c].op = "pull"
    BY <1>1, <1>5, <2>1, <2>4 DEF Pulls
  <2>6. Replaces(l)
    <3>1. CASE l = StrictKey
      BY <1>1, <2>1, <2>4, <2>5, <3>1 DEF KeptInv
    <3>2. CASE l # StrictKey
      BY <1>1, <2>4, <2>5, <3>2 DEF KeyInv, Replaces
    <3>3. QED
      BY <3>1, <3>2
  <2>7. QED
    BY <1>1, <2>3, <2>4, <2>5, <2>6
<1>16. KeyInv(c)'
  BY <1>1, <1>9 DEF KeyInv
<1>17. KeptInv(c)'
  <2>1. Asset(StrictKey) = "artifact"
    BY Kinds
  <2>2. k = StrictKey => refs'[c][StrictKey] = d
    BY <1>7, <1>14, <2>1
  <2>3. QED
    BY <1>9, <2>2 DEF KeptInv
<1>18. QED
  BY <1>1, <1>9, <1>10, <1>13, <1>15, <1>16, <1>17, GoingOn DEF Safe

\* All parts are there: an artifact is complete.
LEMMA AllGot ==
  ASSUME NEW c \in Clients, KeyInv(c), PartsInv(c), Pulls(c), call[c].at = "pulled"
  PROVE  /\ call[c].digest # NoDigest
         /\ Asset(call[c].key) # "source" =>
              /\ refs[c][call[c].key] = call[c].digest
              /\ Blob(call[c].digest, "files") \in cas[c]
         /\ Asset(call[c].key) = "artifact" =>
              /\ Blob(call[c].digest, "meta") \in cas[c]
              /\ PullBuildtrees /\ call[c].digest \in HasBuildtree =>
                   Blob(call[c].digest, "buildtree") \in cas[c]
<1> DEFINE d == call[c].digest
           n == Len(Order(c))
<1>1. d # NoDigest /\ \A i \in 1..n : Blob(d, Order(c)[i]) \in cas[c]
  BY DEF PartsInv, Got
<1>2. \A i \in 1..n : Order(c)[i] = "proto" => refs[c][call[c].key] = d
  BY DEF PartsInv, Got
<1>3. Asset(call[c].key) # "source" =>
        /\ 1 \in 1..n /\ Order(c)[1] = "proto"
        /\ 2 \in 1..n /\ Order(c)[2] = "files"
  BY OrderOfParts DEF Order
<1>4. Asset(call[c].key) = "artifact" =>
        /\ \E i \in 1..n : Order(c)[i] = "meta"
        /\ PullBuildtrees /\ d \in HasBuildtree => \E i \in 1..n : Order(c)[i] = "buildtree"
  BY OrderOfParts DEF Order
<1>5. QED
  BY <1>1, <1>2, <1>3, <1>4 DEF Asset

\* An artifact was pulled, and gets its other keys.
LEMMA ArtifactPulledSafe ==
  ASSUME NEW c \in Clients, LocalInv, ArtifactPulled(c)
  PROVE  Safe(c)
<1> DEFINE a == call[c].digest
           k == call[c].key
           linked == {Strong[a], Strict[a], Weak[a]}
<1> USE DEF At, remoteVars
<1>1. /\ Domains /\ LocalDomains /\ KeyInv(c) /\ PartsInv(c)
      /\ call[c].op = "pull" /\ call[c].at = "pulled" /\ cas' = cas /\ Ends(c, "pulled")
  BY DEF LocalInv, ArtifactPulled
<1>2. k \in Keys /\ Asset(k) = "artifact" /\ k \in {StrictKey, WeakKey}
  BY <1>1, Kinds DEF KeyInv
<1>3. /\ a # NoDigest /\ refs[c][k] = a
      /\ Blob(a, "files") \in cas[c] /\ Blob(a, "meta") \in cas[c]
      /\ PullBuildtrees /\ a \in HasBuildtree => Blob(a, "buildtree") \in cas[c]
  BY <1>1, <1>2, AllGot DEF Pulls
<1>4. /\ refs'[c] = [l \in Keys |-> IF l \in linked THEN a ELSE refs[c][l]]
      /\ \A d \in Clients \ {c} : refs'[d] = refs[d]
      /\ DOMAIN refs' = Clients
  BY <1>1 DEF ArtifactPulled, LocalDomains
<1>5. /\ \A d \in Clients \ {c} : call'[d] = call[d]
      /\ call'[c].op = "idle" /\ result'[c] = "pulled" /\ DOMAIN result' = Clients
  BY <1>1, EndsCall DEF LocalDomains, Ends
<1>6. Alone(c)
  BY <1>1, <1>4, <1>5 DEF Alone, LocalDomains
<1>7. Keeps(c)
  <2>1. \A l \in {StrictKey, WeakKey} : l \in Keys
    BY Kinds
  <2>2. \A l \in {StrictKey, WeakKey} : Cached(c, l) => Cached(c, l)'
    BY <1>1, <1>3, <1>4, <2>1 DEF Cached
  <2>3. QED
    BY <2>2 DEF Keeps
<1>8. Complete(c)
  <2>1. refs'[c][k] = a
    BY <1>2, <1>3, <1>4
  <2>2. ASSUME NEW l \in Keys, l = k
        PROVE  Cached(c, l)' /\ (PullBuildtrees => BuildtreeThere(c, l)')
    BY <1>1, <1>3, <2>1, <2>2 DEF Cached, BuildtreeThere
  <2>3. QED
    BY <1>2, <1>5, <2>2 DEF Complete, Ending
<1>9. KeyInv(c)' /\ PartsInv(c)' /\ KeptInv(c)'
  BY <1>5 DEF KeyInv, PartsInv, KeptInv, Pulls
<1>10. QED
  BY <1>6, <1>7, <1>8, <1>9 DEF Safe

\* A pull begins, or begins again under the weak key.
LEMMA BeginsPull ==
  ASSUME NEW c \in Clients, LocalInv, UNCHANGED <<refs, cas>>, NEW op, NEW key, NEW cached,
         Goes(c, PullOf(c, op, key, cached)),
         \/ /\ op = "pull"
            /\ key = StrictKey \/ (~StrictMode /\ key = WeakKey)
            /\ key = StrictKey /\ ~Replaces(StrictKey) => ~Cached(c, StrictKey)
         \/ op = "fetch" /\ key \in SourceKeys \cup {Staged}
  PROVE  Safe(c)
<1>1. /\ call'[c].op = op /\ call'[c].at = "index" /\ call'[c].key = key
  BY GoesChanges, GoesSets DEF PullOf, LocalInv
<1>2. Alone(c) /\ Keeps(c) /\ (\A k : Cached(c, k)' <=> Cached(c, k)) /\ Complete(c)
  BY <1>1, CallOnly, GoingOn
<1>3. KeyInv(c)' /\ PartsInv(c)'
  BY <1>1 DEF KeyInv, PartsInv
<1>4. KeptInv(c)'
  BY <1>1, <1>2 DEF KeptInv
<1>5. QED
  BY <1>2, <1>3, <1>4 DEF Safe

LEMMA ArtifactAbsentSafe ==
  ASSUME NEW c \in Clients, LocalInv, ArtifactAbsent(c)
  PROVE  Safe(c)
<1> USE DEF At, localVars
<1>1. /\ UNCHANGED <<refs, cas>>
      /\ \/ ~StrictMode /\ Goes(c, PullOf(c, "pull", WeakKey, FALSE))
         \/ Ends(c, "absent")
  BY DEF ArtifactAbsent
<1>2. CASE ~StrictMode /\ Goes(c, PullOf(c, "pull", WeakKey, FALSE))
  BY <1>1, <1>2, BeginsPull DEF Replaces
<1>3. CASE Ends(c, "absent")
  <2>1. Domains /\ LocalDomains
    BY DEF LocalInv
  <2>2. Alone(c) /\ Keeps(c)
    BY <1>1, <1>3, <2>1, EndsCall, AddsBlobs DEF Ends
  <2>3. QED
    BY <1>3, <2>1, <2>2, EndsCall, EndsResult, NoPull DEF LocalDomains, Pulls
<1>4. QED
  BY <1>1, <1>2, <1>3

\* The staged sources were pulled as a whole.
LEMMA StagedPulledSafe ==
  ASSUME NEW c \in Clients, LocalInv, StagedPulled(c)
  PROVE  Safe(c)
<1> USE DEF At, localVars
<1>1. /\ Domains /\ LocalDomains /\ KeyInv(c) /\ PartsInv(c) /\ Pulls(c)
      /\ call[c].at = "pulled" /\ call[c].key = Staged
      /\ UNCHANGED <<refs, cas>> /\ Ends(c, "fetched")
  BY DEF LocalInv, StagedPulled, Pulls
<1>2. SourcesCached(c, Staged)'
  BY <1>1, AllGot, Kinds DEF SourcesCached
<1>3. Alone(c) /\ Keeps(c)
  BY <1>1, EndsCall, AddsBlobs DEF Ends
<1>4. call'[c].op = "idle" /\ result'[c] = "fetched"
  BY <1>1, EndsCall, EndsResult DEF LocalDomains
<1>5. Complete(c)
  BY <1>2, <1>4 DEF Complete, Ending
<1>6. KeyInv(c)' /\ PartsInv(c)' /\ KeptInv(c)'
  BY <1>4 DEF KeyInv, PartsInv, KeptInv, Pulls
<1>7. QED
  BY <1>3, <1>5, <1>6 DEF Safe

\* The sources are staged.
LEMMA StageAndCacheSafe ==
  ASSUME NEW c \in Clients, LocalInv, StageAndCache(c)
  PROVE  Safe(c)
<1> USE DEF At, remoteVars
<1>1. Domains /\ LocalDomains /\ Ends(c, "fetched")
  BY DEF LocalInv, StageAndCache
<1>2. /\ refs'[c] = [refs[c] EXCEPT ![Staged] = Staged]
      /\ cas'[c] = cas[c] \cup {Blob(Staged, "files")}
      /\ \A d \in Clients \ {c} : refs'[d] = refs[d] /\ cas'[d] = cas[d]
      /\ DOMAIN refs' = Clients /\ DOMAIN cas' = Clients
  BY <1>1 DEF StageAndCache, LocalDomains
<1>3. SourcesCached(c, Staged)'
  BY <1>1, <1>2, Kinds DEF SourcesCached, LocalDomains
<1>4. /\ \A d \in Clients \ {c} : call'[d] = call[d]
      /\ call'[c].op = "idle" /\ result'[c] = "fetched" /\ DOMAIN result' = Clients
  BY <1>1, EndsCall DEF LocalDomains, Ends
<1>5. Alone(c)
  BY <1>1, <1>2, <1>4 DEF Alone, LocalDomains
<1>6. Keeps(c)
  BY <1>1, <1>2, Kinds DEF Keeps, Cached, LocalDomains
<1>7. Complete(c)
  BY <1>3, <1>4 DEF Complete, Ending
<1>8. KeyInv(c)' /\ PartsInv(c)' /\ KeptInv(c)'
  BY <1>4 DEF KeyInv, PartsInv, KeptInv, Pulls
<1>9. QED
  BY <1>5, <1>6, <1>7, <1>8 DEF Safe

\* The sources are gone through one by one.
LEMMA NextSourceSafe ==
  ASSUME NEW c \in Clients, LocalInv, NextSource(c)
  PROVE  Safe(c)
<1> USE DEF At, localVars
<1>1. /\ Domains /\ call[c].op = "fetch" /\ UNCHANGED <<refs, cas>>
      /\ Goes(c, [at |-> "source", source |-> call[c].source + 1])
  BY DEF LocalInv, NextSource
<1>2. call'[c].at = "source" /\ call'[c].op = "fetch"
  BY <1>1, GoesChanges
<1>3. KeyInv(c)'
  BY <1>2 DEF KeyInv
<1>4. QED
  BY <1>1, <1>2, <1>3, GoesOn

LEMMA FetchSourceSafe ==
  ASSUME NEW c \in Clients, LocalInv, FetchSource(c)
  PROVE  Safe(c)
<1> DEFINE s == SourceAt(c)
<1> USE DEF At, remoteVars
<1>1. /\ Domains /\ LocalDomains /\ call[c].op = "fetch" /\ call[c].at = "source"
      /\ s \in SourceKeys
  BY DEF LocalInv, FetchSource, SourceKeys, SourceAt
<1>2. s \in Keys /\ s \notin {StrictKey, WeakKey}
  BY <1>1, Kinds
<1>3. \/ /\ Goes(c, [source |-> call[c].source + 1])
         /\ \/ UNCHANGED <<refs, cas>>
            \/ /\ refs' = [refs EXCEPT ![c][s] = s]
               /\ cas' = [cas EXCEPT ![c] = @ \cup Blobs(s)]
      \/ Goes(c, PullOf(c, "fetch", s, FALSE)) /\ UNCHANGED <<refs, cas>>
      \/ Goes(c, [at |-> "absent", key |-> s]) /\ UNCHANGED <<refs, cas>>
  BY DEF FetchSource
<1>4. CASE /\ Goes(c, [source |-> call[c].source + 1])
           /\ \/ UNCHANGED <<refs, cas>>
              \/ /\ refs' = [refs EXCEPT ![c][s] = s]
                 /\ cas' = [cas EXCEPT ![c] = @ \cup Blobs(s)]
  <2>1. /\ \A d \in Clients \ {c} : call'[d] = call[d]
        /\ call'[c].at = "source" /\ call'[c].op = "fetch" /\ result' = result
    <3>1. ASSUME NEW i, Goes(c, [source |-> i])
          PROVE  /\ \A d \in Clients \ {c} : call'[d] = call[d]
                 /\ call'[c].at = "source" /\ call'[c].op = "fetch" /\ result' = result
      BY <1>1, <3>1, GoesChanges, GoesSets
    <3>2. QED
      BY <1>4, <3>1
  <2>2. /\ \A l \in {StrictKey, WeakKey} : refs'[c][l] = refs[c][l]
        /\ cas[c] \subseteq cas'[c]
        /\ \A d \in Clients \ {c} : refs'[d] = refs[d] /\ cas'[d] = cas[d]
        /\ DOMAIN refs' = Clients /\ DOMAIN cas' = Clients /\ DOMAIN refs'[c] = Keys
    <3>1. CASE UNCHANGED <<refs, cas>>
      BY <1>1, <3>1 DEF LocalDomains
    <3>2. CASE /\ refs' = [refs EXCEPT ![c][s] = s]
               /\ cas' = [cas EXCEPT ![c] = @ \cup Blobs(s)]
      <4>1. /\ refs'[c] = [refs[c] EXCEPT ![s] = s]
            /\ \A d \in Clients \ {c} : refs'[d] = refs[d]
            /\ DOMAIN refs' = Clients
        BY <1>1, <3>2 DEF LocalDomains
      <4>2. /\ cas'[c] = cas[c] \cup Blobs(s)
            /\ \A d \in Clients \ {c} : cas'[d] = cas[d]
            /\ DOMAIN cas' = Clients
        BY <1>1, <3>2 DEF LocalDomains
      <4>3. \A l \in {StrictKey, WeakKey} : l \in Keys /\ l # s
        BY <1>2, Kinds
      <4>4. QED
        BY <1>1, <4>1, <4>2, <4>3 DEF LocalDomains
    <3>3. QED
      BY <1>4, <3>1, <3>2
  <2>3. Alone(c)
    BY <1>1, <2>1, <2>2 DEF Alone, LocalDomains
  <2>4. Keeps(c)
    BY <2>2 DEF Keeps, Cached
  <2>5. KeyInv(c)' /\ PartsInv(c)' /\ KeptInv(c)' /\ Complete(c)
    BY <2>1, GoingOn DEF KeyInv, PartsInv, KeptInv
  <2>6. QED
    BY <2>3, <2>4, <2>5 DEF Safe
<1>5. CASE Goes(c, PullOf(c, "fetch", s, FALSE)) /\ UNCHANGED <<refs, cas>>
  BY <1>1, <1>5, BeginsPull
<1>6. CASE Goes(c, [at |-> "absent", key |-> s]) /\ UNCHANGED <<refs, cas>>
  <2>1. ASSUME NEW k, k = s, Goes(c, [at |-> "absent", key |-> k])
        PROVE  call'[c].at = "absent" /\ call'[c].op = "fetch" /\ call'[c].key = k
    BY <1>1, <2>1, GoesChanges, GoesSets
  <2>2. call'[c].at = "absent" /\ call'[c].op = "fetch" /\ call'[c].key = s
    BY <1>6, <2>1
  <2>3. KeyInv(c)'
    BY <1>1, <2>2 DEF KeyInv
  <2>4. QED
    BY <1>1, <1>6, <2>2, <2>3, GoesOn
<1>7. QED
  BY <1>3, <1>4, <1>5, <1>6

LEMMA FetchOriginalSafe ==
  ASSUME NEW c \in Clients, LocalInv, FetchOriginal(c)
  PROVE  Safe(c)
<1> USE DEF At
<1>1. /\ Domains /\ call[c].op = "fetch" /\ UNCHANGED <<refs, cas>>
      /\ Ends(c, "error") \/ Goes(c, [at |-> "source"])
  BY DEF LocalInv, FetchOriginal
<1>2. CASE Ends(c, "error")
  BY <1>1, <1>2, EndsInError
<1>3. CASE Goes(c, [at |-> "source"])
  <2>1. call'[c].at = "source" /\ call'[c].op = "fetch"
    BY <1>1, <1>3, GoesChanges
  <2>2. KeyInv(c)'
    BY <2>1 DEF KeyInv
  <2>3. QED
    BY <1>1, <1>3, <2>1, <2>2, GoesOn
<1>4. QED
  BY <1>1, <1>2, <1>3

\* A command begins.  What is built replaces what was not cached.
LEMMA StartSafe ==
  ASSUME NEW c \in Clients, LocalInv, Start(c)
  PROVE  Safe(c)
<1> USE DEF Starts, localVars
<1>1. Domains /\ LocalDomains /\ call[c].op = "idle"
  BY DEF LocalInv, Start, BuildArtifact, StartPull, StartPush, StartFetch, StartSourcePush
<1>2. Keeps(c)
  BY <1>1 DEF Keeps
<1>3. CASE BuildArtifact(c)
  <2>1. PICK a \in Builds[c] :
          /\ cas' = [cas EXCEPT ![c] = @ \cup (Blobs(a) \ {Blob(a, "proto")})]
          /\ refs' = [refs EXCEPT ![c] = [k \in Keys |->
                        IF k \in {Strong[a], Weak[a]} THEN a ELSE @[k]]]
    BY <1>3 DEF BuildArtifact
  <2>2. call' = call /\ result' = result
    BY <1>3 DEF BuildArtifact
  <2>3. /\ DOMAIN refs' = Clients /\ DOMAIN cas' = Clients /\ DOMAIN refs'[c] = Keys
        /\ \A d \in Clients \ {c} : refs'[d] = refs[d] /\ cas'[d] = cas[d]
    BY <1>1, <2>1 DEF LocalDomains
  <2>4. Alone(c)
    BY <1>1, <2>2, <2>3 DEF Alone, LocalDomains
  <2>5. QED
    BY <1>1, <1>2, <2>2, <2>4, NoPull DEF Pulls
<1>4. CASE StartPull(c)
  <2>1. /\ UNCHANGED <<refs, cas>> /\ Goes(c, PullOf(c, "pull", StrictKey, Cached(c, StrictKey)))
        /\ ~Cached(c, StrictKey) \/ PullBuildtrees
    BY <1>4 DEF StartPull
  <2>2. QED
    BY <2>1, BeginsPull DEF Replaces
<1>5. CASE StartPush(c)
  <2>1. /\ Goes(c, [op |-> "push", at |-> "storage", key |-> LoadedKey(c),
                    digest |-> refs[c][LoadedKey(c)], rest |-> StorageRemotes(c, TRUE)])
        /\ refs' = refs /\ \E new : cas' = [cas EXCEPT ![c] = @ \cup new]
    BY <1>5 DEF StartPush
  <2>2. ASSUME NEW k, NEW d, NEW rest,
               Goes(c, [op |-> "push", at |-> "storage", key |-> k, digest |-> d, rest |-> rest])
        PROVE  call'[c].op = "push" /\ result' = result /\ \A e \in Clients \ {c} : call'[e] = call[e]
    BY <1>1, <2>2, GoesChanges, GoesSets
  <2>3. call'[c].op = "push" /\ result' = result /\ \A e \in Clients \ {c} : call'[e] = call[e]
    BY <2>1, <2>2
  <2>4. QED
    BY <1>1, <2>1, <2>3, AddsBlobs, NoPull DEF Pulls
<1>6. CASE StartFetch(c)
  <2>1. UNCHANGED <<refs, cas>>
    BY <1>6 DEF StartFetch
  <2>2. \/ Goes(c, PullOf(c, "fetch", Staged, FALSE))
        \/ Goes(c, [op |-> "fetch", at |-> "source", source |-> 1])
    BY <1>6 DEF StartFetch
  <2>3. CASE Goes(c, PullOf(c, "fetch", Staged, FALSE))
    BY <2>1, <2>3, BeginsPull
  <2>4. CASE Goes(c, [op |-> "fetch", at |-> "source", source |-> 1])
    <3>1. call'[c].op = "fetch" /\ call'[c].at = "source"
      BY <1>1, <2>4, GoesChanges
    <3>2. Alone(c)
      BY <2>1, <2>4, CallOnly
    <3>3. KeyInv(c)' /\ PartsInv(c)' /\ KeptInv(c)' /\ Complete(c)
      BY <3>1, GoingOn DEF KeyInv, PartsInv, KeptInv
    <3>4. QED
      BY <1>2, <3>2, <3>3 DEF Safe
  <2>5. QED
    BY <2>2, <2>3, <2>4
<1>7. CASE StartSourcePush(c)
  <2>1. /\ UNCHANGED <<refs, cas>>
        /\ Goes(c, [op |-> "pushsources", at |-> "source", source |-> 1])
    BY <1>7 DEF StartSourcePush
  <2>2. call'[c].op = "pushsources"
    BY <1>1, <2>1, GoesChanges
  <2>3. Alone(c)
    BY <2>1, CallOnly
  <2>4. QED
    BY <1>1, <1>2, <2>2, <2>3, NoPull DEF Pulls
<1>8. QED
  BY <1>3, <1>4, <1>5, <1>6, <1>7 DEF Start

\* A push changes no protos, and is not a pull.
LEMMA PushSafe ==
  ASSUME NEW c \in Clients, LocalInv,
         Pushing(c) \/ ArtifactPushed(c) \/ PushNextSource(c) \/ SourcePushed(c)
  PROVE  Safe(c)
<1> USE DEF At, remoteVars, localVars
<1>1. /\ Domains /\ LocalDomains /\ Pushes(c) /\ refs' = refs
      /\ cas' = cas \/ \E new : cas' = [cas EXCEPT ![c] = @ \cup new]
  BY DEF LocalInv, Pushing, PushBlobs, BlobsPushed, PushProto, ArtifactPushed, PushNextSource,
         SourcePushed, Pushes
<1>2. \/ Ends(c, "error") \/ Ends(c, "pushed")
      \/ \E rest : Goes(c, [rest |-> rest])
      \/ \E rest, missed : Goes(c, [rest |-> rest, missed |-> missed])
      \/ \E rest : Goes(c, [at |-> "index", rest |-> rest])
      \/ \E i : Goes(c, [at |-> "source", source |-> i]) \/ Goes(c, [source |-> i])
      \/ \E k, d, rest : Goes(c, [at |-> "storage", key |-> k, digest |-> d, rest |-> rest,
                                  missed |-> {}])
  <2>1. CASE PushBlobs(c) \/ BlobsPushed(c) \/ PushProto(c)
    BY <2>1 DEF PushBlobs, BlobsPushed, PushProto
  <2>2. CASE ArtifactPushed(c) \/ SourcePushed(c)
    BY <2>2 DEF ArtifactPushed, SourcePushed
  <2>3. CASE PushNextSource(c)
    BY <2>3 DEF PushNextSource
  <2>4. QED
    BY <2>1, <2>2, <2>3 DEF Pushing
<1>3. CASE Ends(c, "error") \/ Ends(c, "pushed")
  <2>1. /\ \A d \in Clients \ {c} : call'[d] = call[d]
        /\ call'[c].op = "idle" /\ result'[c] \in {"error", "pushed"}
        /\ \E res : result' = [result EXCEPT ![c] = res]
    BY <1>1, <1>3, EndsCall, EndsResult DEF LocalDomains, Ends
  <2>2. QED
    BY <1>1, <2>1, AddsBlobs, NoPull DEF Pulls
<1>4. CASE /\ call'[c].op = call[c].op /\ result' = result
           /\ \A d \in Clients \ {c} : call'[d] = call[d]
  BY <1>1, <1>4, AddsBlobs, NoPull DEF Pulls, Pushes
<1>5. ASSUME NEW rest, NEW missed,
             Goes(c, [rest |-> rest]) \/ Goes(c, [rest |-> rest, missed |-> missed])
      PROVE  /\ call'[c].op = call[c].op /\ result' = result
             /\ \A d \in Clients \ {c} : call'[d] = call[d]
  BY <1>1, <1>5, GoesChanges, GoesSets
<1>6. ASSUME NEW rest, Goes(c, [at |-> "index", rest |-> rest])
      PROVE  /\ call'[c].op = call[c].op /\ result' = result
             /\ \A d \in Clients \ {c} : call'[d] = call[d]
  BY <1>1, <1>6, GoesChanges, GoesSets
<1>7. ASSUME NEW i, Goes(c, [at |-> "source", source |-> i]) \/ Goes(c, [source |-> i])
      PROVE  /\ call'[c].op = call[c].op /\ result' = result
             /\ \A d \in Clients \ {c} : call'[d] = call[d]
  BY <1>1, <1>7, GoesChanges, GoesSets
<1>8. ASSUME NEW k, NEW d, NEW rest,
             Goes(c, [at |-> "storage", key |-> k, digest |-> d, rest |-> rest, missed |-> {}])
      PROVE  /\ call'[c].op = call[c].op /\ result' = result
             /\ \A e \in Clients \ {c} : call'[e] = call[e]
  BY <1>1, <1>8, GoesChanges, GoesSets
<1>9. QED
  BY <1>2, <1>3, <1>4, <1>5, <1>6, <1>7, <1>8

\* Blobs are only dropped when the client is idle.
LEMMA ExpireSafe ==
  ASSUME NEW c \in Clients, LocalInv, Expire(c)
  PROVE  Safe(c)
<1>1. /\ Domains /\ LocalDomains /\ call[c].op = "idle" /\ UNCHANGED <<refs, call, result>>
      /\ \E b : cas' = [cas EXCEPT ![c] = @ \ {b}]
  BY DEF LocalInv, Expire
<1>2. Alone(c) /\ Keeps(c)
  BY <1>1 DEF Alone, Keeps, LocalDomains
<1>3. QED
  BY <1>1, <1>2, NoPull DEF Pulls

LEMMA StepSafe ==
  ASSUME NEW c \in Clients, LocalInv,
         \/ Start(c) \/ Pulling(c) \/ Pushing(c)
         \/ ArtifactStep(c) \/ SourceStep(c) \/ Expire(c)
  PROVE  Safe(c)
<1>1. CASE Pulling(c)
  BY <1>1, AskIndexSafe, IndexAskedSafe, FetchPartSafe, NotFetchedSafe DEF Pulling
<1>2. CASE ArtifactStep(c)
  BY <1>2, ArtifactPulledSafe, ArtifactAbsentSafe, PushSafe DEF ArtifactStep
<1>3. CASE SourceStep(c)
  BY <1>3, StagedPulledSafe, NextSourceSafe, FetchSourceSafe, FetchOriginalSafe,
     StageAndCacheSafe, PushSafe DEF SourceStep
<1>4. QED
  BY <1>1, <1>2, <1>3, StartSafe, PushSafe, ExpireSafe

LEMMA LocalInvInit == Init => LocalInv
<1>1. Init => Domains /\ LocalDomains
  BY DEF Init, Domains, LocalDomains
<1>2. Init => \A c \in Clients : KeyInv(c) /\ PartsInv(c) /\ KeptInv(c)
  BY DEF Init, KeyInv, PartsInv, KeptInv, Pulls, Idle
<1>3. QED
  BY <1>1, <1>2 DEF LocalInv

\* A step keeps the invariant, and is complete and loses nothing for every client.
LEMMA LocalInvStep ==
  ASSUME Inv, LocalInv, [Next]_vars
  PROVE  LocalInv' /\ \A c \in Clients : Complete(c) /\ Keeps(c)
<1>1. Domains'
  BY InvStep DEF Inv
<1>2. CASE UNCHANGED vars
  <2>1. LocalDomains' /\ \A c \in Clients : KeyInv(c)' /\ PartsInv(c)' /\ KeptInv(c)'
    BY <1>2 DEF vars, localVars, LocalInv, LocalDomains, KeyInv, PartsInv, KeptInv, Pulls, Order, Got, Left,
                Cached
  <2>2. \A c \in Clients : Complete(c) /\ Keeps(c)
    BY <1>2 DEF vars, localVars, Complete, Ending, Keeps, Cached
  <2>3. QED
    BY <1>1, <2>1, <2>2 DEF LocalInv
<1>3. ASSUME NEW c \in Clients, Safe(c)
      PROVE  LocalInv' /\ \A d \in Clients : Complete(d) /\ Keeps(d)
  <2>1. ASSUME NEW d \in Clients \ {c}
        PROVE  KeyInv(d)' /\ PartsInv(d)' /\ KeptInv(d)' /\ Complete(d) /\ Keeps(d)
    <3>1. call'[d] = call[d] /\ refs'[d] = refs[d] /\ cas'[d] = cas[d]
      BY <1>3, <2>1 DEF Safe, Alone
    <3>2. KeyInv(d)' /\ PartsInv(d)' /\ KeptInv(d)'
      <4>1. KeyInv(d) /\ PartsInv(d) /\ KeptInv(d)
        BY <2>1 DEF LocalInv
      <4>2. KeyInv(d)' /\ KeptInv(d)'
        BY <3>1, <4>1 DEF KeyInv, KeptInv, Cached
      <4>3. Order(d)' = Order(d) /\ \A n : (Got(d, n) => Got(d, n)') /\ (Left(d, n) => Left(d, n)')
        BY <3>1 DEF Order, Got, Left
      <4>4. PartsInv(d)'
        BY <3>1, <4>1, <4>3 DEF PartsInv, Pulls
      <4>5. QED
        BY <4>2, <4>4
    <3>3. Complete(d) /\ Keeps(d)
      BY <3>1 DEF Complete, Ending, Keeps, Cached
    <3>4. QED
      BY <3>2, <3>3
  <2>2. QED
    BY <1>1, <1>3, <2>1 DEF LocalInv, Safe, Alone
<1>4. QED
  BY <1>2, <1>3, StepSafe DEF Next

\* What is reported as pulled or fetched is complete in the local cache, whatever mixture of
\* remotes and earlier attempts it came from (Artifact.set_cached() believes it).
THEOREM SuccessIsReallyComplete == Spec => SuccessIsComplete
<1>1. Inv /\ LocalInv /\ [Next]_vars => Inv' /\ LocalInv'
  BY InvStep, LocalInvStep
<1>2. Inv /\ LocalInv /\ [Next]_vars => [\A c \in Clients : Complete(c)]_vars
  BY LocalInvStep
<1>3. Spec => [][\A c \in Clients : Complete(c)]_vars
  BY InvInit, LocalInvInit, <1>1, <1>2, PTL DEF Spec
<1>4. [][\A c \in Clients : Complete(c)]_vars => SuccessIsComplete
  BY PTL DEF SuccessIsComplete, Complete
<1>5. QED
  BY <1>3, <1>4

\* A pull costs the client no artifact that it has, however it ends; only one that finds another
\* artifact under the key may, for a build tree or under the weak key (Artifact.pull).
THEOREM PullsLoseNothing == Spec => PullLosesNothing
<1>1. Inv /\ LocalInv /\ [Next]_vars => Inv' /\ LocalInv'
  BY InvStep, LocalInvStep
<1>2. Inv /\ LocalInv /\ [Next]_vars => [\A c \in Clients : Keeps(c)]_vars
  BY LocalInvStep
<1>3. Spec => [][\A c \in Clients : Keeps(c)]_vars
  BY InvInit, LocalInvInit, <1>1, <1>2, PTL DEF Spec
<1>4. ASSUME [\A c \in Clients : Keeps(c)]_vars
      PROVE  [\A c \in Clients, k \in {StrictKey, WeakKey} :
                Cached(c, k) /\ ~Cached(c, k)' =>
                  \/ call[c].op = "idle"
                  \/ /\ PullBuildtrees \/ (~StrictMode /\ k = WeakKey)
                     /\ call[c].op = "pull" /\ refs'[c][k] \notin {refs[c][k], NoDigest}]_vars
  BY <1>4 DEF Keeps, Replaces
<1>5. [][\A c \in Clients : Keeps(c)]_vars => PullLosesNothing
  BY <1>4, PTL DEF PullLosesNothing
<1>6. QED
  BY <1>3, <1>5

-----------------------------------------------------------------------------
(* Pulls find what is there, if the remotes never have two artifacts for one key. *)

\* What clients that push build.
Pushed == UNION {Builds[c] : c \in {d \in Clients : "push" \in Ops[d]}}

\* Builds are reproducible: what is pushed under one key is one artifact.
SameKeySameArtifact ==
  \A a, b \in Pushed : {Strong[a], Weak[a]} \cap {Strong[b], Weak[b]} # {} => a = b

\* What an index may be told under a key that is not that of a single source.
Told(k) == IF k = Staged THEN {Staged} ELSE {a \in Pushed : k \in {Strong[a], Weak[a]}}

IndexInv ==
  \A r \in Index :
    /\ DOMAIN index[r] = Keys
    /\ \A k \in Keys \ SourceKeys : index[r][k] \in Told(k) \cup {NoDigest}

\* The protos of a client: the staged sources are those of the element, and a client that pushes
\* has no artifact that nobody who pushes has built.
ProtoInv(c) ==
  /\ refs[c][Staged] \in {Staged, NoDigest}
  /\ "push" \in Ops[c] => \A k \in {StrictKey, WeakKey} : refs[c][k] \in Pushed \cup {NoDigest}

\* The digest of a call is one of the key; when it is found, no other index is asked.
DigestInv(c) ==
  /\ Pulls(c) /\ call[c].at = "index" => call[c].rest \subseteq Index
  /\ Pulls(c) /\ call[c].at \in {"index", "storage", "pulled"} /\ call[c].key \notin SourceKeys =>
       /\ call[c].digest \in Told(call[c].key) \cup {NoDigest}
       /\ call[c].at = "index" /\ call[c].digest # NoDigest => call[c].rest = {}
  /\ call[c].op = "push" => /\ call[c].key \in {StrictKey, WeakKey} /\ call[c].at # "source"
                            /\ call[c].digest \in Pushed
  /\ call[c].op = "pushsources" =>
       /\ refs[c][Staged] = Staged /\ call[c].source \in 1..(Len(Sources) + 1)
       /\ call[c].at # "source" =>
            \/ call[c].key \in SourceKeys /\ call[c].source # Len(Sources) + 1
            \/ call[c].key = Staged /\ call[c].digest = Staged

\* What was there is not lost sight of: an index that knows it, or a storage that has it, is left
\* to ask, unless something failed.
ThereInv(c) ==
  Pulls(c) /\ call[c].there /\ call[c].key \notin SourceKeys =>
    /\ call[c].at = "index" =>
         /\ \E d \in Told(call[c].key), r \in StorageRemotes(c, FALSE) : Blobs(d) \subseteq storage[r]
         /\ \/ call[c].digest # NoDigest \/ call[c].errors
            \/ \E r \in call[c].rest \cap Index : index[r][call[c].key] # NoDigest
    /\ call[c].at = "storage" =>
         \/ call[c].errors
         \/ \E r \in call[c].rest \cap Storage : Blobs(call[c].digest) \subseteq storage[r]

ThereInvs == IndexInv /\ \A c \in Clients : ProtoInv(c) /\ DigestInv(c) /\ ThereInv(c)

\* A report that something is not there is true.
Finds(c) ==
  (/\ call[c].at \in {"index", "storage"} /\ call'[c].at = "absent"
   /\ Asset(call[c].key) # "source") => ~call[c].there

\* What indexes and storages have is not taken back.
Grows ==
  /\ UNCHANGED connected
  /\ \A s \in Storage : storage[s] \subseteq storage'[s]
  /\ \A r \in Index, k \in Keys \ SourceKeys : index[r][k] # NoDigest => index'[r][k] # NoDigest

\* A step of one client finds what is there, and leaves the indexes in order.
Finding(c) ==
  IndexInv' /\ Grows /\ ProtoInv(c)' /\ DigestInv(c)' /\ ThereInv(c)' /\ Finds(c)

AllInv == Inv /\ LocalInv /\ ThereInvs

LEMMA FirstIsOneOf ==
  ASSUME NEW S, S \subseteq Index, S # {}
  PROVE  First(S) \in S
<1>1. S \subseteq Nat
  BY CachesAssumption
<1>2. PICK n \in S : \A m \in S : <<m, n>> \notin OpToRel(<, Nat)
  BY <1>1, NatLessThanWellFounded, WFMin
<1>3. ASSUME NEW m \in S
      PROVE  n <= m
  <2>1. m \in Nat /\ n \in Nat
    BY <1>1, <1>3
  <2>2. ~(m < n)
    BY <1>2, <2>1, Zenon DEF OpToRel
  <2>3. QED
    BY <2>1, <2>2
<1>4. QED
  BY <1>3 DEF First

\* Asset() tells single sources from the rest.
LEMMA SourcesAreTold ==
  /\ \A k : Asset(k) # "source" <=> k \notin SourceKeys
  /\ \A d \in Pushed : /\ d \in Artifacts /\ d # NoDigest /\ d # Staged /\ d \notin SourceKeys
                       /\ {Strong[d], Weak[d]} \subseteq Keys
                       /\ {Strong[d], Weak[d]} \cap (SourceKeys \cup {Staged}) = {}
<1>1. \A k : Asset(k) # "source" <=> k \notin SourceKeys
  BY CachesAssumption DEF Asset
<1>2. \A d \in Pushed : d \in Artifacts
  BY CachesAssumption DEF Pushed
<1>3. \A d \in Artifacts :
        /\ d # NoDigest /\ d # Staged /\ d \notin SourceKeys
        /\ {Strong[d], Weak[d]} \subseteq Keys
        /\ {Strong[d], Weak[d]} \cap (SourceKeys \cup {Staged}) = {}
  BY CachesAssumption DEF Digests, Keys
<1>4. QED
  BY <1>1, <1>2, <1>3

\* A key is told one digest, and it is one.
LEMMA ToldIsOne ==
  ASSUME SameKeySameArtifact, NEW k, NEW d \in Told(k), NEW e \in Told(k)
  PROVE  d = e /\ d # NoDigest
BY SourcesAreTold, Kinds DEF SameKeySameArtifact, Told

\* The parts to pull are parts of the digest.
LEMMA PartsAreBlobs ==
  ASSUME NEW k \in {StrictKey, WeakKey, Staged}, NEW d \in Told(k),
         NEW i \in 1..Len(PartsToPull(k, d))
  PROVE  Blob(d, PartsToPull(k, d)[i]) \in Blobs(d)
<1>1. CASE k = Staged
  <2>1. d = Staged /\ PartsToPull(k, d) = <<"proto", "files">>
    BY <1>1, Kinds DEF Told, PartsToPull
  <2>2. d \notin Artifacts
    BY <2>1, CachesAssumption
  <2>3. Blobs(d) = {Blob(d, p) : p \in {"files", "proto"}}
    BY <2>1, <2>2 DEF Blobs
  <2>4. i \in {1, 2}
    BY <2>1
  <2>5. PartsToPull(k, d)[i] \in {"files", "proto"}
    BY <2>1, <2>4
  <2>6. QED
    BY <2>3, <2>5
<1>2. CASE k # Staged
  <2>1. d \in Artifacts /\ Asset(k) = "artifact"
    BY <1>2, SourcesAreTold, Kinds DEF Told
  <2>2. Blobs(d) = {Blob(d, p) : p \in {"files", "meta", "proto"}
                      \cup (IF d \in HasBuildtree THEN {"buildtree"} ELSE {})}
    BY <2>1 DEF Blobs
  <2>3. PartsToPull(k, d)[i] \in {"files", "meta", "proto"}
                      \cup (IF d \in HasBuildtree THEN {"buildtree"} ELSE {})
    <3>1. CASE PullBuildtrees /\ d \in HasBuildtree
      <4>1. PartsToPull(k, d) = <<"proto", "files", "buildtree", "meta">>
        BY <2>1, <3>1 DEF PartsToPull
      <4>2. i \in {1, 2, 3, 4}
        BY <4>1
      <4>3. QED
        BY <3>1, <4>1, <4>2
    <3>2. CASE ~(PullBuildtrees /\ d \in HasBuildtree)
      <4>1. PartsToPull(k, d) = <<"proto", "files", "meta">>
        BY <2>1, <3>2 DEF PartsToPull
      <4>2. i \in {1, 2, 3}
        BY <4>1
      <4>3. QED
        BY <4>1, <4>2
    <3>3. QED
      BY <3>1, <3>2
  <2>4. QED
    BY <2>2, <2>3
<1>3. QED
  BY <1>1, <1>2

\* Nothing happens to the remotes.
LEMMA RemotesAsTheyWere ==
  ASSUME IndexInv, UNCHANGED <<index, storage, connected>>
  PROVE  IndexInv' /\ Grows
BY DEF IndexInv, Grows

\* No call is under way.
LEMMA NoCall ==
  ASSUME NEW c \in Clients, call'[c].op = "idle", call'[c].at = "idle"
  PROVE  DigestInv(c)' /\ ThereInv(c)' /\ Finds(c)
BY DEF DigestInv, ThereInv, Finds, Pulls

LEMMA EndsIdle ==
  ASSUME NEW c \in Clients, NEW res, Domains, Ends(c, res)
  PROVE  call'[c].op = "idle" /\ call'[c].at = "idle"
BY DEF Ends, Domains, Idle

\* What is asked is one of the indexes, and its answer is of the key.
LEMMA AskIndexFinds ==
  ASSUME NEW c \in Clients, AllInv, SameKeySameArtifact, AskIndex(c)
  PROVE  Finding(c)
<1> DEFINE k == call[c].key
           r == First(call[c].rest)
           found == index[r][k]
<1> USE DEF At, remoteVars
<1>1. /\ Domains /\ LocalDomains /\ KeyInv(c) /\ IndexInv /\ ProtoInv(c) /\ DigestInv(c) /\ ThereInv(c)
      /\ Pulls(c) /\ call[c].op # "idle" /\ call[c].at = "index"
      /\ UNCHANGED <<index, storage, connected>>
  BY DEF AllInv, LocalInv, ThereInvs, AskIndex, Pulls
<1>2. r \in call[c].rest /\ r \in Index
  <2>1. call[c].rest # {} /\ call[c].rest \subseteq Index
    BY <1>1 DEF AskIndex, DigestInv
  <2>2. QED
    BY <2>1, FirstIsOneOf
<1>3. k \in Keys
  BY <1>1, Kinds DEF KeyInv, Pulls
<1>4. k \notin SourceKeys => found \in Told(k) \cup {NoDigest}
  BY <1>1, <1>2, <1>3 DEF IndexInv
<1>5. ProtoInv(c)'
  <2>1. \A l \in {StrictKey, WeakKey, Staged} : refs'[c][l] = refs[c][l]
    <3>1. \/ refs' = refs
          \/ Asset(k) = "source" /\ refs' = [refs EXCEPT ![c] = [@ EXCEPT ![k] = found]]
      BY DEF AskIndex
    <3>2. QED
      BY <1>1, <3>1, Kinds DEF LocalDomains
  <2>2. QED
    BY <1>1, <2>1 DEF ProtoInv
<1>6. IndexInv' /\ Grows
  BY <1>1, RemotesAsTheyWere
<1>7. \/ Ends(c, "error")
      \/ \E rest : /\ found # NoDigest /\ rest \subseteq call[c].rest
                   /\ k \in SourceKeys \/ rest = {}
                   /\ Goes(c, [digest |-> found, rest |-> rest])
      \/ found = NoDigest /\ Goes(c, [digest |-> NoDigest, rest |-> call[c].rest \ {r}])
      \/ Goes(c, [errors |-> TRUE, rest |-> call[c].rest \ {r}])
  BY SourcesAreTold DEF AskIndex
<1>8. CASE Ends(c, "error")
  BY <1>1, <1>5, <1>6, <1>8, EndsIdle, NoCall DEF Finding
<1>9. CASE \E rest : /\ found # NoDigest /\ rest \subseteq call[c].rest
                     /\ k \in SourceKeys \/ rest = {}
                     /\ Goes(c, [digest |-> found, rest |-> rest])
  <2>1. PICK rest : /\ found # NoDigest /\ rest \subseteq call[c].rest
                    /\ k \in SourceKeys \/ rest = {}
                    /\ Goes(c, [digest |-> found, rest |-> rest])
    BY <1>9
  <2>2. ASSUME NEW d, Goes(c, [digest |-> d, rest |-> rest])
        PROVE  /\ call'[c].op = call[c].op /\ call'[c].at = "index" /\ call'[c].key = k
               /\ call'[c].digest = d /\ call'[c].rest = rest /\ call'[c].there = call[c].there
    BY <1>1, <2>2, GoesChanges, GoesSets
  <2>3. /\ call'[c].op = call[c].op /\ call'[c].at = "index" /\ call'[c].key = k
        /\ call'[c].digest = found /\ call'[c].rest = rest /\ call'[c].there = call[c].there
    BY <2>1, <2>2
  <2>4. DigestInv(c)'
    BY <1>1, <1>4, <2>1, <2>3 DEF DigestInv, Pulls, Told
  <2>5. ThereInv(c)'
    BY <1>1, <2>1, <2>3 DEF ThereInv, Pulls, Told, StorageRemotes
  <2>6. QED
    BY <1>5, <1>6, <2>3, <2>4, <2>5 DEF Finding, Finds
<1>10. CASE found = NoDigest /\ Goes(c, [digest |-> NoDigest, rest |-> call[c].rest \ {r}])
  <2>1. ASSUME NEW rest, Goes(c, [digest |-> NoDigest, rest |-> rest])
        PROVE  /\ call'[c].op = call[c].op /\ call'[c].at = "index" /\ call'[c].key = k
               /\ call'[c].digest = NoDigest /\ call'[c].rest = rest
               /\ call'[c].there = call[c].there /\ call'[c].errors = call[c].errors
    BY <1>1, <2>1, GoesChanges, GoesSets
  <2>2. /\ call'[c].op = call[c].op /\ call'[c].at = "index" /\ call'[c].key = k
        /\ call'[c].digest = NoDigest /\ call'[c].rest = call[c].rest \ {r}
        /\ call'[c].there = call[c].there /\ call'[c].errors = call[c].errors
    BY <1>10, <2>1
  <2>3. DigestInv(c)'
    BY <1>1, <2>2 DEF DigestInv, Pulls
  <2>4. ThereInv(c)'
    <3>1. SUFFICES ASSUME call[c].there, k \notin SourceKeys
                   PROVE  /\ \E e \in Told(k), q \in StorageRemotes(c, FALSE) : Blobs(e) \subseteq storage[q]
                          /\ \/ call[c].errors
                             \/ \E q \in (call[c].rest \ {r}) \cap Index : index[q][k] # NoDigest
      BY <1>1, <2>2 DEF ThereInv, Pulls, Told, StorageRemotes
    <3>2. /\ \E e \in Told(k), q \in StorageRemotes(c, FALSE) : Blobs(e) \subseteq storage[q]
          /\ \/ call[c].digest # NoDigest \/ call[c].errors
             \/ \E q \in call[c].rest \cap Index : index[q][k] # NoDigest
      BY <1>1, <3>1 DEF ThereInv
    <3>3. call[c].digest = NoDigest
      BY <1>1, <1>2, <3>1 DEF DigestInv
    <3>4. QED
      BY <1>10, <3>2, <3>3
  <2>5. QED
    BY <1>5, <1>6, <2>2, <2>3, <2>4 DEF Finding, Finds
<1>11. CASE Goes(c, [errors |-> TRUE, rest |-> call[c].rest \ {r}])
  <2>1. ASSUME NEW rest, Goes(c, [errors |-> TRUE, rest |-> rest])
        PROVE  /\ call'[c].op = call[c].op /\ call'[c].at = "index" /\ call'[c].key = k
               /\ call'[c].digest = call[c].digest /\ call'[c].rest = rest
               /\ call'[c].there = call[c].there /\ call'[c].errors = TRUE
    BY <1>1, <2>1, GoesChanges, GoesSets
  <2>2. /\ call'[c].op = call[c].op /\ call'[c].at = "index" /\ call'[c].key = k
        /\ call'[c].digest = call[c].digest /\ call'[c].rest = call[c].rest \ {r}
        /\ call'[c].there = call[c].there /\ call'[c].errors = TRUE
    BY <1>11, <2>1
  <2>3. DigestInv(c)'
    BY <1>1, <2>2 DEF DigestInv, Pulls, Told
  <2>4. ThereInv(c)'
    BY <1>1, <2>2 DEF ThereInv, Pulls, Told, StorageRemotes
  <2>5. QED
    BY <1>5, <1>6, <2>2, <2>3, <2>4 DEF Finding, Finds
<1>12. QED
  BY <1>7, <1>8, <1>9, <1>10, <1>11

\* A storage that has the digest is among those that are left to ask.
LEMMA IndexAskedFinds ==
  ASSUME NEW c \in Clients, AllInv, SameKeySameArtifact, IndexAsked(c)
  PROVE  Finding(c)
<1> DEFINE d == call[c].digest
           parts == PartsToPull(call[c].key, d)
<1> USE DEF At, remoteVars, localVars
<1>1. /\ Domains /\ KeyInv(c) /\ IndexInv /\ ProtoInv(c) /\ DigestInv(c) /\ ThereInv(c)
      /\ Pulls(c) /\ call[c].op # "idle" /\ call[c].at = "index" /\ call[c].rest = {}
      /\ UNCHANGED <<index, storage, connected, refs>>
  BY DEF AllInv, LocalInv, ThereInvs, IndexAsked, Pulls
<1>2. ProtoInv(c)' /\ IndexInv' /\ Grows
  BY <1>1, RemotesAsTheyWere DEF ProtoInv
<1>3. \/ Ends(c, "error")
      \/ d = NoDigest /\ ~call[c].errors /\ Goes(c, [at |-> "absent"])
      \/ d # NoDigest /\ Goes(c, [at |-> "storage", rest |-> StorageRemotes(c, FALSE),
                                  errors |-> FALSE, parts |-> parts])
  BY DEF IndexAsked
<1>4. CASE Ends(c, "error")
  BY <1>1, <1>2, <1>4, EndsIdle, NoCall DEF Finding
<1>5. CASE d = NoDigest /\ ~call[c].errors /\ Goes(c, [at |-> "absent"])
  <2>1. call'[c].op = call[c].op /\ call'[c].at = "absent" /\ call'[c].key = call[c].key
    BY <1>1, <1>5, GoesChanges, GoesSets
  <2>2. DigestInv(c)' /\ ThereInv(c)'
    BY <1>1, <2>1 DEF DigestInv, ThereInv, Pulls
  <2>3. Finds(c)
    BY <1>1, <1>5, SourcesAreTold DEF Finds, ThereInv
  <2>4. QED
    BY <1>2, <2>2, <2>3 DEF Finding
<1>6. CASE d # NoDigest /\ Goes(c, [at |-> "storage", rest |-> StorageRemotes(c, FALSE),
                                    errors |-> FALSE, parts |-> parts])
  <2>1. ASSUME NEW rest, NEW ps,
               Goes(c, [at |-> "storage", rest |-> rest, errors |-> FALSE, parts |-> ps])
        PROVE  /\ call'[c].op = call[c].op /\ call'[c].at = "storage" /\ call'[c].key = call[c].key
               /\ call'[c].digest = d /\ call'[c].rest = rest /\ call'[c].there = call[c].there
    BY <1>1, <2>1, GoesChanges, GoesSets
  <2>2. /\ call'[c].op = call[c].op /\ call'[c].at = "storage" /\ call'[c].key = call[c].key
        /\ call'[c].digest = d /\ call'[c].rest = StorageRemotes(c, FALSE)
        /\ call'[c].there = call[c].there
    BY <1>6, <2>1
  <2>3. DigestInv(c)'
    BY <1>1, <2>2 DEF DigestInv, Pulls, Told
  <2>4. ThereInv(c)'
    <3>1. SUFFICES ASSUME call[c].there, call[c].key \notin SourceKeys
                   PROVE  \E r \in StorageRemotes(c, FALSE) \cap Storage : Blobs(d) \subseteq storage[r]
      BY <1>1, <2>2 DEF ThereInv, Pulls
    <3>2. PICK e \in Told(call[c].key), r \in StorageRemotes(c, FALSE) : Blobs(e) \subseteq storage[r]
      BY <1>1, <3>1 DEF ThereInv
    <3>3. d \in Told(call[c].key)
      BY <1>1, <1>6, <3>1 DEF DigestInv
    <3>4. d = e
      BY <3>2, <3>3, ToldIsOne
    <3>5. QED
      BY <3>2, <3>4 DEF StorageRemotes
  <2>5. QED
    BY <1>2, <2>2, <2>3, <2>4 DEF Finding, Finds
<1>7. QED
  BY <1>3, <1>4, <1>5, <1>6

\* A pull that begins knows what is there.
LEMMA BeginsToFind ==
  ASSUME NEW c \in Clients, AllInv, UNCHANGED <<index, storage, connected, refs>>,
         NEW op \in {"pull", "fetch"}, NEW cached,
         NEW k \in {StrictKey, WeakKey, Staged} \cup SourceKeys, Goes(c, PullOf(c, op, k, cached))
  PROVE  Finding(c)
<1>1. Domains /\ IndexInv /\ ProtoInv(c)
  BY DEF AllInv, LocalInv, ThereInvs
<1>2. ProtoInv(c)' /\ IndexInv' /\ Grows
  BY <1>1, RemotesAsTheyWere DEF ProtoInv
<1>3. /\ call'[c].op = op /\ call'[c].at = "index" /\ call'[c].key = k
      /\ call'[c].digest = NoDigest /\ call'[c].rest = IndexRemotes(c, FALSE)
      /\ call'[c].there = IsThere(c, k)
  <2>1. ASSUME NEW rest, NEW there,
               Goes(c, [op |-> op, at |-> "index", key |-> k, digest |-> NoDigest, rest |-> rest,
                        errors |-> FALSE, there |-> there, cached |-> cached])
        PROVE  /\ call'[c].op = op /\ call'[c].at = "index" /\ call'[c].key = k
               /\ call'[c].digest = NoDigest /\ call'[c].rest = rest /\ call'[c].there = there
    BY <1>1, <2>1, GoesChanges, GoesSets
  <2>2. QED
    BY <2>1 DEF PullOf
<1>4. DigestInv(c)'
  BY <1>3 DEF DigestInv, Pulls, IndexRemotes
<1>5. ThereInv(c)'
  <2>1. SUFFICES ASSUME IsThere(c, k), k \notin SourceKeys
                 PROVE  /\ \E d \in Told(k), r \in StorageRemotes(c, FALSE) : Blobs(d) \subseteq storage[r]
                        /\ \E r \in IndexRemotes(c, FALSE) \cap Index : index[r][k] # NoDigest
    BY <1>3 DEF ThereInv, Pulls, Told, StorageRemotes
  <2>2. PICK d \in Digests :
          /\ \E r \in IndexRemotes(c, FALSE) : index[r][k] = d
          /\ \E r \in StorageRemotes(c, FALSE) : Blobs(d) \subseteq storage[r]
    BY <2>1 DEF IsThere
  <2>3. d # NoDigest /\ k \in Keys
    BY CachesAssumption, Kinds
  <2>4. d \in Told(k)
    BY <1>1, <2>1, <2>2, <2>3 DEF IndexInv, IndexRemotes
  <2>5. QED
    BY <2>2, <2>3, <2>4 DEF IndexRemotes
<1>6. QED
  BY <1>2, <1>3, <1>4, <1>5 DEF Finding, Finds

\* A storage that lacks a part, or fails, is not the one that has the digest.
LEMMA NotFetchedFinds ==
  ASSUME NEW c \in Clients, AllInv, BlobNotFound(c) \/ FetchFails(c) \/ StorageAsked(c)
  PROVE  Finding(c)
<1> DEFINE d == call[c].digest
           k == call[c].key
           r == First(call[c].rest)
<1> USE DEF At, FetchingPart, remoteVars, localVars
<1>1. /\ Domains /\ KeyInv(c) /\ PartsInv(c)
      /\ IndexInv /\ ProtoInv(c) /\ DigestInv(c) /\ ThereInv(c)
      /\ Pulls(c) /\ call[c].op # "idle" /\ call[c].at = "storage"
      /\ UNCHANGED <<index, storage, connected, refs>>
  BY DEF AllInv, LocalInv, ThereInvs, BlobNotFound, FetchFails, StorageAsked, Pulls
<1>2. ProtoInv(c)' /\ IndexInv' /\ Grows
  BY <1>1, RemotesAsTheyWere DEF ProtoInv
<1>3. \/ Ends(c, "error")
      \/ ~PartIsThere(c) /\ Goes(c, TryNext(c, call[c].errors))
      \/ Goes(c, TryNext(c, TRUE))
      \/ call[c].rest = {} /\ ~call[c].errors /\ Goes(c, [at |-> "absent"])
  BY DEF BlobNotFound, FetchFails, StorageAsked
<1>4. CASE Ends(c, "error")
  BY <1>1, <1>2, <1>4, EndsIdle, NoCall DEF Finding
<1>5. ASSUME NEW errors, Goes(c, TryNext(c, errors))
      PROVE  /\ call'[c].op = call[c].op /\ call'[c].at = "storage" /\ call'[c].key = k
             /\ call'[c].digest = d /\ call'[c].rest = call[c].rest \ {r}
             /\ call'[c].errors = errors /\ call'[c].there = call[c].there
  <2>1. ASSUME NEW rest, NEW ps, Goes(c, [rest |-> rest, parts |-> ps, errors |-> errors])
        PROVE  /\ call'[c].op = call[c].op /\ call'[c].at = "storage" /\ call'[c].key = k
               /\ call'[c].digest = d /\ call'[c].rest = rest
               /\ call'[c].errors = errors /\ call'[c].there = call[c].there
    BY <1>1, <2>1, GoesChanges, GoesSets
  <2>2. QED
    BY <1>5, <2>1 DEF TryNext
<1>6. ASSUME NEW errors, Goes(c, TryNext(c, errors))
      PROVE  DigestInv(c)' /\ Finds(c)
  BY <1>1, <1>5, <1>6 DEF DigestInv, Pulls, Told, Finds
<1>7. CASE ~PartIsThere(c) /\ Goes(c, TryNext(c, call[c].errors))
  <2>1. SUFFICES ASSUME call[c].there, k \notin SourceKeys, ~call[c].errors
                 PROVE  \E q \in (call[c].rest \ {r}) \cap Storage : Blobs(d) \subseteq storage[q]
    BY <1>1, <1>2, <1>5, <1>6, <1>7 DEF Finding, ThereInv, Pulls
  <2>2. PICK q \in call[c].rest \cap Storage : Blobs(d) \subseteq storage[q]
    BY <1>1, <2>1 DEF ThereInv
  <2>3. d \in Told(k) /\ k \in {StrictKey, WeakKey, Staged}
    BY <1>1, <2>1 DEF DigestInv, PartsInv, KeyInv, Pulls
  <2>4. Blob(d, Head(call[c].parts)) \in Blobs(d)
    <3>1. PICK n \in 0..(Len(Order(c)) - 1) : Left(c, n)
      BY <1>1 DEF PartsInv
    <3>2. Order(c) \in Seq(PartNames) /\ Len(Order(c)) \in Nat \ {0}
      BY OrderOfParts DEF Order
    <3>3. Head(call[c].parts) = Order(c)[n + 1] /\ n + 1 \in 1..Len(Order(c))
      BY <3>1, <3>2 DEF Left
    <3>4. QED
      BY <2>3, <3>3, PartsAreBlobs DEF Order
  <2>5. q # r
    BY <1>7, <2>2, <2>4 DEF PartIsThere
  <2>6. QED
    BY <2>2, <2>5
<1>8. CASE Goes(c, TryNext(c, TRUE))
  BY <1>1, <1>2, <1>5, <1>6, <1>8 DEF Finding, ThereInv, Pulls
<1>9. CASE call[c].rest = {} /\ ~call[c].errors /\ Goes(c, [at |-> "absent"])
  <2>1. call'[c].op = call[c].op /\ call'[c].at = "absent" /\ call'[c].key = k
    BY <1>1, <1>9, GoesChanges, GoesSets
  <2>2. DigestInv(c)' /\ ThereInv(c)'
    BY <1>1, <2>1 DEF DigestInv, ThereInv, Pulls
  <2>3. Finds(c)
    BY <1>1, <1>9, SourcesAreTold DEF Finds, ThereInv
  <2>4. QED
    BY <1>2, <2>2, <2>3 DEF Finding
<1>10. QED
  BY <1>3, <1>4, <1>7, <1>8, <1>9

\* The digest that a key refers to is one that it was told.
LEMMA FetchPartFinds ==
  ASSUME NEW c \in Clients, AllInv, FetchPart(c)
  PROVE  Finding(c)
<1> DEFINE d == call[c].digest
           k == call[c].key
<1> USE DEF At, FetchingPart, remoteVars
<1>1. /\ Domains /\ LocalDomains /\ KeyInv(c) /\ PartsInv(c)
      /\ IndexInv /\ ProtoInv(c) /\ DigestInv(c) /\ ThereInv(c)
      /\ Pulls(c) /\ call[c].op # "idle" /\ call[c].at = "storage"
      /\ UNCHANGED <<index, storage, connected>>
  BY DEF AllInv, LocalInv, ThereInvs, FetchPart, Pulls
<1>2. IndexInv' /\ Grows
  BY <1>1, RemotesAsTheyWere
<1>3. k \notin SourceKeys => d \in Told(k)
  BY <1>1 DEF DigestInv, PartsInv
<1>4. k \in Keys
  BY <1>1, Kinds DEF KeyInv, Pulls
<1>5. \A l \in Keys : refs'[c][l] = refs[c][l] \/ (l = k /\ refs'[c][l] = d)
  BY <1>1, <1>4 DEF FetchPart, LocalDomains
<1>6. ProtoInv(c)'
  <2>1. refs'[c][Staged] \in {Staged, NoDigest}
    <3>1. k = Staged => d = Staged
      BY <1>3, Kinds, CachesAssumption DEF Told
    <3>2. QED
      BY <1>1, <1>5, <3>1, Kinds DEF ProtoInv
  <2>2. ASSUME "push" \in Ops[c], NEW l \in {StrictKey, WeakKey}
        PROVE  refs'[c][l] \in Pushed \cup {NoDigest}
    <3>1. l = k => d \in Pushed
      BY <1>3, <2>2, Kinds DEF Told
    <3>2. l \in Keys
      BY Kinds
    <3>3. QED
      BY <1>1, <1>5, <2>2, <3>1, <3>2 DEF ProtoInv
  <2>3. QED
    BY <2>1, <2>2 DEF ProtoInv
<1>7. /\ call'[c].op = call[c].op /\ call'[c].at \in {"pulled", "storage"} /\ call'[c].key = k
      /\ call'[c].digest = d /\ call'[c].rest = call[c].rest
      /\ call'[c].errors = call[c].errors /\ call'[c].there = call[c].there
  <2>1. CASE Goes(c, [at |-> "pulled"])
    BY <1>1, <2>1, GoesChanges, GoesSets
  <2>2. ASSUME NEW ps, Goes(c, [parts |-> ps])
        PROVE  /\ call'[c].op = call[c].op /\ call'[c].at = "storage" /\ call'[c].key = k
               /\ call'[c].digest = d /\ call'[c].rest = call[c].rest
               /\ call'[c].errors = call[c].errors /\ call'[c].there = call[c].there
    BY <1>1, <2>2, GoesChanges, GoesSets
  <2>3. Goes(c, [at |-> "pulled"]) \/ \E ps : Goes(c, [parts |-> ps])
    BY DEF FetchPart
  <2>4. QED
    BY <2>1, <2>2, <2>3
<1>8. DigestInv(c)'
  BY <1>1, <1>7 DEF DigestInv, Pulls, Told
<1>9. ThereInv(c)'
  BY <1>1, <1>7 DEF ThereInv, Pulls
<1>10. QED
  BY <1>2, <1>6, <1>7, <1>8, <1>9 DEF Finding, Finds

\* A pull or a fetch that is not at a remote.
LEMMA NotAtRemotes ==
  ASSUME NEW c \in Clients, AllInv, UNCHANGED <<index, storage, connected>>, ProtoInv(c)',
         call[c].at \in {"index", "storage"} => call'[c].at # "absent",
         \/ call'[c].op = "idle"
         \/ call'[c].op \in {"pull", "fetch"} /\ call'[c].at \in {"absent", "source"}
  PROVE  Finding(c)
<1>1. IndexInv' /\ Grows
  BY RemotesAsTheyWere DEF AllInv, ThereInvs
<1>2. DigestInv(c)' /\ ThereInv(c)' /\ Finds(c)
  BY DEF DigestInv, ThereInv, Finds, Pulls
<1>3. QED
  BY <1>1, <1>2 DEF Finding

\* The other steps of pulls and fetches.
LEMMA OtherPullsFind ==
  ASSUME NEW c \in Clients, AllInv,
         \/ ArtifactPulled(c) \/ ArtifactAbsent(c) \/ StagedPulled(c) \/ NextSource(c)
         \/ FetchSource(c) \/ FetchOriginal(c) \/ StageAndCache(c)
  PROVE  Finding(c)
<1> USE DEF At, remoteVars, localVars
<1>1. /\ Domains /\ LocalDomains /\ KeyInv(c) /\ PartsInv(c)
      /\ IndexInv /\ ProtoInv(c) /\ DigestInv(c)
      /\ UNCHANGED <<index, storage, connected>>
  BY DEF AllInv, LocalInv, ThereInvs, ArtifactPulled, ArtifactAbsent, StagedPulled, NextSource,
         FetchSource, FetchOriginal, StageAndCache
<1>2. call[c].op \in {"pull", "fetch"} /\ call[c].at \notin {"index", "storage"}
  BY DEF ArtifactPulled, ArtifactAbsent, StagedPulled, NextSource, FetchSource, FetchOriginal,
         StageAndCache
<1>3. refs' = refs => ProtoInv(c)'
  BY <1>1 DEF ProtoInv
<1>4. CASE ArtifactPulled(c)
  <2>1. call[c].digest \in Pushed /\ call[c].op = "pull"
    BY <1>1, <1>4, Kinds DEF ArtifactPulled, DigestInv, PartsInv, KeyInv, Pulls, Told
  <2>2. /\ \A l \in Keys : \/ refs'[c][l] = refs[c][l]
                           \/ l # Staged /\ refs'[c][l] = call[c].digest
    <3>1. refs'[c] = [l \in Keys |->
            IF l \in {Strong[call[c].digest], Strict[call[c].digest], Weak[call[c].digest]}
            THEN call[c].digest ELSE refs[c][l]]
      BY <1>1, <1>4 DEF ArtifactPulled, LocalDomains
    <3>2. Staged \notin {Strong[call[c].digest], Strict[call[c].digest], Weak[call[c].digest]}
      BY <2>1, SourcesAreTold, CachesAssumption
    <3>3. QED
      BY <3>1, <3>2
  <2>3. ProtoInv(c)'
    BY <1>1, <2>1, <2>2, Kinds DEF ProtoInv
  <2>4. call'[c].op = "idle"
    BY <1>1, <1>4, EndsCall DEF ArtifactPulled
  <2>5. QED
    BY <1>1, <1>2, <2>3, <2>4, NotAtRemotes
<1>5. CASE ArtifactAbsent(c)
  <2>1. refs' = refs /\ (Goes(c, PullOf(c, "pull", WeakKey, FALSE)) \/ Ends(c, "absent"))
    BY <1>5 DEF ArtifactAbsent
  <2>2. CASE Goes(c, PullOf(c, "pull", WeakKey, FALSE))
    BY <1>1, <1>2, <2>1, <2>2, BeginsToFind
  <2>3. CASE Ends(c, "absent")
    BY <1>1, <1>2, <1>3, <2>1, <2>3, EndsCall, NotAtRemotes
  <2>4. QED
    BY <2>1, <2>2, <2>3
<1>6. CASE StagedPulled(c)
  BY <1>1, <1>2, <1>3, <1>6, EndsCall, NotAtRemotes DEF StagedPulled
<1>7. CASE NextSource(c)
  <2>1. call[c].op = "fetch" /\ refs' = refs /\ Goes(c, [at |-> "source", source |-> call[c].source + 1])
    BY <1>7 DEF NextSource
  <2>2. call'[c].op = "fetch" /\ call'[c].at = "source"
    BY <1>1, <2>1, GoesChanges
  <2>3. QED
    BY <1>1, <1>2, <1>3, <2>1, <2>2, NotAtRemotes
<1>8. CASE FetchSource(c)
  <2>1. /\ call[c].op = "fetch" /\ call[c].at = "source" /\ SourceAt(c) \in SourceKeys
    BY <1>8 DEF FetchSource, SourceKeys, SourceAt
  <2>2. \/ /\ Goes(c, [source |-> call[c].source + 1])
           /\ \/ refs' = refs
              \/ refs' = [refs EXCEPT ![c][SourceAt(c)] = SourceAt(c)]
        \/ Goes(c, PullOf(c, "fetch", SourceAt(c), FALSE)) /\ refs' = refs
        \/ Goes(c, [at |-> "absent", key |-> SourceAt(c)]) /\ refs' = refs
    BY <1>8 DEF FetchSource
  <2>3. ProtoInv(c)'
    <3>1. ASSUME NEW s \in SourceKeys, refs' = [refs EXCEPT ![c][s] = s]
          PROVE  \A l \in {StrictKey, WeakKey, Staged} : refs'[c][l] = refs[c][l]
      <4>1. refs'[c] = [refs[c] EXCEPT ![s] = s]
        BY <1>1, <3>1 DEF LocalDomains
      <4>2. \A l \in {StrictKey, WeakKey, Staged} : l \in Keys /\ l # s
        BY Kinds
      <4>3. QED
        BY <1>1, <4>1, <4>2 DEF LocalDomains
    <3>2. QED
      BY <1>1, <2>1, <2>2, <3>1 DEF ProtoInv
  <2>4. CASE Goes(c, [source |-> call[c].source + 1])
    <3>1. call'[c].op = "fetch" /\ call'[c].at = "source"
      BY <1>1, <2>1, <2>4, GoesChanges
    <3>2. QED
      BY <1>1, <1>2, <2>3, <3>1, NotAtRemotes
  <2>5. CASE Goes(c, PullOf(c, "fetch", SourceAt(c), FALSE)) /\ refs' = refs
    BY <1>1, <1>2, <2>1, <2>5, BeginsToFind
  <2>6. CASE Goes(c, [at |-> "absent", key |-> SourceAt(c)])
    <3>1. call'[c].op = "fetch" /\ call'[c].at = "absent"
      BY <1>1, <2>1, <2>6, GoesChanges
    <3>2. QED
      BY <1>1, <1>2, <2>3, <3>1, NotAtRemotes
  <2>7. QED
    BY <2>2, <2>4, <2>5, <2>6
<1>9. CASE FetchOriginal(c)
  <2>1. call[c].op = "fetch" /\ refs' = refs /\ (Ends(c, "error") \/ Goes(c, [at |-> "source"]))
    BY <1>9 DEF FetchOriginal
  <2>2. call'[c].op = "idle" \/ (call'[c].op = "fetch" /\ call'[c].at = "source")
    BY <1>1, <2>1, GoesChanges, EndsCall
  <2>3. QED
    BY <1>1, <1>2, <1>3, <2>1, <2>2, NotAtRemotes
<1>10. CASE StageAndCache(c)
  <2>1. refs' = [refs EXCEPT ![c][Staged] = Staged] /\ call'[c].op = "idle"
    BY <1>1, <1>10, EndsCall DEF StageAndCache
  <2>2. refs'[c][Staged] = Staged /\ \A l \in {StrictKey, WeakKey} : refs'[c][l] = refs[c][l]
    BY <1>1, <2>1, Kinds DEF LocalDomains
  <2>3. ProtoInv(c)'
    BY <1>1, <2>2 DEF ProtoInv
  <2>4. QED
    BY <1>1, <1>2, <2>1, <2>3, NotAtRemotes
<1>11. QED
  BY <1>4, <1>5, <1>6, <1>7, <1>8, <1>9, <1>10

\* A command begins.
LEMMA StartFinds ==
  ASSUME NEW c \in Clients, AllInv, Start(c)
  PROVE  Finding(c)
<1> USE DEF Starts, remoteVars, localVars
<1>1. /\ Domains /\ LocalDomains /\ IndexInv /\ ProtoInv(c)
      /\ UNCHANGED <<index, storage, connected>> /\ call[c].op = "idle"
  BY DEF AllInv, LocalInv, ThereInvs, Start, BuildArtifact, StartPull, StartPush, StartFetch,
         StartSourcePush
<1>2. refs' = refs => ProtoInv(c)'
  BY <1>1 DEF ProtoInv
<1>3. IndexInv' /\ Grows
  BY <1>1, RemotesAsTheyWere
<1>4. CASE BuildArtifact(c)
  <2>1. PICK a \in Builds[c] :
          refs' = [refs EXCEPT ![c] = [k \in Keys |->
                     IF k \in {Strong[a], Weak[a]} THEN a ELSE @[k]]]
    BY <1>4 DEF BuildArtifact
  <2>2. call' = call /\ a \in Artifacts
    BY <1>4, CachesAssumption DEF BuildArtifact
  <2>3. refs'[c] = [k \in Keys |-> IF k \in {Strong[a], Weak[a]} THEN a ELSE refs[c][k]]
    BY <1>1, <2>1 DEF LocalDomains
  <2>4. refs'[c][Staged] = refs[c][Staged]
    BY <2>2, <2>3, Kinds, CachesAssumption
  <2>5. ASSUME "push" \in Ops[c]
        PROVE  \A k \in {StrictKey, WeakKey} : refs'[c][k] \in Pushed \cup {NoDigest}
    <3>1. a \in Pushed
      BY <2>5 DEF Pushed
    <3>2. QED
      BY <1>1, <2>3, <2>5, <3>1, Kinds DEF ProtoInv
  <2>6. ProtoInv(c)'
    BY <1>1, <2>4, <2>5 DEF ProtoInv
  <2>7. QED
    BY <1>1, <2>2, <2>6, NotAtRemotes
<1>5. CASE StartPull(c)
  <2>1. refs' = refs /\ \E cached : Goes(c, PullOf(c, "pull", StrictKey, cached))
    BY <1>5 DEF StartPull
  <2>2. QED
    BY <1>1, <2>1, BeginsToFind
<1>6. CASE StartPush(c)
  <2>1. /\ Goes(c, [op |-> "push", at |-> "storage", key |-> LoadedKey(c),
                    digest |-> refs[c][LoadedKey(c)], rest |-> StorageRemotes(c, TRUE)])
        /\ refs' = refs /\ "push" \in Ops[c] /\ Cached(c, LoadedKey(c))
    BY <1>6 DEF StartPush
  <2>2. ASSUME NEW k, NEW d, NEW rest,
               Goes(c, [op |-> "push", at |-> "storage", key |-> k, digest |-> d, rest |-> rest])
        PROVE  call'[c].op = "push" /\ call'[c].at = "storage" /\ call'[c].key = k /\ call'[c].digest = d
    BY <1>1, <2>2, GoesChanges, GoesSets
  <2>3. /\ call'[c].op = "push" /\ call'[c].at = "storage" /\ call'[c].key = LoadedKey(c)
        /\ call'[c].digest = refs[c][LoadedKey(c)]
    BY <2>1, <2>2
  <2>4. LoadedKey(c) \in {StrictKey, WeakKey}
    BY DEF LoadedKey
  <2>5. refs[c][LoadedKey(c)] \in Pushed
    BY <1>1, <2>1, <2>4 DEF ProtoInv, Cached
  <2>6. DigestInv(c)' /\ ThereInv(c)' /\ Finds(c)
    BY <2>3, <2>4, <2>5 DEF DigestInv, ThereInv, Finds, Pulls
  <2>7. QED
    BY <1>2, <1>3, <2>1, <2>6 DEF Finding
<1>7. CASE StartFetch(c)
  <2>1. refs' = refs
    BY <1>7 DEF StartFetch
  <2>2. \/ Goes(c, PullOf(c, "fetch", Staged, FALSE))
        \/ Goes(c, [op |-> "fetch", at |-> "source", source |-> 1])
    BY <1>7 DEF StartFetch
  <2>3. CASE Goes(c, PullOf(c, "fetch", Staged, FALSE))
    BY <1>1, <2>1, <2>3, BeginsToFind
  <2>4. CASE Goes(c, [op |-> "fetch", at |-> "source", source |-> 1])
    <3>1. call'[c].op = "fetch" /\ call'[c].at = "source"
      BY <1>1, <2>4, GoesChanges
    <3>2. QED
      BY <1>1, <1>2, <2>1, <3>1, NotAtRemotes
  <2>5. QED
    BY <2>2, <2>3, <2>4
<1>8. CASE StartSourcePush(c)
  <2>1. /\ Goes(c, [op |-> "pushsources", at |-> "source", source |-> 1])
        /\ refs' = refs /\ SourcesCached(c, Staged)
    BY <1>8 DEF StartSourcePush
  <2>2. call'[c].op = "pushsources" /\ call'[c].at = "source" /\ call'[c].source = 1
    BY <1>1, <2>1, GoesChanges, GoesSets
  <2>3. refs'[c][Staged] = Staged
    BY <1>1, <2>1 DEF SourcesCached, ProtoInv
  <2>4. 1 \in 1..(Len(Sources) + 1)
    BY CachesAssumption
  <2>5. DigestInv(c)' /\ ThereInv(c)' /\ Finds(c)
    BY <2>2, <2>3, <2>4 DEF DigestInv, ThereInv, Finds, Pulls
  <2>6. QED
    BY <1>2, <1>3, <2>1, <2>5 DEF Finding
<1>9. QED
  BY <1>4, <1>5, <1>6, <1>7, <1>8 DEF Start

\* What goes to the remotes is never taken back, and an index is told what belongs to the key.
LEMMA PushKeepsTold ==
  ASSUME NEW c \in Clients, AllInv, PushBlobs(c) \/ BlobsPushed(c) \/ PushProto(c)
  PROVE  Finding(c)
<1> DEFINE d == call[c].digest
           k == call[c].key
           r == First(call[c].rest)
           entries == [l \in Keys |-> IF l \in PushKeys(c) THEN d ELSE index[r][l]]
<1> USE DEF At, remoteVars, localVars
<1>1. /\ Domains /\ IndexInv /\ ProtoInv(c) /\ DigestInv(c)
      /\ call[c].op \in {"push", "pushsources"} /\ call[c].at \in {"storage", "index"}
      /\ UNCHANGED <<connected, refs>>
  BY DEF AllInv, LocalInv, ThereInvs, PushBlobs, BlobsPushed, PushProto
<1>2. ProtoInv(c)'
  BY <1>1 DEF ProtoInv
<1>3. \A l \in PushKeys(c) \ SourceKeys : d \in Told(l) /\ d # NoDigest
  <2>1. CASE call[c].op = "push"
    <3>1. PushKeys(c) = {Strong[d], Weak[d]} /\ d \in Pushed
      BY <1>1, <2>1, Kinds DEF DigestInv, PushKeys
    <3>2. QED
      BY <3>1, SourcesAreTold DEF Told
  <2>2. CASE call[c].op = "pushsources"
    <3>1. PushKeys(c) = {k} /\ (k \in SourceKeys \/ (k = Staged /\ d = Staged))
      BY <1>1, <2>2, Kinds DEF DigestInv, PushKeys
    <3>2. QED
      BY <3>1, Kinds DEF Told
  <2>3. QED
    BY <1>1, <2>1, <2>2
<1>4. index' = index \/ index' = [index EXCEPT ![r] = entries]
  BY DEF PushBlobs, BlobsPushed, PushProto
<1>5. ASSUME NEW i \in Index
      PROVE  index'[i] = index[i] \/ (i = r /\ index'[i] = entries)
  BY <1>1, <1>4 DEF Domains
<1>6. IndexInv' /\ \A i \in Index, l \in Keys \ SourceKeys : index[i][l] # NoDigest => index'[i][l] # NoDigest
  <2>1. ASSUME NEW i \in Index
        PROVE  /\ DOMAIN index'[i] = Keys
               /\ \A l \in Keys \ SourceKeys :
                    /\ index'[i][l] \in Told(l) \cup {NoDigest}
                    /\ index[i][l] # NoDigest => index'[i][l] # NoDigest
    <3>1. CASE index'[i] = index[i]
      BY <1>1, <3>1 DEF IndexInv
    <3>2. CASE i = r /\ index'[i] = entries
      <4>1. DOMAIN entries = Keys
        OBVIOUS
      <4>2. ASSUME NEW l \in Keys \ SourceKeys
            PROVE  /\ entries[l] \in Told(l) \cup {NoDigest}
                   /\ index[i][l] # NoDigest => entries[l] # NoDigest
        BY <1>1, <1>3, <3>2, <4>2 DEF IndexInv
      <4>3. QED
        BY <3>2, <4>1, <4>2
    <3>3. QED
      BY <1>5, <3>1, <3>2
  <2>2. QED
    BY <2>1 DEF IndexInv, Told
<1>7. \A s \in Storage : storage[s] \subseteq storage'[s]
  <2>1. storage' = storage \/ \E new : storage' = [storage EXCEPT ![r] = @ \cup new]
    BY DEF PushBlobs, BlobsPushed, PushProto
  <2>2. QED
    BY <1>1, <2>1 DEF Domains
<1>8. \/ Ends(c, "error")
      \/ \E rest, missed : Goes(c, [rest |-> rest]) \/ Goes(c, [rest |-> rest, missed |-> missed])
      \/ \E rest : Goes(c, [at |-> "index", rest |-> rest])
  BY DEF PushBlobs, BlobsPushed, PushProto
<1>9. \/ call'[c].op = "idle" /\ call'[c].at = "idle"
      \/ /\ call'[c].op = call[c].op /\ call'[c].at \in {"storage", "index"} /\ call'[c].key = k
         /\ call'[c].digest = d /\ call'[c].source = call[c].source
  <2>1. ASSUME NEW rest, NEW missed,
               Goes(c, [rest |-> rest]) \/ Goes(c, [rest |-> rest, missed |-> missed])
        PROVE  /\ call'[c].op = call[c].op /\ call'[c].at = call[c].at /\ call'[c].key = k
               /\ call'[c].digest = d /\ call'[c].source = call[c].source
    BY <1>1, <2>1, GoesChanges, GoesSets
  <2>2. ASSUME NEW rest, Goes(c, [at |-> "index", rest |-> rest])
        PROVE  /\ call'[c].op = call[c].op /\ call'[c].at = "index" /\ call'[c].key = k
               /\ call'[c].digest = d /\ call'[c].source = call[c].source
    BY <1>1, <2>2, GoesChanges, GoesSets
  <2>3. QED
    BY <1>1, <1>8, <2>1, <2>2, EndsIdle
<1>10. DigestInv(c)' /\ ThereInv(c)' /\ Finds(c)
  BY <1>1, <1>9 DEF DigestInv, ThereInv, Finds, Pulls
<1>11. QED
  BY <1>1, <1>2, <1>6, <1>7, <1>10 DEF Finding, Grows

\* The steps of a push that are not at a remote.
LEMMA PushStepsFind ==
  ASSUME NEW c \in Clients, AllInv, ArtifactPushed(c) \/ PushNextSource(c) \/ SourcePushed(c)
  PROVE  Finding(c)
<1> DEFINE i == call[c].source
<1> USE DEF At, remoteVars, localVars
<1>1. /\ Domains /\ IndexInv /\ ProtoInv(c) /\ DigestInv(c)
      /\ UNCHANGED <<index, storage, connected, refs>>
  BY DEF AllInv, LocalInv, ThereInvs, ArtifactPushed, PushNextSource, SourcePushed
<1>2. ProtoInv(c)' /\ IndexInv' /\ Grows
  BY <1>1, RemotesAsTheyWere DEF ProtoInv
<1>3. CASE ArtifactPushed(c)
  BY <1>1, <1>2, <1>3, EndsIdle, NoCall DEF ArtifactPushed, Finding
<1>4. CASE \/ /\ call[c].op = "pushsources" /\ i # Len(Sources) + 1
              /\ Goes(c, [at |-> "source", source |-> i + 1])
           \/ /\ call[c].op = "pushsources" /\ i # Len(Sources) + 1 /\ call[c].at = "source"
              /\ Goes(c, [source |-> i + 1])
  <2>1. ASSUME NEW n,
               \/ Goes(c, [at |-> "source", source |-> n])
               \/ call[c].at = "source" /\ Goes(c, [source |-> n])
        PROVE  call'[c].op = call[c].op /\ call'[c].at = "source" /\ call'[c].source = n
    BY <1>1, <2>1, GoesChanges, GoesSets
  <2>2. call'[c].op = "pushsources" /\ call'[c].at = "source" /\ call'[c].source = i + 1
    BY <1>4, <2>1
  <2>3. i + 1 \in 1..(Len(Sources) + 1) /\ refs'[c][Staged] = Staged
    BY <1>1, <1>4, CachesAssumption DEF DigestInv
  <2>4. DigestInv(c)' /\ ThereInv(c)' /\ Finds(c)
    BY <2>2, <2>3 DEF DigestInv, ThereInv, Finds, Pulls
  <2>5. QED
    BY <1>2, <2>4 DEF Finding
<1>5. CASE PushNextSource(c)
  <2>1. call[c].op = "pushsources" /\ call[c].at = "source" /\ i \in 1..(Len(Sources) + 1)
    BY <1>1, <1>5 DEF PushNextSource, DigestInv
  <2>2. ASSUME NEW item, NEW rest,
               Goes(c, [at |-> "storage", key |-> item, digest |-> refs[c][item], rest |-> rest,
                        missed |-> {}]),
               \/ item \in SourceKeys /\ i # Len(Sources) + 1
               \/ item = Staged
        PROVE  Finding(c)
    <3>1. ASSUME NEW d, Goes(c, [at |-> "storage", key |-> item, digest |-> d, rest |-> rest,
                                 missed |-> {}])
          PROVE  /\ call'[c].op = call[c].op /\ call'[c].at = "storage" /\ call'[c].key = item
                 /\ call'[c].digest = d /\ call'[c].source = i
      BY <1>1, <3>1, GoesChanges, GoesSets
    <3>2. /\ call'[c].op = call[c].op /\ call'[c].at = "storage" /\ call'[c].key = item
          /\ call'[c].digest = refs[c][item] /\ call'[c].source = i
      BY <2>2, <3>1
    <3>3. DigestInv(c)' /\ ThereInv(c)' /\ Finds(c)
      BY <1>1, <2>1, <2>2, <3>2 DEF DigestInv, ThereInv, Finds, Pulls
    <3>4. QED
      BY <1>2, <3>3 DEF Finding
  <2>3. CASE i = Len(Sources) + 1
    <3>1. Goes(c, [at |-> "storage", key |-> Staged, digest |-> refs[c][Staged],
                   rest |-> StorageRemotes(c, TRUE), missed |-> {}])
      BY <1>5, <2>3 DEF PushNextSource
    <3>2. QED
      BY <2>2, <3>1
  <2>4. CASE i # Len(Sources) + 1
    <3>1. i \in DOMAIN Sources
      BY <2>1, <2>4, CachesAssumption
    <3>2. SourceAt(c) \in SourceKeys /\ SourceAt(c) # Staged
      BY <3>1, Kinds DEF SourceAt, SourceKeys
    <3>3. \/ Goes(c, [source |-> i + 1])
          \/ Goes(c, [at |-> "storage", key |-> SourceAt(c), digest |-> refs[c][SourceAt(c)],
                      rest |-> StorageRemotes(c, TRUE), missed |-> {}])
      BY <1>5, <2>4, <3>2 DEF PushNextSource
    <3>4. QED
      BY <1>4, <2>1, <2>2, <2>4, <3>2, <3>3
  <2>5. QED
    BY <2>3, <2>4
<1>6. CASE SourcePushed(c)
  <2>1. /\ call[c].op = "pushsources" /\ call[c].at = "index"
        /\ \/ Ends(c, "pushed")
           \/ call[c].key # Staged /\ Goes(c, [at |-> "source", source |-> i + 1])
    BY <1>6 DEF SourcePushed
  <2>2. call[c].key # Staged => i # Len(Sources) + 1
    BY <1>1, <2>1 DEF DigestInv
  <2>3. CASE Ends(c, "pushed")
    BY <1>1, <1>2, <2>3, EndsIdle, NoCall DEF Finding
  <2>4. QED
    BY <1>4, <2>1, <2>2, <2>3
<1>7. QED
  BY <1>3, <1>5, <1>6

LEMMA StepFinds ==
  ASSUME NEW c \in Clients, AllInv, SameKeySameArtifact,
         \/ Start(c) \/ Pulling(c) \/ Pushing(c)
         \/ ArtifactStep(c) \/ SourceStep(c) \/ Expire(c)
  PROVE  Finding(c)
<1>1. CASE Pulling(c)
  BY <1>1, AskIndexFinds, IndexAskedFinds, FetchPartFinds, NotFetchedFinds DEF Pulling
<1>2. CASE Pushing(c)
  BY <1>2, PushKeepsTold DEF Pushing
<1>3. CASE ArtifactStep(c)
  BY <1>3, OtherPullsFind, PushStepsFind DEF ArtifactStep
<1>4. CASE SourceStep(c)
  BY <1>4, OtherPullsFind, PushStepsFind DEF SourceStep
<1>5. CASE Expire(c)
  <2>1. /\ UNCHANGED <<index, storage, connected, refs, call>>
        /\ IndexInv /\ ProtoInv(c) /\ DigestInv(c) /\ ThereInv(c)
    BY <1>5 DEF Expire, remoteVars, AllInv, ThereInvs
  <2>2. ProtoInv(c)' /\ DigestInv(c)' /\ ThereInv(c)' /\ Finds(c)
    BY <2>1 DEF ProtoInv, DigestInv, ThereInv, Finds, Pulls, Told, StorageRemotes
  <2>3. QED
    BY <2>1, <2>2, RemotesAsTheyWere DEF Finding
<1>6. QED
  BY <1>1, <1>2, <1>3, <1>4, <1>5, StartFinds

LEMMA ThereInvsInit == Init => ThereInvs
<1>1. SUFFICES ASSUME Init PROVE ThereInvs
  OBVIOUS
<1>2. IndexInv
  BY <1>1 DEF Init, IndexInv
<1>3. \A c \in Clients : ProtoInv(c)
  BY <1>1, Kinds DEF Init, ProtoInv
<1>4. \A c \in Clients : DigestInv(c) /\ ThereInv(c)
  BY <1>1 DEF Init, DigestInv, ThereInv, Pulls, Idle
<1>5. QED
  BY <1>2, <1>3, <1>4 DEF ThereInvs

LEMMA ThereInvsStep ==
  ASSUME AllInv, SameKeySameArtifact, [Next]_vars
  PROVE  AllInv' /\ \A c \in Clients : Finds(c)
<1>1. Inv' /\ LocalInv'
  BY InvStep, LocalInvStep DEF AllInv
<1>2. CASE UNCHANGED vars
  <2>1. IndexInv' /\ \A c \in Clients : ProtoInv(c)' /\ DigestInv(c)' /\ ThereInv(c)'
    BY <1>2 DEF vars, remoteVars, localVars, AllInv, ThereInvs, IndexInv, ProtoInv, DigestInv, ThereInv,
                Pulls, Told, StorageRemotes
  <2>2. \A c \in Clients : Finds(c)
    BY <1>2 DEF vars, Finds
  <2>3. QED
    BY <1>1, <2>1, <2>2 DEF AllInv, ThereInvs
<1>3. ASSUME NEW c \in Clients, Finding(c), Alone(c)
      PROVE  AllInv' /\ \A e \in Clients : Finds(e)
  <2>1. ASSUME NEW e \in Clients \ {c}
        PROVE  ProtoInv(e)' /\ DigestInv(e)' /\ ThereInv(e)' /\ Finds(e)
    <3>1. call'[e] = call[e] /\ refs'[e] = refs[e] /\ Grows
      BY <1>3, <2>1 DEF Alone, Finding
    <3>2. ProtoInv(e) /\ DigestInv(e) /\ ThereInv(e) /\ KeyInv(e)
      BY <2>1 DEF AllInv, ThereInvs, LocalInv
    <3>3. ProtoInv(e)' /\ DigestInv(e)' /\ Finds(e)
      BY <3>1, <3>2 DEF ProtoInv, DigestInv, Finds, Pulls, Told
    <3>4. ThereInv(e)'
      <4>1. SUFFICES ASSUME Pulls(e), call[e].there, call[e].key \notin SourceKeys,
                            call[e].at \in {"index", "storage"}
                     PROVE  ThereInv(e)'
        BY <3>1 DEF ThereInv, Pulls
      <4>2. call[e].key \in Keys
        BY <3>2, <4>1, Kinds DEF KeyInv, Pulls
      <4>3. StorageRemotes(e, FALSE)' = StorageRemotes(e, FALSE) /\ StorageRemotes(e, FALSE) \subseteq Storage
        BY <3>1 DEF Grows, StorageRemotes
      <4>4. CASE call[e].at = "index"
        BY <3>1, <3>2, <4>1, <4>2, <4>3, <4>4 DEF Grows, ThereInv, Told
      <4>5. CASE call[e].at = "storage"
        BY <3>1, <3>2, <4>1, <4>5 DEF Grows, ThereInv
      <4>6. QED
        BY <4>1, <4>4, <4>5
    <3>5. QED
      BY <3>3, <3>4
  <2>2. QED
    BY <1>1, <1>3, <2>1 DEF AllInv, ThereInvs, Finding
<1>4. ASSUME NEW c \in Clients,
             \/ Start(c) \/ Pulling(c) \/ Pushing(c)
             \/ ArtifactStep(c) \/ SourceStep(c) \/ Expire(c)
      PROVE  Finding(c) /\ Alone(c)
  BY <1>4, StepFinds, StepSafe DEF AllInv, Safe
<1>5. QED
  BY <1>2, <1>3, <1>4 DEF Next

\* If builds are reproducible, a pull of an artifact or of staged sources that reports that they are
\* not available tells the truth, whatever other clients push meanwhile and whichever remotes fail
\* or have only a part (ArtifactCache.pull, ElementSourcesCache.pull).
THEOREM AbsenceIsTrue ==
  ASSUME SameKeySameArtifact
  PROVE  Spec => PullFindsWhatIsThere
<1>1. AllInv /\ [Next]_vars => AllInv'
  BY ThereInvsStep
<1>2. AllInv /\ [Next]_vars => [\A c \in Clients : Finds(c)]_vars
  BY ThereInvsStep
<1>3. Init => AllInv
  BY InvInit, LocalInvInit, ThereInvsInit DEF AllInv
<1>4. Spec => [][\A c \in Clients : Finds(c)]_vars
  BY <1>1, <1>2, <1>3, PTL DEF Spec
<1>5. [][\A c \in Clients : Finds(c)]_vars => PullFindsWhatIsThere
  BY PTL DEF PullFindsWhatIsThere, Finds
<1>6. QED
  BY <1>4, <1>5
=============================================================================

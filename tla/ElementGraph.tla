---------------------------- MODULE ElementGraph ----------------------------
(***************************************************************************)
(* The graph of elements a session works on, as Element builds it from the *)
(* load elements: the direct build and runtime dependencies, and what      *)
(* Element._dependencies() reaches through them.                           *)
(* The graph never changes once the pipeline is loaded, so it is constant. *)
(***************************************************************************)
EXTENDS Naturals, FiniteSets

CONSTANTS
  Element,      \* the loaded elements
  BuildDeps,    \* BuildDeps[e]: what e needs staged while it is built
  RuntimeDeps   \* RuntimeDeps[e]: what e needs wherever it is staged

(***************************************************************************)
(* The loader merges repeated dependencies on one element and rejects      *)
(* circular ones (Loader._check_circular_deps), which the well-founded     *)
(* ranking states: everything an element depends on is ranked below it.    *)
(***************************************************************************)
ASSUME ElementAssumption == IsFiniteSet(Element)

ASSUME DepsAssumption ==
  /\ BuildDeps \in [Element -> SUBSET Element]
  /\ RuntimeDeps \in [Element -> SUBSET Element]

ASSUME AcyclicAssumption ==
  \E rank \in [Element -> 0..Cardinality(Element)] :
    \A e \in Element : \A d \in BuildDeps[e] \cup RuntimeDeps[e] : rank[d] < rank[e]

\* A set that holds, with an element, all its direct dependencies under deps.
ClosedUnder(deps, S) == \A e \in S : deps[e] \subseteq S

\* The elements reached from a set through deps, the set included.
Reach(deps, roots) ==
  {e \in Element : \A S \in SUBSET Element :
                     roots \subseteq S /\ ClosedUnder(deps, S) => e \in S}

\* Element._dependencies(_Scope.BUILD): the runtime closure of the build
\* dependencies, which is what the build sandbox stages and what keys hash.
BuildScope == [e \in Element |-> Reach(RuntimeDeps, BuildDeps[e])]
=============================================================================

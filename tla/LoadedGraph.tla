---------------------------- MODULE LoadedGraph ----------------------------
(***************************************************************************)
(* The graph of the elements that a load has read (LoadElement, Dependency *)
(* in _loader/loadelement.pyx): what is done with it before a session      *)
(* starts is in CircularDeps, Dependencies, Planner and Loader.            *)
(***************************************************************************)
EXTENDS Naturals, Sequences

VARIABLES
  phase,  \* what Project.load_elements() and Stream._load() do next
  roots,  \* the elements that targets and exceptions resolved to
  graph   \* LoadElement.dependencies of each element, once all is loaded

\* An element is named by the loader of its project, a sequence of junctions, and its name there.
Top == <<>>
Element(l, n) == [loader |-> l, name |-> n]

\* The types of dependencies, as sets of stages.
BuildDep == {"build"}
RuntimeDep == {"runtime"}
AllDep == {"build", "runtime"}

ElementsOf(list) == {list[i].element : i \in DOMAIN list}

\* What elements reach through dependencies of any type, themselves included: what every set has
\* that has them and, with an element, all that it depends on.
Closed(deps, S) == \A e \in S : ElementsOf(deps[e]) \subseteq S
ReachedFrom(deps, from) ==
  {e \in DOMAIN deps : \A S \in SUBSET DOMAIN deps : from \subseteq S /\ Closed(deps, S) => e \in S}

\* LoadElement.depends(): through _ensure_depends_cache().
DependsOn(deps, e, f) == f \in ReachedFrom(deps, ElementsOf(deps[e]))

\* load(): the element that depends on the targets, and that nothing depends on.
Dummy == Element(Top, "")

\* All that is depended on was loaded.
IsGraph(deps) ==
  /\ Dummy \notin DOMAIN deps
  /\ \A e \in DOMAIN deps :
       deps[e] \in Seq([element : DOMAIN deps, type : {BuildDep, RuntimeDep, AllDep}])
=============================================================================

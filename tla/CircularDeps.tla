---------------------------- MODULE CircularDeps ----------------------------
(***************************************************************************)
(* The search for circular dependencies (Loader._check_circular_deps()):   *)
(* depth first, from an element that depends on all targets, with one step *)
(* for each turn of its loop.                                              *)
(***************************************************************************)
EXTENDS LoadedGraph

VARIABLES
  sequence,   \* the elements that lead to the one at hand, with the index of the next dependency
  validated,  \* the elements that lead to no circle
  circle      \* the chain that the error reports

checkVars == <<sequence, validated, circle>>

Entry(e) == [element |-> e, index |-> 0]
This == sequence[Len(sequence)]

\* Mutant: dependencies that are only needed at runtime are not followed.
BuildListed(e) ==
  IF e = Dummy THEN roots
  ELSE LET build == SelectSeq(graph[e], LAMBDA d : "build" \in d.type)
       IN [i \in DOMAIN build |-> build[i].element]

\* What an element depends on, one after the other.
Listed(e) == IF e = Dummy THEN roots ELSE [i \in DOMAIN graph[e] |-> graph[e][i].element]

\* check_elements.
Chain == {sequence[i].element : i \in DOMAIN sequence}

\* From an element of the chain to the end of the chain, and back.
CircleOf(e) ==
  LET start == CHOOSE i \in DOMAIN sequence : sequence[i].element = e
  IN Append([k \in 1..(Len(sequence) + 1 - start) |-> sequence[start + k - 1].element], e)

CheckInit == sequence = <<>> /\ validated = {} /\ circle = <<>>

BeginCheck ==
  /\ phase' = "check"
  /\ sequence' = <<Entry(Dummy)>>
  /\ UNCHANGED <<validated, circle>>

\* The next dependency of the last element is looked at.
LooksAt(e) ==
  /\ phase = "check"
  /\ This.index < Len(Listed(This.element))
  /\ e = Listed(This.element)[This.index + 1]
Advanced == [sequence EXCEPT ![Len(sequence)].index = @ + 1]

FindCircle(e) ==
  /\ LooksAt(e) /\ e \in Chain
  /\ circle' = CircleOf(e)
  /\ sequence' = Advanced
  /\ phase' = "failed"
  /\ UNCHANGED validated

Descend(e) ==
  /\ LooksAt(e) /\ e \notin Chain \cup validated
  /\ sequence' = Append(Advanced, Entry(e))
  /\ UNCHANGED <<phase, validated, circle>>

PassOver(e) ==
  /\ LooksAt(e) /\ e \in validated \ Chain
  /\ sequence' = Advanced
  /\ UNCHANGED <<phase, validated, circle>>

Validate ==
  /\ phase = "check"
  /\ This.index >= Len(Listed(This.element))
  /\ sequence' = SubSeq(sequence, 1, Len(sequence) - 1)
  /\ validated' = validated \cup {This.element}
  /\ phase' = IF Len(sequence) = 1 THEN "sort" ELSE phase
  /\ UNCHANGED circle

CheckStep ==
  /\ \/ \E e \in DOMAIN graph : FindCircle(e) \/ Descend(e) \/ PassOver(e)
     \/ Validate
  /\ UNCHANGED <<roots, graph>>

-----------------------------------------------------------------------------
\* The roots, which are accepted, reach no element that depends on itself; and what is reported as
\* a circle is one, across projects and over any types of dependencies.
CircularFound ==
  /\ phase \in {"sort", "assert", "plan", "select", "done"} =>
       \A e \in ReachedFrom(graph, {roots[i] : i \in DOMAIN roots}) : ~DependsOn(graph, e, e)
  /\ circle # <<>> =>
       /\ Len(circle) > 1 /\ circle[1] = circle[Len(circle)]
       /\ \A i \in 1..(Len(circle) - 1) :
            circle[i] \in DOMAIN graph /\ circle[i + 1] \in ElementsOf(graph[circle[i]])
=============================================================================

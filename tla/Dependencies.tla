---------------------------- MODULE Dependencies ----------------------------
(***************************************************************************)
(* The lists of dependencies of loaded elements: how they are merged while *)
(* elements are loaded (Loader._load_file()), and how they are sorted at   *)
(* the end of a load (sort_dependencies()).                                *)
(***************************************************************************)
EXTENDS LoadedGraph, SequencesExt

CONSTANTS
  Before(_, _)  \* the order of names as strings

\* Dependency.merge(), for the paths that lead to the same element.
AddDependency(list, e, type) ==
  LET i == SelectInSeq(list, LAMBDA d : d.element = e) IN
  IF i = 0 THEN Append(list, [element |-> e, type |-> type])
  ELSE [list EXCEPT ![i].type = @ \cup type]

\* _dependency_cmp(), as "a comes before b": by dependency, then by type, by name and by the name
\* of the junction, where an element of this project comes last.
Precedes(deps, a, b) ==
  LET ja == a.element.loader
      jb == b.element.loader
      names == <<a.element.name, b.element.name>>
  IN
  IF DependsOn(deps, a.element, b.element) THEN FALSE
  ELSE IF DependsOn(deps, b.element, a.element) THEN TRUE
  ELSE IF a.type # b.type /\ RuntimeDep \in {a.type, b.type} THEN b.type = RuntimeDep
  ELSE IF names[1] # names[2] THEN Before(names[1], names[2])
  ELSE IF ja # Top /\ jb # Top THEN Before(Last(ja), Last(jb))
  ELSE ja # Top /\ jb = Top

\* count_run(): how many are in order already, rising or falling, from the start.
CountRun(deps, list) ==
  LET falls(i) == Precedes(deps, list[i + 1], list[i])
      breaks == {i \in 2..(Len(list) - 1) : falls(i) # falls(1)}
  IN IF breaks = {} THEN Len(list) ELSE CHOOSE i \in breaks : \A k \in breaks : i <= k

\* binarysort(): where an element belongs between two places of a list.
RECURSIVE PlaceOf(_, _, _, _, _)
PlaceOf(deps, pivot, list, l, r) ==
  LET p == l + ((r - l) \div 2) IN
  IF l >= r THEN l
  ELSE IF Precedes(deps, pivot, list[p]) THEN PlaceOf(deps, pivot, list, l, p)
  ELSE PlaceOf(deps, pivot, list, p + 1, r)

\* _list_sort(), of fewer than 64 elements.
ListSort(deps, list) ==
  LET n == CountRun(deps, list)
      run == IF Precedes(deps, list[2], list[1]) THEN Reverse(SubSeq(list, 1, n)) ELSE SubSeq(list, 1, n)
      insert(sorted, pivot) == InsertAt(sorted, PlaceOf(deps, pivot, sorted, 1, Len(sorted) + 1), pivot)
  IN IF Len(list) < 2 THEN list ELSE FoldLeft(insert, run, SubSeq(list, n + 1, Len(list)))

\* sort_dependencies(): of each element that the targets reach.
SortDependencies(deps, from) ==
  [e \in DOMAIN deps |->
     IF e \in ReachedFrom(deps, from)
     THEN ListSort(deps, deps[e]) ELSE deps[e]]
=============================================================================

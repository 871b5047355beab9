------------------------------ MODULE Planner ------------------------------
(***************************************************************************)
(* The build plan (_Planner in _pipeline.py): elements are visited from    *)
(* the targets, again when they are found deeper, and sorted by depth.     *)
(* plan_element() is recursive; "calls" is the stack of its calls.         *)
(***************************************************************************)
EXTENDS CircularDeps, FiniteSets

VARIABLES
  left,      \* plan(): the roots that are not visited yet
  calls,     \* plan_element(): its calls, with the loop that each is in and the next index of it
  depthMap,  \* depth_map, in the order of insertion
  plan       \* the selection of Stream._load()

planVars == <<left, calls, depthMap, plan>>

PlanInit == left = <<>> /\ calls = <<>> /\ depthMap = <<>> /\ plan = <<>>

BeginPlan(targets) ==
  /\ phase' = "plan"
  /\ left' = targets
  /\ UNCHANGED <<calls, depthMap, plan>>

\* Mutant: an element that was planned is not visited again.
PlannedAtAll(e, depth) == \E i \in DOMAIN depthMap : depthMap[i].element = e

\* The two early returns of plan_element().
Visiting(e) == \E i \in DOMAIN calls : calls[i].element = e
Planned(e, depth) == \E i \in DOMAIN depthMap : depthMap[i].element = e /\ depthMap[i].depth >= depth

\* plan_element() is called, after the caller has moved on.
Visit(callers, e, depth) ==
  calls' = IF Visiting(e) \/ Planned(e, depth) THEN callers
           ELSE Append(callers, [element |-> e, depth |-> depth, scope |-> "runtime", index |-> 0])

VisitRoot ==
  /\ phase = "plan" /\ calls = <<>> /\ left # <<>>
  /\ Visit(calls, Head(left), 0)
  /\ left' = Tail(left)
  /\ UNCHANGED <<phase, depthMap, plan>>

Caller == calls[Len(calls)]
InLoop == phase = "plan" /\ calls # <<>> /\ Caller.index < Len(graph[Caller.element])
LoopEnded(scope) ==
  /\ phase = "plan" /\ calls # <<>>
  /\ Caller.index >= Len(graph[Caller.element]) /\ Caller.scope = scope

\* Dependencies that are built with count as deeper; the loops leave out what is of the other type.
VisitDependency ==
  LET dep == graph[Caller.element][Caller.index + 1]
      moved == [calls EXCEPT ![Len(calls)].index = @ + 1]
  IN
  /\ InLoop
  /\ IF Caller.scope \in dep.type
     THEN Visit(moved, dep.element, IF Caller.scope = "build" THEN Caller.depth + 1 ELSE Caller.depth)
     ELSE calls' = moved
  /\ UNCHANGED <<phase, left, depthMap, plan>>

SecondLoop ==
  /\ LoopEnded("runtime")
  /\ calls' = [calls EXCEPT ![Len(calls)].scope = "build", ![Len(calls)].index = 0]
  /\ UNCHANGED <<phase, left, depthMap, plan>>

\* The map keeps the place of an element that is planned again.
Recorded(e, depth) ==
  IF \E i \in DOMAIN depthMap : depthMap[i].element = e
  THEN [i \in DOMAIN depthMap |->
          IF depthMap[i].element = e THEN [depthMap[i] EXCEPT !.depth = depth] ELSE depthMap[i]]
  ELSE Append(depthMap, [element |-> e, depth |-> depth])

Return ==
  /\ LoopEnded("build")
  /\ depthMap' = Recorded(Caller.element, Caller.depth)
  /\ calls' = SubSeq(calls, 1, Len(calls) - 1)
  /\ UNCHANGED <<phase, left, plan>>

\* plan(): the deepest come first, and those of one depth as they are in the map.
Ahead(map, i, k) == map[i].depth > map[k].depth \/ (map[i].depth = map[k].depth /\ i < k)
Position(map, k) == 1 + Cardinality({i \in DOMAIN map : Ahead(map, i, k)})
DepthSorted(map) == [p \in DOMAIN map |-> map[CHOOSE k \in DOMAIN map : Position(map, k) = p].element]

EndPlan ==
  /\ phase = "plan" /\ calls = <<>> /\ left = <<>>
  /\ plan' = DepthSorted(depthMap)
  /\ phase' = "select"
  /\ UNCHANGED <<left, calls, depthMap>>

PlanStep ==
  /\ VisitRoot \/ VisitDependency \/ SecondLoop \/ Return \/ EndPlan
  /\ UNCHANGED <<roots, graph, checkVars>>

-----------------------------------------------------------------------------
(* What the rest of a load may do to what is modelled here. *)

\* The elements are loaded, or something is wrong with one of them.
Load ==
  /\ phase = "load" /\ phase' \in {"load", "failed"}
  /\ UNCHANGED <<graph, checkVars, planVars>>

StartCheck ==
  /\ phase = "load"
  /\ BeginCheck
  /\ IsGraph(graph') /\ roots \in Seq(DOMAIN graph')
  /\ UNCHANGED <<roots, planVars>>

\* Dependencies are sorted: none is lost, added or changed.
DepsOf(deps, e) == {deps[e][i] : i \in DOMAIN deps[e]}
Sorted ==
  /\ phase = "sort" /\ phase' = "assert"
  /\ IsGraph(graph') /\ DOMAIN graph' = DOMAIN graph
  /\ \A e \in DOMAIN graph : DepsOf(graph', e) = DepsOf(graph, e)
  /\ UNCHANGED <<roots, checkVars, planVars>>

\* Projects are in conflict, or the targets are planned, which come before the exceptions.
StartPlan ==
  /\ phase = "assert"
  /\ \/ \E n \in 0..Len(roots) : BeginPlan(SubSeq(roots, 1, n))
     \/ phase' = "failed" /\ UNCHANGED planVars
  /\ UNCHANGED <<roots, graph, checkVars>>

\* Exceptions are taken out of the plan.
TakeOut ==
  /\ phase = "select" /\ phase' = "done"
  /\ \A i \in DOMAIN plan' : \E a \in DOMAIN plan : plan'[i] = plan[a]
  /\ \A i, k \in DOMAIN plan' :
       i < k => \E a, b \in DOMAIN plan : a < b /\ plan'[i] = plan[a] /\ plan'[k] = plan[b]
  /\ UNCHANGED <<roots, graph, checkVars, left, calls, depthMap>>

graphVars == <<phase, roots, graph, checkVars, planVars>>

PlanningInit ==
  /\ phase = "load" /\ roots = <<>> /\ graph = <<>>
  /\ CheckInit /\ PlanInit

PlanningNext ==
  \/ Load \/ StartCheck \/ Sorted \/ StartPlan \/ TakeOut
  \/ CheckStep /\ UNCHANGED planVars
  \/ PlanStep

PlanningSpec == PlanningInit /\ [][PlanningNext]_graphVars

-----------------------------------------------------------------------------
\* In the plan every element comes after all that it depends on that is planned as well, whatever
\* paths of which lengths lead to it (_Planner.plan_element()).
PlanIsTopological ==
  \A i, j \in DOMAIN plan : i < j => ~DependsOn(graph, plan[i], plan[j])
=============================================================================

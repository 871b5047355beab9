------------------------------- MODULE Loader -------------------------------
(***************************************************************************)
(* Loading of the elements of a project and of its subprojects             *)
(* (_loader/loader.py, loadelement.pyx, loadcontext.py).                   *)
(*                                                                         *)
(* The code is sequential, and recursive wherever a path crosses a         *)
(* junction.  Each of its procedures is an operator that maps the state of *)
(* the load to the next one, which holds the value the procedure returns   *)
(* or the error it raises.                                                 *)
(*                                                                         *)
(* A loader is named by the sequence of junctions it was created through,  *)
(* an element by its loader and its name, and a path is a sequence of      *)
(* names: junctions, and last an element.  Reading of files, first-pass    *)
(* options, plugins and the fetching of subprojects are left out.          *)
(***************************************************************************)
EXTENDS Selection, Planner

CONSTANTS
  Inputs  \* what is loaded, in groups: targets, exceptions, and each project with its files

\* A file is an element, a link or a junction.
Plain(deps) == [kind |-> "element", deps |-> deps, to |-> <<>>, project |-> "", overrides |-> <<>>]
Link(path) == [Plain(<<>>) EXCEPT !.kind = "link", !.to = path]
Junction(project, overrides) ==
  [Plain(<<>>) EXCEPT !.kind = "junction", !.project = project, !.overrides = overrides]

VARIABLES
  input,  \* the member of a group of Inputs that is loaded
  st      \* the state of the load

loaderVars == <<input, st, graphVars>>

None == Element(<<>>, "none")
NoLoader == <<"none">>

\* The project that a loader loads.
RECURSIVE ProjectOf(_)
ProjectOf(l) == IF l = Top THEN input.root ELSE input.files[ProjectOf(Front(l))][Last(l)].project
FilesOf(l) == input.files[ProjectOf(l)]
FileOf(e) == FilesOf(e.loader)[e.name]
Overrides(l) == FileOf(Element(Front(l), Last(l))).overrides

LoadStart ==
  [elements |-> {},    \* Loader._elements: what was loaded, at least without its dependencies
   full |-> {},        \* LoadElement.fully_loaded
   deps |-> [e \in {} |-> <<>>],       \* LoadElement.dependencies
   links |-> [l \in {Top} |-> <<>>],   \* Loader._links, in the order of insertion
   loaders |-> [e \in {} |-> Top],     \* Loader._loaders
   parents |-> [l \in {Top} |-> <<>>], \* Loader._alternative_parents
   searching |-> {},   \* Loader._loader_search_provenances
   value |-> None, loader |-> NoLoader, error |-> ""]

Fail(s, reason) == [s EXCEPT !.error = reason]
Failed(s) == s.error # ""
Returns(s, e) == [s EXCEPT !.value = e]
ReturnsLoader(s, l) == [s EXCEPT !.loader = l]

-----------------------------------------------------------------------------
(* Links. *)

\* _expand_link(): the first link that the path starts with is replaced.
ExpandLink(links, path) ==
  LET i == SelectInSeq(links, LAMBDA k : IsPrefix(k.link, path)) IN
  IF i = 0 THEN path ELSE links[i].target \o SubSeq(path, Len(links[i].link) + 1, Len(path))

\* _resolve_link(): the link is added, and then each link whose target expands to it is changed.
ResolveLink(links, link, target) ==
  LET i == SelectInSeq(links, LAMBDA k : k.link = link)
      new == [link |-> link, target |-> target]
      added == IF i = 0 THEN Append(links, new) ELSE [links EXCEPT ![i] = new]
  IN FoldLeft(LAMBDA ls, k : IF ExpandLink(ls, ls[k].target) = link
                             THEN [ls EXCEPT ![k].target = target] ELSE ls,
              added, [k \in DOMAIN added |-> k])

\* _load_file_no_deps(): the element is only loaded itself; a link is made known to all parents.
LoadFileNoDeps(s, l, n, firstPass) ==
  LET f == FilesOf(l)[n]
      known == [a \in DOMAIN s.links |->
        IF IsPrefix(a, l)
        THEN LET path == SubSeq(l, Len(a) + 1, Len(l))
             IN ResolveLink(s.links[a], Append(path, n), path \o f.to)
        ELSE s.links[a]]
  IN
  IF n \notin DOMAIN FilesOf(l) THEN Fail(s, "missing-file")
  ELSE IF f.kind = "element" /\ firstPass THEN Returns(s, None)
  ELSE IF f.kind = "link" /\ f.deps # <<>> THEN Fail(s, "link-forbidden-dependencies")
  ELSE Returns([s EXCEPT !.elements = @ \cup {Element(l, n)},
                         !.links = IF f.kind = "link" THEN known ELSE @], Element(l, n))

-----------------------------------------------------------------------------
(* Overrides. *)

\* _search_for_local_override(): first as it is written, then with links expanded.
LocalOverride(s, l, path) ==
  LET exact == SelectInSeq(Overrides(l), LAMBDA o : o.path = path) IN
  IF exact # 0 THEN exact
  ELSE SelectInSeq(Overrides(l), LAMBDA o : ExpandLink(s.links[l], o.path) = path)

\* Mutant: only the project that has the junction is asked, not those above it.
OverridesOfParent(s, l, n) ==
  IF l = Top \/ LocalOverride(s, l, <<n>>) = 0 THEN <<>>
  ELSE <<[loader |-> Front(l), path |-> Overrides(l)[LocalOverride(s, l, <<n>>)].target]>>

\* _search_for_overrides(): the parents that override it, the closest first.
SearchForOverrides(s, l, n) ==
  LET ancestry == [k \in 1..Len(l) |-> SubSeq(l, 1, Len(l) + 1 - k)]
      at(a) == LocalOverride(s, a, Append(SubSeq(l, Len(a) + 1, Len(l)), n))
      overriding == SelectSeq(ancestry, LAMBDA a : at(a) # 0)
  IN [k \in DOMAIN overriding |->
        [loader |-> Front(overriding[k]), path |-> Overrides(overriding[k])[at(overriding[k])].target]]

\* The procedures call each other: a call is a record of the procedure and its arguments.
RECURSIVE Call(_, _)
CallGetLoader(s, l, path, provenance, sub) ==
  Call(s, [to |-> "get_loader", loader |-> l, path |-> path, provenance |-> provenance, sub |-> sub])
CallLoadFile(s, l, n, sub) == Call(s, [to |-> "load_file", loader |-> l, name |-> n, sub |-> sub])
CallLoadDependencies(s, l, e, sub) ==
  Call(s, [to |-> "load_dependencies", loader |-> l, element |-> e, sub |-> sub])
CallShallowLoadPath(s, l, path) == Call(s, [to |-> "shallow_load_path", loader |-> l, path |-> path])

\* _parse_name(): a path seen from a loader; the loader is returned.
ParseName(s, l, path, provenance, sub) ==
  IF Len(path) = 1 THEN ReturnsLoader(s, l) ELSE CallGetLoader(s, l, Front(path), provenance, sub)

\* The last name of a path, in the loader that the path leads to.
LoadIn(s, path, sub) ==
  IF Failed(s) THEN s
  ELSE IF s.loader = NoLoader THEN Returns(s, None) ELSE CallLoadFile(s, s.loader, Last(path), sub)

\* A target, or that of a link or an override, is loaded in its own loader.
LoadPath(s, l, path, provenance, sub) == LoadIn(ParseName(s, l, path, provenance, sub), path, sub)

\* Mutant: the loader that asks is not remembered.
OverrideLoaderOnly(s, l, n) ==
  LET found == SearchForOverrides(s, l, n) IN
  IF found = <<>> THEN ReturnsLoader(s, NoLoader)
  ELSE CallGetLoader(s, Last(found).loader, Last(found).path, TRUE, TRUE)

\* The loaders that were passed over are parents of the one that is used.
RememberParents(s, l, found) ==
  LET others == (IF s.loader # l THEN <<l>> ELSE <<>>)
                  \o [k \in 1..(Len(found) - 1) |-> found[k].loader]
  IN IF Failed(s) THEN s ELSE [s EXCEPT !.parents[s.loader] = @ \o others]

\* _search_for_override_loader(): the highest override wins.
OverrideLoader(s, l, n) ==
  LET found == SearchForOverrides(s, l, n) IN
  IF found = <<>> THEN ReturnsLoader(s, NoLoader)
  ELSE RememberParents(CallGetLoader(s, Last(found).loader, Last(found).path, TRUE, TRUE), l, found)

\* _search_for_override_element().
OverrideElement(s, l, n) ==
  LET found == SearchForOverrides(s, l, n) IN
  IF found = <<>> THEN Returns(s, None) ELSE LoadPath(s, Last(found).loader, Last(found).path, TRUE, TRUE)

\* _shallow_load_path(): links on the way to an overridden element are followed, as far as their
\* subprojects are loaded.
ShallowFollow(s, l, path, e) ==
  IF Failed(s) \/ s.value = None \/ FileOf(e).kind # "link" THEN s
  ELSE CallShallowLoadPath(s, l, Front(path) \o FileOf(e).to)
ShallowLoadIn(s, l, path) ==
  LET e == Element(s.loader, Last(path)) IN
  IF Failed(s) \/ s.loader = NoLoader THEN s
  ELSE ShallowFollow(IF e \in s.elements THEN Returns(s, e)
                     ELSE LoadFileNoDeps(s, e.loader, e.name, TRUE), l, path, e)
ShallowLoadPath(s, l, path) ==
  ShallowLoadIn(IF Len(path) = 1 THEN ReturnsLoader(s, l) ELSE CallGetLoader(s, l, Front(path), TRUE, FALSE),
                l, path)

\* Mutant: links that are overridden become known only when something loads them.
NoShallowLoad(s, l) == s

\* _shallow_load_overrides(), for a new loader and for its parents.
RECURSIVE ShallowLoadAll(_, _)
ShallowLoadAll(s, overrides) ==
  IF overrides = <<>> \/ Failed(s) THEN s
  ELSE ShallowLoadAll(CallShallowLoadPath(s, Head(overrides).loader, Head(overrides).path), Tail(overrides))
ShallowLoadOverrides(s, l) ==
  LET of(a) == [i \in DOMAIN Overrides(a) |-> [loader |-> a, path |-> Overrides(a)[i].path]]
  IN ShallowLoadAll(s, FlattenSeq([k \in 1..Len(l) |-> of(SubSeq(l, 1, Len(l) + 1 - k))]))

-----------------------------------------------------------------------------
(* Junctions. *)

\* Project.__init__(): the subproject gets its loader.
NewLoader(s, l, n) ==
  LET m == Append(l, n)
      new == [s EXCEPT !.links = (m :> <<>>) @@ @, !.parents = (m :> <<>>) @@ @,
                       !.loaders = (Element(l, n) :> m) @@ @]
  IN ReturnsLoader(ShallowLoadOverrides(new, m), m)

\* A link to a junction.
LinkedLoader(s, path, sub) ==
  IF Failed(s) \/ s.loader = NoLoader THEN s ELSE CallGetLoader(s, s.loader, <<Last(path)>>, TRUE, sub)

\* The loader of a junction that was read.
JunctionLoader(s, l, n, sub) ==
  LET f == FilesOf(l)[n] IN
  IF Failed(s) THEN s
  ELSE IF f.kind = "link" THEN LinkedLoader(ParseName(s, l, f.to, TRUE, sub), f.to, sub)
  ELSE IF ~sub THEN ReturnsLoader(s, NoLoader)
  ELSE IF f.kind # "junction" THEN Fail(s, "expected-junction")
  ELSE IF f.deps # <<>> THEN Fail(s, "invalid-junction")
  ELSE NewLoader(s, l, n)

\* What overrides a junction comes before the junction itself.
OverriddenOrRead(s, l, n, sub) ==
  IF Failed(s) THEN s
  ELSE IF s.loader # NoLoader THEN [s EXCEPT !.loaders = (Element(l, n) :> s.loader) @@ @]
  ELSE JunctionLoader(CallLoadFile(s, l, n, sub), l, n, sub)

\* _get_loader(): the loader of a junction of this project, or of what overrides it.
GetDirectLoader(s, l, n, sub) ==
  LET e == Element(l, n) IN
  IF e \in DOMAIN s.loaders THEN ReturnsLoader(s, s.loaders[e])
  ELSE OverriddenOrRead(OverrideLoader(s, l, n), l, n, sub)

\* get_loader(): one junction after the other, unless this very path is being searched already.
RECURSIVE AlongPath(_, _, _)
AlongPath(s, path, sub) ==
  IF path = <<>> \/ Failed(s) \/ s.loader = NoLoader THEN s
  ELSE AlongPath(GetDirectLoader(s, s.loader, Head(path), sub), Tail(path), sub)
GetLoader(s, l, path, provenance, sub) ==
  LET noted == IF sub /\ provenance THEN {<<l, path>>} ELSE {}
      found(t) == IF Failed(t) THEN t ELSE [t EXCEPT !.searching = @ \ noted]
  IN
  IF <<l, path>> \in s.searching /\ sub THEN Fail(s, "circular-reference")
  ELSE found(AlongPath([s EXCEPT !.searching = @ \cup noted, !.loader = l], path, sub))

-----------------------------------------------------------------------------
(* Elements and their dependencies. *)

\* An element that is not overridden.
OverriddenOrLoaded(s, e, sub) ==
  IF Failed(s) \/ s.value # None THEN s
  ELSE IF FileOf(e).kind = "link" THEN LoadPath(s, e.loader, FileOf(e).to, TRUE, sub) ELSE Returns(s, e)
WithOverride(s, e, sub) ==
  IF Failed(s) THEN s ELSE OverriddenOrLoaded(OverrideElement(s, e.loader, e.name), e, sub)

\* _load_one_file(): overrides come before links.
LoadOneFile(s, l, n, sub) ==
  LET e == Element(l, n) IN
  IF e \in s.full THEN Returns(s, e)
  ELSE WithOverride(IF e \in s.elements THEN Returns(s, e) ELSE LoadFileNoDeps(s, l, n, FALSE), e, sub)

\* An element is marked before its dependencies are loaded.
Entered(s, e) == [s EXCEPT !.full = @ \cup {e}, !.deps = (e :> <<>>) @@ @]

\* The element that was loaded becomes a dependency of e, with all of its own if it is new.
Depends(s, l, e, dep, sub) ==
  LET x == s.value
      new == Len(dep.path) = 1 /\ x \notin s.full
      added(t) == [t EXCEPT !.deps[e] = AddDependency(@, x, dep.type)]
  IN
  IF Failed(s) \/ x = None THEN s
  ELSE IF ~new THEN added(s)
  ELSE IF FileOf(x).kind = "junction" THEN Fail(s, "depends-on-junction")
  ELSE CallLoadDependencies(added(Entered(s, x)), l, x, sub)

\* A dependency of the same project, or one behind a junction.
LoadDependency(s, l, path, sub) ==
  IF Len(path) = 1 THEN LoadOneFile(s, l, path[1], sub)
  ELSE LoadIn(CallGetLoader(s, l, Front(path), TRUE, TRUE), path, TRUE)
RECURSIVE LoadEach(_, _, _, _, _)
LoadEach(s, l, e, deps, sub) ==
  IF deps = <<>> \/ Failed(s) \/ s.value = None THEN s
  ELSE LoadEach(Depends(LoadDependency(s, l, Head(deps).path, sub), l, e, Head(deps), sub),
                l, e, Tail(deps), sub)
LoadDependencies(s, l, e, sub) == LoadEach(s, l, e, FileOf(e).deps, sub)

LoadAll(s, l, sub) ==
  LET e == s.value
      returned(t) == IF Failed(t) \/ t.value = None THEN t ELSE Returns(t, e)
  IN IF Failed(s) \/ e = None \/ e \in s.full THEN s
     ELSE returned(CallLoadDependencies(Entered(s, e), l, e, sub))

\* _load_file(): what is not loaded yet is loaded with all of its dependencies.
LoadFile(s, l, n, sub) == LoadAll(LoadOneFile(s, l, n, sub), l, sub)

Call(s, c) ==
  CASE c.to = "get_loader" -> GetLoader(s, c.loader, c.path, c.provenance, c.sub)
    [] c.to = "load_file" -> LoadFile(s, c.loader, c.name, c.sub)
    [] c.to = "load_dependencies" -> LoadDependencies(s, c.loader, c.element, c.sub)
    [] c.to = "shallow_load_path" -> ShallowLoadPath(s, c.loader, c.path)

-----------------------------------------------------------------------------
(* Conflicts of projects that are loaded more than once. *)

\* Loader.ancestors(): its parents, and those of the junctions that it was loaded in place of.
Ancestors(s, l) ==
  LET upFrom(a) == {SubSeq(a, 1, k) : k \in 0..Len(a)}
  IN (upFrom(l) \ {l}) \cup UNION {upFrom(a) : a \in ToSet(s.parents[l])}

NameOf(l) == input.conf[ProjectOf(l)].name

\* The paths that ancestors mark as duplicates of this project, or as internal.
Marks(s, l) ==
  LET conf(a) == input.conf[ProjectOf(a)]
      name == NameOf(l)
  IN UNION {{[at |-> a, path |-> d.path, as |-> "duplicates"] :
                d \in {d \in conf(a).duplicates : d.name = name}}
            \cup {[at |-> a, path |-> p, as |-> "internal"] : p \in conf(a).internal}
              : a \in Ancestors(s, l)}

\* _search_project_relationships(): a mark is looked up like any junction, without loading it.
LookedUp(x, l, as, got) ==
  [x EXCEPT !.s = got, ![as] = IF got.loader = l THEN @ \cup {l} ELSE @]
RECURSIVE Relate(_, _, _)
Relate(x, l, marks) ==
  IF marks = <<>> \/ Failed(x.s) THEN x
  ELSE Relate(LookedUp(x, l, Head(marks).as,
                       CallGetLoader(x.s, Head(marks).at, Head(marks).path, TRUE, FALSE)), l, Tail(marks))
RECURSIVE RelateAll(_, _)
RelateAll(x, loaders) ==
  IF loaders = <<>> THEN x
  ELSE RelateAll(Relate(x, Head(loaders), SetToSeq(Marks(x.s, Head(loaders)))), Tail(loaders))

\* ProjectLoaders.assert_loaders(), for the loaders of one project.
Decided(x, loaders) ==
  LET primary == loaders \ (x.duplicates \cup x.internal)
  IN IF ~Failed(x.s) /\ (Cardinality(primary) > 1 \/ (primary # {} /\ x.duplicates # {}))
     THEN Fail(x.s, "conflicting-junction") ELSE x.s
Conflicts(s, loaders) ==
  Decided(RelateAll([s |-> s, duplicates |-> {}, internal |-> {}], SetToSeq(loaders)), loaders)

\* LoadContext.assert_loaders(): the loaders are registered by the names of their projects.
RECURSIVE AssertNamed(_, _)
AssertNamed(s, names) ==
  IF names = <<>> \/ Failed(s) THEN s
  ELSE AssertNamed(Conflicts(s, {l \in DOMAIN s.links : NameOf(l) = Head(names)}), Tail(names))
AssertLoaders(s) == AssertNamed(s, SetToSeq({NameOf(l) : l \in DOMAIN s.links}))

-----------------------------------------------------------------------------
(* Loader.load(), Project.load_elements() and Stream._load(). *)

Names == input.targets \o input.exceptions
Targets == {roots[i] : i \in 1..Len(input.targets)}
Exceptions == {roots[i] : i \in (Len(input.targets) + 1)..Len(roots)}

\* A step ends with what it returns, or the load fails.
Continue(s, next) == st' = s /\ phase' = IF Failed(st') THEN "failed" ELSE next

LoaderInit ==
  /\ \E group \in DOMAIN Inputs : input \in Inputs[group]
  /\ st = LoadStart
  /\ PlanningInit

LoadTarget ==
  LET name == Names[Len(roots) + 1] IN
  /\ phase = "load"
  /\ Len(roots) < Len(Names)
  /\ Continue(LoadPath(st, Top, name, FALSE, TRUE), "load")
  /\ roots' = IF Failed(st') THEN roots ELSE Append(roots, st'.value)
  /\ UNCHANGED <<input, graph, checkVars, planVars>>

\* All is loaded, and searched for circles.
CheckCircularDeps ==
  /\ phase = "load"
  /\ roots # <<>> /\ Len(roots) = Len(Names)
  /\ graph' = st.deps
  /\ BeginCheck
  /\ UNCHANGED <<input, st, roots, planVars>>

CheckOn ==
  /\ CheckStep
  /\ st' = IF phase' = "failed" THEN Fail(st, "circular-dependency") ELSE st
  /\ UNCHANGED <<input, planVars>>

Sort ==
  /\ phase = "sort"
  /\ graph' = SortDependencies(graph, ToSet(roots))
  /\ phase' = "assert"
  /\ UNCHANGED <<input, st, roots, checkVars, planVars>>

AssertProjects ==
  /\ phase = "assert"
  /\ st' = AssertLoaders(st)
  /\ IF Failed(st') THEN phase' = "failed" /\ UNCHANGED planVars
     ELSE BeginPlan(SubSeq(roots, 1, Len(input.targets)))
  /\ UNCHANGED <<input, roots, graph, checkVars>>

PlanOn == PlanStep /\ UNCHANGED <<input, st>>

Select ==
  /\ phase = "select"
  /\ plan' = ExceptElements(graph, Targets, plan, Exceptions)
  /\ phase' = "done"
  /\ UNCHANGED <<input, st, roots, graph, checkVars, left, calls, depthMap>>

LoaderNext ==
  \/ LoadTarget \/ CheckCircularDeps \/ CheckOn \/ Sort \/ AssertProjects \/ PlanOn \/ Select

LoaderSpec == LoaderInit /\ [][LoaderNext]_loaderVars

-----------------------------------------------------------------------------
Loaded == phase \in {"sort", "assert", "select", "done"}
Reached == ReachedFrom(graph, ToSet(roots))

\* What is done with the elements once they are loaded is what Planner says of it for any load, of
\* which its theorems speak: the graph has all that it names, sorting loses nothing, the targets are
\* among what was checked, and exceptions keep the order.
LoadsThenPlans == PlanningSpec

\* A path resolves, at the end of a load, to the element that its dependency was given while
\* the load went on and overrides and links were still being discovered.
ResolutionIsStable ==
  LET resolved(l, path) == LoadPath(st, l, path, TRUE, TRUE).value
  IN Loaded =>
       /\ \A i \in DOMAIN roots : roots[i] = resolved(Top, Names[i])
       /\ \A e \in Reached :
            ElementsOf(graph[e]) = {resolved(e.loader, d.path) : d \in ToSet(FileOf(e).deps)}

\* An element that a junction overrides, by its path from there or by a link to it, is not part
\* of the result: not where it was reached by links, and not from within its own project.
OverridesHonoured ==
  Loaded => \A e \in Reached : \A k \in 1..Len(e.loader) :
    LET parent == SubSeq(e.loader, 1, k)
        path == Append(SubSeq(e.loader, k + 1, Len(e.loader)), e.name)
    IN \A o \in ToSet(Overrides(parent)) : path \notin {o.path, ExpandLink(st.links[parent], o.path)}

\* A loader that has another one for one of its junctions is an ancestor of it, so that what its
\* project says of duplicates is heeded (Loader._search_for_override_loader()).
OverriddenParentsKnown ==
  \A e \in DOMAIN st.loaders :
    st.loaders[e] # e.loader => e.loader \in Ancestors(st, st.loaders[e])

\* No element depends on a junction, which doc and tests call an error (core_junction, junction.py).
NoJunctionDependency ==
  \A e \in DOMAIN graph : \A d \in ToSet(graph[e]) : FileOf(d.element).kind # "junction"

\* What sort_dependencies() says of itself: a direct dependency that depends on another one is
\* found later in the list.
SortedByDependency ==
  phase \in {"assert", "select", "done"} =>
    \A e \in Reached : \A i, k \in DOMAIN graph[e] :
      i < k => ~DependsOn(graph, graph[e][i].element, graph[e][k].element)
=============================================================================

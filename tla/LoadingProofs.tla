---------------------------- MODULE LoadingProofs ----------------------------
(***************************************************************************)
(* What TLAPS proves of CircularDeps and Planner for every graph that a    *)
(* load may leave: circular dependencies are found, what is reported as a  *)
(* circle is one, and a plan has every element after all that it needs.    *)
(***************************************************************************)
EXTENDS Planner, FiniteSetTheorems, TLAPS

-----------------------------------------------------------------------------
(* What elements reach. *)

LEMMA ReachedIsLeast ==
  ASSUME NEW deps, NEW from, NEW S \in SUBSET DOMAIN deps, from \subseteq S, Closed(deps, S)
  PROVE  ReachedFrom(deps, from) \subseteq S
BY DEF ReachedFrom

LEMMA ReachedHasAll ==
  ASSUME NEW deps, NEW from \in SUBSET DOMAIN deps
  PROVE  from \subseteq ReachedFrom(deps, from)
BY DEF ReachedFrom

LEMMA ElementsAreLoaded ==
  ASSUME NEW deps, IsGraph(deps), NEW e \in DOMAIN deps
  PROVE  /\ ElementsOf(deps[e]) \subseteq DOMAIN deps
         /\ Len(deps[e]) \in Nat /\ DOMAIN deps[e] = 1..Len(deps[e])
         /\ \A i \in DOMAIN deps[e] : /\ deps[e][i].element \in DOMAIN deps
                                      /\ deps[e][i].element \in ElementsOf(deps[e])
                                      /\ deps[e][i].type \subseteq {"build", "runtime"}
                                      /\ deps[e][i].type # {}
<1> DEFINE Dependency == [element : DOMAIN deps, type : {BuildDep, RuntimeDep, AllDep}]
<1>1. deps[e] \in Seq(Dependency)
  BY DEF IsGraph
<1>2. \A D : deps[e] \in Seq(D) =>
               Len(deps[e]) \in Nat /\ DOMAIN deps[e] = 1..Len(deps[e]) /\ \A i \in DOMAIN deps[e] : deps[e][i] \in D
  OBVIOUS
<1>3. /\ Len(deps[e]) \in Nat /\ DOMAIN deps[e] = 1..Len(deps[e])
      /\ \A i \in DOMAIN deps[e] : deps[e][i] \in Dependency
  BY <1>1, <1>2
<1>4. \A i \in DOMAIN deps[e] : deps[e][i].element \in DOMAIN deps
                               /\ deps[e][i].type \in {BuildDep, RuntimeDep, AllDep}
  BY <1>3
<1>5. QED
  BY <1>3, <1>4 DEF ElementsOf, BuildDep, RuntimeDep, AllDep

LEMMA ReachedIsClosed ==
  ASSUME NEW deps, IsGraph(deps), NEW from
  PROVE  Closed(deps, ReachedFrom(deps, from))
<1>1. SUFFICES ASSUME NEW e \in ReachedFrom(deps, from), NEW f \in ElementsOf(deps[e]),
                      NEW S \in SUBSET DOMAIN deps, from \subseteq S, Closed(deps, S)
               PROVE  f \in DOMAIN deps /\ f \in S
  BY ElementsAreLoaded DEF Closed, ReachedFrom
<1>2. e \in DOMAIN deps /\ e \in S
  BY <1>1 DEF ReachedFrom
<1>3. QED
  BY <1>1, <1>2, ElementsAreLoaded DEF Closed

LEMMA DependsDirectly ==
  ASSUME NEW deps, IsGraph(deps), NEW e \in DOMAIN deps, NEW f \in ElementsOf(deps[e])
  PROVE  DependsOn(deps, e, f)
BY ElementsAreLoaded, ReachedHasAll DEF DependsOn

LEMMA DependsFurther ==
  ASSUME NEW deps, IsGraph(deps), NEW e \in DOMAIN deps, NEW f, DependsOn(deps, e, f),
         NEW g \in ElementsOf(deps[f])
  PROVE  DependsOn(deps, e, g)
BY ReachedIsClosed DEF DependsOn, Closed

LEMMA DependsIsTransitive ==
  ASSUME NEW deps, IsGraph(deps), NEW e \in DOMAIN deps, NEW f, NEW g,
         DependsOn(deps, e, f), DependsOn(deps, f, g)
  PROVE  DependsOn(deps, e, g)
<1> DEFINE from == ElementsOf(deps[e])
<1>1. f \in DOMAIN deps /\ f \in ReachedFrom(deps, from)
  BY DEF DependsOn, ReachedFrom
<1>2. Closed(deps, ReachedFrom(deps, from)) /\ ReachedFrom(deps, from) \subseteq DOMAIN deps
  BY ReachedIsClosed DEF ReachedFrom
<1>3. ElementsOf(deps[f]) \subseteq ReachedFrom(deps, from)
  BY <1>1, <1>2 DEF Closed
<1>4. ReachedFrom(deps, ElementsOf(deps[f])) \subseteq ReachedFrom(deps, from)
  BY <1>2, <1>3, ReachedIsLeast
<1>5. QED
  BY <1>4 DEF DependsOn

\* Only which elements depend on which counts, not how they are listed.
LEMMA OrderDoesNotMatter ==
  ASSUME NEW deps, NEW other, DOMAIN other = DOMAIN deps,
         \A e \in DOMAIN deps : ElementsOf(other[e]) = ElementsOf(deps[e]), NEW from
  PROVE  ReachedFrom(other, from) = ReachedFrom(deps, from)
<1>1. \A S \in SUBSET DOMAIN deps : Closed(other, S) <=> Closed(deps, S)
  BY DEF Closed
<1>2. QED
  BY <1>1 DEF ReachedFrom

-----------------------------------------------------------------------------
(* The invariant.  First the search for circles: what was validated depends *)
(* on nothing else, and none of it on itself.                               *)

Accepted == phase \in {"sort", "assert", "plan", "select", "done"}

GraphInv ==
  /\ phase \in {"load", "check", "sort", "assert", "plan", "select", "done", "failed"}
  /\ IsGraph(graph)
  /\ phase \notin {"load", "failed"} => roots \in Seq(DOMAIN graph)

SafeInv ==
  /\ validated \subseteq DOMAIN graph \cup {Dummy}
  /\ \A e \in validated \ {Dummy} : ElementsOf(graph[e]) \subseteq validated /\ ~DependsOn(graph, e, e)

\* What the entries of the sequence have passed over is validated or comes next in the sequence.
Entries == [element : DOMAIN graph \cup {Dummy}, index : Nat]
PassedOver(i) ==
  \A j \in 1..sequence[i].index :
    \/ Listed(sequence[i].element)[j] \in validated
    \/ i < Len(sequence) /\ Listed(sequence[i].element)[j] = sequence[i + 1].element
LeadsOn(i) ==
  \E j \in 1..sequence[i].index : Listed(sequence[i].element)[j] = sequence[i + 1].element

SequenceInv ==
  /\ sequence \in Seq(Entries) /\ sequence # <<>>
  /\ sequence[1].element = Dummy
  /\ \A i, k \in DOMAIN sequence : sequence[i].element = sequence[k].element => i = k
  /\ \A i \in DOMAIN sequence : sequence[i].element \notin validated
  /\ \A i \in DOMAIN sequence : sequence[i].index <= Len(Listed(sequence[i].element)) /\ PassedOver(i)
  /\ \A i \in DOMAIN sequence : i < Len(sequence) => LeadsOn(i)

IsCircle(chain) ==
  /\ Len(chain) > 1 /\ chain[1] = chain[Len(chain)]
  /\ \A i \in 1..(Len(chain) - 1) : chain[i] \in DOMAIN graph /\ chain[i + 1] \in ElementsOf(graph[chain[i]])

CheckInv ==
  /\ SafeInv
  /\ phase = "load" => validated = {}
  /\ phase = "check" => SequenceInv
  /\ Accepted => \A i \in DOMAIN roots : roots[i] \in validated
  /\ circle # <<>> => phase = "failed" /\ IsCircle(circle)

LEMMA ListedIsTyped ==
  ASSUME IsGraph(graph), roots \in Seq(DOMAIN graph), NEW e \in DOMAIN graph \cup {Dummy}
  PROVE  /\ Len(Listed(e)) \in Nat
         /\ \A j \in 1..Len(Listed(e)) : Listed(e)[j] \in DOMAIN graph
         /\ e = Dummy => Listed(e) = roots
         /\ e # Dummy => ElementsOf(graph[e]) = {Listed(e)[j] : j \in 1..Len(Listed(e))}
<1>1. CASE e = Dummy
  BY <1>1 DEF Listed
<1>2. CASE e # Dummy
  <2> DEFINE n == Len(graph[e])
             list == [i \in 1..n |-> graph[e][i].element]
  <2>1. n \in Nat /\ DOMAIN graph[e] = 1..n /\ \A i \in 1..n : graph[e][i].element \in DOMAIN graph
    BY <1>2, ElementsAreLoaded
  <2>2. Listed(e) = list
    BY <1>2, <2>1 DEF Listed
  <2>3. Len(list) = n
    BY <2>1
  <2>4. QED
    BY <1>2, <2>1, <2>2, <2>3 DEF ElementsOf
<1>3. QED
  BY <1>1, <1>2

LEMMA AdvancedIs ==
  ASSUME SequenceInv
  PROVE  /\ Len(sequence) \in Nat \ {0} /\ DOMAIN sequence = 1..Len(sequence)
         /\ \A i \in 1..Len(sequence) : sequence[i] \in Entries
         /\ Advanced \in Seq(Entries) /\ Len(Advanced) = Len(sequence)
         /\ \A i \in 1..Len(sequence) :
              /\ Advanced[i].element = sequence[i].element
              /\ Advanced[i].index = IF i = Len(sequence) THEN sequence[i].index + 1 ELSE sequence[i].index
<1> DEFINE n == Len(sequence)
<1>1. sequence \in Seq(Entries) /\ sequence # <<>>
  BY DEF SequenceInv
<1>2. n \in Nat \ {0} /\ DOMAIN sequence = 1..n /\ \A i \in 1..n : sequence[i] \in Entries
  BY <1>1
<1>3. sequence[n] \in Entries /\ sequence[n].index + 1 \in Nat
  BY <1>2 DEF Entries
<1>4. Advanced = [sequence EXCEPT ![n] = [sequence[n] EXCEPT !.index = sequence[n].index + 1]]
  BY DEF Advanced
<1>5. [sequence[n] EXCEPT !.index = sequence[n].index + 1] \in Entries
  BY <1>3 DEF Entries
<1>6. Advanced \in Seq(Entries) /\ Len(Advanced) = n
  BY <1>1, <1>2, <1>4, <1>5
<1>7. \A i \in 1..n : Advanced[i] = IF i = n THEN [sequence[n] EXCEPT !.index = sequence[n].index + 1]
                                            ELSE sequence[i]
  BY <1>2, <1>4
<1>8. QED
  BY <1>2, <1>3, <1>6, <1>7 DEF Entries

\* The element that is looked at, seen from the last entry.
LEMMA LookedAt ==
  ASSUME GraphInv, CheckInv, phase = "check", NEW e, LooksAt(e)
  PROVE  /\ SequenceInv /\ IsGraph(graph) /\ roots \in Seq(DOMAIN graph)
         /\ Len(sequence) \in Nat \ {0}
         /\ This \in Entries /\ This = sequence[Len(sequence)]
         /\ This.index + 1 \in 1..Len(Listed(This.element))
         /\ e = Listed(This.element)[This.index + 1]
         /\ e \in DOMAIN graph /\ e # Dummy
<1>1. SequenceInv /\ IsGraph(graph) /\ roots \in Seq(DOMAIN graph)
  BY DEF GraphInv, CheckInv
<1>2. Len(sequence) \in Nat \ {0} /\ This = sequence[Len(sequence)] /\ This \in Entries
  <2>1. Len(sequence) \in Nat \ {0} /\ \A i \in 1..Len(sequence) : sequence[i] \in Entries
    BY <1>1, AdvancedIs
  <2>2. Len(sequence) \in 1..Len(sequence)
    BY <2>1
  <2>3. QED
    BY <2>1, <2>2 DEF This
<1>3. This.element \in DOMAIN graph \cup {Dummy} /\ This.index \in Nat
  BY <1>2 DEF Entries
<1>4. Len(Listed(This.element)) \in Nat
      /\ \A j \in 1..Len(Listed(This.element)) : Listed(This.element)[j] \in DOMAIN graph
  BY <1>1, <1>3, ListedIsTyped
<1>5. This.index < Len(Listed(This.element)) /\ e = Listed(This.element)[This.index + 1]
  BY DEF LooksAt
<1>6. This.index + 1 \in 1..Len(Listed(This.element))
  BY <1>3, <1>4, <1>5
<1>7. QED
  BY <1>1, <1>2, <1>4, <1>5, <1>6 DEF IsGraph

LEMMA FunctionIsList ==
  ASSUME NEW D, NEW m \in Nat, NEW f \in [1..m -> D]
  PROVE  f \in Seq(D) /\ Len(f) = m
OBVIOUS

LEMMA CircleIsOne ==
  ASSUME GraphInv, CheckInv, phase = "check", NEW e, LooksAt(e), e \in Chain
  PROVE  IsCircle(CircleOf(e))
<1> DEFINE n == Len(sequence)
           start == CHOOSE i \in DOMAIN sequence : sequence[i].element = e
           m == n + 1 - start
           back == [k \in 1..m |-> sequence[start + k - 1].element]
<1>1. /\ SequenceInv /\ IsGraph(graph) /\ roots \in Seq(DOMAIN graph)
      /\ This = sequence[n] /\ This \in Entries
      /\ This.index + 1 \in 1..Len(Listed(This.element))
      /\ e = Listed(This.element)[This.index + 1]
      /\ e \in DOMAIN graph /\ e # Dummy
  BY LookedAt
<1>2. n \in Nat \ {0} /\ DOMAIN sequence = 1..n /\ \A i \in 1..n : sequence[i] \in Entries
  BY <1>1, AdvancedIs
<1>3. start \in 1..n /\ sequence[start].element = e
  BY <1>2 DEF Chain
<1>4. \A i \in start..n : sequence[i].element \in DOMAIN graph /\ sequence[i].element # Dummy
  <2>1. \A i, k \in 1..n : sequence[i].element = sequence[k].element => i = k
    BY <1>1, <1>2 DEF SequenceInv
  <2>2. sequence[1].element = Dummy
    BY <1>1 DEF SequenceInv
  <2>3. start # 1
    BY <1>1, <1>3, <2>2
  <2>4. \A i \in start..n : i \in 1..n /\ i # 1 /\ sequence[i] \in Entries
    BY <1>2, <1>3, <2>3
  <2>5. QED
    BY <2>1, <2>2, <2>4, <1>2 DEF Entries
<1>5. \A i \in start..(n - 1) : sequence[i + 1].element \in ElementsOf(graph[sequence[i].element])
  <2> SUFFICES ASSUME NEW i \in start..(n - 1)
               PROVE  sequence[i + 1].element \in ElementsOf(graph[sequence[i].element])
    OBVIOUS
  <2>1. i \in 1..n /\ i < n /\ i \in start..n
    BY <1>2, <1>3
  <2>2. PICK j \in 1..sequence[i].index : Listed(sequence[i].element)[j] = sequence[i + 1].element
    BY <1>1, <1>2, <2>1 DEF SequenceInv, LeadsOn
  <2>3. sequence[i].index \in Nat /\ sequence[i].index <= Len(Listed(sequence[i].element))
    BY <1>1, <1>2, <2>1 DEF SequenceInv, Entries
  <2>4. Len(Listed(sequence[i].element)) \in Nat
        /\ ElementsOf(graph[sequence[i].element])
             = {Listed(sequence[i].element)[k] : k \in 1..Len(Listed(sequence[i].element))}
    BY <1>1, <1>4, <2>1, ListedIsTyped
  <2>5. j \in 1..Len(Listed(sequence[i].element))
    BY <2>2, <2>3, <2>4
  <2>6. QED
    BY <2>2, <2>4, <2>5
<1>6. e \in ElementsOf(graph[sequence[n].element])
  <2>1. sequence[n].element \in DOMAIN graph /\ sequence[n].element # Dummy
    BY <1>2, <1>3, <1>4
  <2>2. QED
    BY <1>1, <2>1, ListedIsTyped
<1>7. m \in Nat \ {0} /\ back \in Seq(DOMAIN graph) /\ Len(back) = m
  <2>1. m \in Nat \ {0}
    BY <1>2, <1>3
  <2>2. \A k \in 1..m : start + k - 1 \in start..n
    BY <1>2, <1>3
  <2>3. \A k \in 1..m : back[k] \in DOMAIN graph
    BY <1>4, <2>2
  <2>4. back \in [1..m -> DOMAIN graph]
    BY <2>3
  <2>5. QED
    BY ONLY <2>1, <2>4, FunctionIsList
<1>8. CircleOf(e) = Append(back, e)
  BY DEF CircleOf
<1>9. /\ Len(CircleOf(e)) = m + 1 /\ CircleOf(e)[m + 1] = e
      /\ \A k \in 1..m : CircleOf(e)[k] = sequence[start + k - 1].element
  BY <1>7, <1>8
<1>10. CircleOf(e)[1] = e
  BY <1>3, <1>7, <1>9
<1>11. ASSUME NEW k \in 1..m
       PROVE  CircleOf(e)[k] \in DOMAIN graph /\ CircleOf(e)[k + 1] \in ElementsOf(graph[CircleOf(e)[k]])
  <2>1. start + k - 1 \in start..n /\ CircleOf(e)[k] = sequence[start + k - 1].element
    BY <1>2, <1>3, <1>9
  <2>2. CASE k < m
    <3>1. k + 1 \in 1..m /\ start + k - 1 \in start..(n - 1) /\ start + (k + 1) - 1 = (start + k - 1) + 1
      BY <1>2, <1>3, <2>2
    <3>2. CircleOf(e)[k + 1] = sequence[(start + k - 1) + 1].element
      BY <1>9, <3>1
    <3>3. QED
      BY <1>4, <1>5, <2>1, <3>1, <3>2
  <2>3. CASE k = m
    <3>1. start + k - 1 = n
      BY <1>2, <1>3, <2>3
    <3>2. QED
      BY <1>4, <1>6, <1>9, <2>1, <2>3, <3>1
  <2>4. QED
    BY <2>2, <2>3, <1>7
<1>12. Len(CircleOf(e)) > 1 /\ Len(CircleOf(e)) - 1 = m /\ CircleOf(e)[Len(CircleOf(e))] = e
  BY <1>7, <1>9
<1>13. \A k \in 1..(Len(CircleOf(e)) - 1) :
         CircleOf(e)[k] \in DOMAIN graph /\ CircleOf(e)[k + 1] \in ElementsOf(graph[CircleOf(e)[k]])
  BY <1>11, <1>12
<1>14. QED
  BY <1>10, <1>12, <1>13 DEF IsCircle

LEMMA FindCircleKeeps ==
  ASSUME GraphInv, CheckInv, NEW e \in DOMAIN graph, FindCircle(e), UNCHANGED <<roots, graph>>
  PROVE  GraphInv' /\ CheckInv'
<1>1. /\ phase = "check" /\ phase' = "failed" /\ validated' = validated
      /\ LooksAt(e) /\ e \in Chain /\ circle' = CircleOf(e)
  BY DEF FindCircle, LooksAt
<1>2. IsCircle(CircleOf(e))
  BY <1>1, CircleIsOne
<1>3. IsCircle(circle)'
  BY <1>1, <1>2 DEF IsCircle
<1>4. SafeInv'
  BY <1>1 DEF CheckInv, SafeInv
<1>5. QED
  BY <1>1, <1>3, <1>4 DEF GraphInv, CheckInv, Accepted

LEMMA DescendKeeps ==
  ASSUME GraphInv, CheckInv, NEW e \in DOMAIN graph, Descend(e), UNCHANGED <<roots, graph>>
  PROVE  GraphInv' /\ CheckInv'
<1>0. PICK n : n = Len(sequence)
  OBVIOUS
<1>1. /\ phase = "check" /\ phase' = "check" /\ validated' = validated /\ circle' = circle
      /\ LooksAt(e) /\ e \notin Chain \cup validated /\ sequence' = Append(Advanced, Entry(e))
  BY DEF Descend, LooksAt
<1>2. /\ SequenceInv /\ This = sequence[n] /\ This \in Entries
      /\ This.index + 1 \in 1..Len(Listed(This.element))
      /\ e = Listed(This.element)[This.index + 1] /\ e # Dummy
      /\ IsGraph(graph) /\ roots \in Seq(DOMAIN graph)
  BY <1>0, <1>1, LookedAt
<1>3. /\ n \in Nat \ {0} /\ DOMAIN sequence = 1..n /\ \A i \in 1..n : sequence[i] \in Entries
      /\ Advanced \in Seq(Entries) /\ Len(Advanced) = n
      /\ \A i \in 1..n : /\ Advanced[i].element = sequence[i].element
                        /\ Advanced[i].index = IF i = n THEN sequence[i].index + 1 ELSE sequence[i].index
  BY <1>0, <1>2, AdvancedIs
<1>4. Entry(e) \in Entries /\ Entry(e).element = e /\ Entry(e).index = 0
  BY DEF Entry, Entries
<1>5. /\ sequence' \in Seq(Entries) /\ Len(sequence') = n + 1 /\ DOMAIN sequence' = 1..(n + 1)
      /\ sequence'[n + 1] = Entry(e) /\ \A i \in 1..n : sequence'[i] = Advanced[i]
  BY <1>1, <1>3, <1>4
<1>6. /\ sequence'[n + 1].element = e /\ sequence'[n + 1].index = 0
      /\ \A i \in 1..n : /\ sequence'[i].element = sequence[i].element
                        /\ sequence'[i].index = IF i = n THEN sequence[i].index + 1 ELSE sequence[i].index
  BY <1>3, <1>4, <1>5
<1>7. \A f : Listed(f)' = Listed(f)
  BY DEF Listed
<1>8. \A i \in 1..n : sequence[i].element # e /\ sequence[i].element \notin validated
  BY <1>1, <1>2, <1>3 DEF Chain, SequenceInv
<1>9. ASSUME NEW i \in 1..(n + 1), NEW k \in 1..(n + 1), sequence'[i].element = sequence'[k].element
      PROVE  i = k
  <2>1. \A a, b \in 1..n : sequence[a].element = sequence[b].element => a = b
    BY <1>2, <1>3 DEF SequenceInv
  <2>2. \A a \in 1..(n + 1) : a \in 1..n \/ a = n + 1
    BY <1>3
  <2>3. CASE i \in 1..n /\ k \in 1..n
    BY <1>6, <1>9, <2>1, <2>3
  <2>4. CASE i = n + 1 \/ k = n + 1
    BY <1>6, <1>8, <1>9, <2>2, <2>4
  <2>5. QED
    BY <2>2, <2>3, <2>4
<1>10. ASSUME NEW i \in 1..(n + 1)
       PROVE  sequence'[i].index <= Len(Listed(sequence'[i].element)) /\ PassedOver(i)'
  <2>1. CASE i = n + 1
    <3>1. Len(Listed(e)) \in Nat
      BY <1>2, ListedIsTyped
    <3>2. QED
      BY <1>6, <2>1, <3>1 DEF PassedOver
  <2>2. CASE i = n
    <3>1. n \in 1..n /\ sequence'[n].element = This.element /\ sequence'[n].index = This.index + 1
      BY <1>2, <1>3, <1>6
    <3>2. \A j \in 1..This.index : Listed(This.element)[j] \in validated
      <4>1. n \in DOMAIN sequence /\ ~(n < Len(sequence))
        BY <1>0, <1>3
      <4>2. PassedOver(n)
        BY <1>2, <4>1 DEF SequenceInv
      <4>3. QED
        BY <1>2, <4>1, <4>2 DEF PassedOver
    <3>3. This.index \in Nat
      BY <1>2 DEF Entries
    <3>4. \A j \in 1..(This.index + 1) : Listed(This.element)[j] \in validated \/ Listed(This.element)[j] = e
      BY <1>2, <3>2, <3>3
    <3>5. n < Len(sequence') /\ sequence'[n + 1].element = e
      BY <1>3, <1>5, <1>6
    <3>6. PassedOver(n)'
      BY <1>1, <1>7, <3>1, <3>4, <3>5 DEF PassedOver
    <3>7. QED
      BY <1>2, <2>2, <3>1, <3>6
  <2>3. CASE i \in 1..(n - 1)
    <3>1. i \in 1..n /\ i # n /\ i + 1 \in 1..n /\ i < Len(sequence) /\ i < Len(sequence') /\ i \in DOMAIN sequence
      BY <1>0, <1>3, <1>5, <2>3
    <3>2. sequence'[i].element = sequence[i].element /\ sequence'[i].index = sequence[i].index
          /\ sequence'[i + 1].element = sequence[i + 1].element
      BY <1>6, <3>1
    <3>3. sequence[i].index <= Len(Listed(sequence[i].element)) /\ PassedOver(i)
      BY <1>2, <3>1 DEF SequenceInv
    <3>4. QED
      BY <1>1, <1>7, <3>1, <3>2, <3>3 DEF PassedOver
  <2>4. QED
    BY <1>3, <2>1, <2>2, <2>3
<1>11. ASSUME NEW i \in 1..n
       PROVE  LeadsOn(i)'
  <2>1. CASE i = n
    <3>1. n \in 1..n /\ sequence'[n].element = This.element /\ sequence'[n].index = This.index + 1
      BY <1>2, <1>3, <1>6
    <3>2. This.index + 1 \in 1..(This.index + 1)
      BY <1>2 DEF Entries
    <3>3. QED
      BY <1>2, <1>6, <1>7, <2>1, <3>1, <3>2 DEF LeadsOn
  <2>2. CASE i # n
    <3>1. i \in 1..n /\ i + 1 \in 1..n /\ i < Len(sequence) /\ i \in DOMAIN sequence
      BY <1>0, <1>3, <2>2
    <3>2. sequence'[i].element = sequence[i].element /\ sequence'[i].index = sequence[i].index
          /\ sequence'[i + 1].element = sequence[i + 1].element
      BY <1>6, <2>2, <3>1
    <3>3. LeadsOn(i)
      BY <1>2, <3>1 DEF SequenceInv
    <3>4. QED
      BY <1>7, <3>2, <3>3 DEF LeadsOn
  <2>3. QED
    BY <2>1, <2>2
<1>12. sequence'[1].element = Dummy /\ sequence' # <<>>
  BY <1>2, <1>3, <1>5, <1>6 DEF SequenceInv
<1>13. \A i \in 1..(n + 1) : sequence'[i].element \notin validated'
  BY <1>1, <1>3, <1>6, <1>8
<1>14. Entries' = Entries
  BY DEF Entries
<1>15. SequenceInv'
  <2>1. sequence' \in Seq(Entries') /\ DOMAIN sequence' = 1..(n + 1)
    BY <1>5, <1>14
  <2>2. \A i \in DOMAIN sequence' : i < Len(sequence') => LeadsOn(i)'
    <3>1. \A i \in DOMAIN sequence' : i < Len(sequence') => i \in 1..n
      BY <1>3, <1>5
    <3>2. QED
      BY <1>11, <3>1
  <2>3. \A i \in DOMAIN sequence' : (sequence[i].index <= Len(Listed(sequence[i].element)))' /\ PassedOver(i)'
    BY <1>7, <1>10, <2>1
  <2>4. \A i, k \in DOMAIN sequence' : (sequence[i].element = sequence[k].element)' => i = k
    BY <1>9, <2>1
  <2>5. \A i \in DOMAIN sequence' : (sequence[i].element \notin validated)'
    BY <1>13, <2>1
  <2>6. QED
    BY <1>12, <2>1, <2>2, <2>3, <2>4, <2>5 DEF SequenceInv
<1>16. SafeInv'
  BY <1>1 DEF CheckInv, SafeInv
<1>17. circle' = <<>>
  BY <1>1 DEF CheckInv
<1>18. QED
  BY <1>1, <1>15, <1>16, <1>17 DEF GraphInv, CheckInv, Accepted

LEMMA PassOverKeeps ==
  ASSUME GraphInv, CheckInv, NEW e \in DOMAIN graph, PassOver(e), UNCHANGED <<roots, graph>>
  PROVE  GraphInv' /\ CheckInv'
<1>0. PICK n : n = Len(sequence)
  OBVIOUS
<1>1. /\ phase = "check" /\ phase' = "check" /\ validated' = validated /\ circle' = circle
      /\ LooksAt(e) /\ e \in validated \ Chain /\ sequence' = Advanced
  BY DEF PassOver, LooksAt
<1>2. /\ SequenceInv /\ This = sequence[n] /\ This \in Entries
      /\ This.index + 1 \in 1..Len(Listed(This.element))
      /\ e = Listed(This.element)[This.index + 1]
  BY <1>0, <1>1, LookedAt
<1>3. /\ n \in Nat \ {0} /\ DOMAIN sequence = 1..n
      /\ sequence' \in Seq(Entries) /\ Len(sequence') = n
      /\ \A i \in 1..n : /\ sequence'[i].element = sequence[i].element
                        /\ sequence'[i].index = IF i = n THEN sequence[i].index + 1 ELSE sequence[i].index
  BY <1>0, <1>1, <1>2, AdvancedIs
<1>4. DOMAIN sequence' = 1..n /\ sequence' # <<>>
  BY <1>3
<1>5. \A f : Listed(f)' = Listed(f)
  BY DEF Listed
<1>6. ASSUME NEW i \in 1..n
      PROVE  sequence'[i].index <= Len(Listed(sequence'[i].element)) /\ PassedOver(i)'
  <2>1. PassedOver(i) /\ sequence[i].index <= Len(Listed(sequence[i].element))
    BY <1>2, <1>3 DEF SequenceInv
  <2>2. CASE i = n
    <3>1. sequence'[n].element = This.element /\ sequence'[n].index = This.index + 1
      BY <1>2, <1>3, <2>2
    <3>2. \A j \in 1..This.index : Listed(This.element)[j] \in validated
      BY <1>0, <1>2, <1>3, <2>1, <2>2 DEF PassedOver
    <3>3. This.index \in Nat
      BY <1>2 DEF Entries
    <3>4. \A j \in 1..(This.index + 1) : Listed(This.element)[j] \in validated
      BY <1>1, <1>2, <3>2, <3>3
    <3>5. QED
      BY <1>1, <1>2, <1>5, <2>2, <3>1, <3>4 DEF PassedOver
  <2>3. CASE i # n
    <3>1. i + 1 \in 1..n /\ i < n
      BY <1>3, <2>3
    <3>2. sequence'[i].element = sequence[i].element /\ sequence'[i].index = sequence[i].index
          /\ sequence'[i + 1].element = sequence[i + 1].element
      BY <1>3, <2>3, <3>1
    <3>3. QED
      BY <1>0, <1>1, <1>3, <1>5, <2>1, <3>1, <3>2 DEF PassedOver
  <2>4. QED
    BY <2>2, <2>3
<1>7. ASSUME NEW i \in 1..n, i < n
      PROVE  LeadsOn(i)'
  <2>1. i + 1 \in 1..n /\ i # n
    BY <1>3, <1>7
  <2>2. sequence'[i].element = sequence[i].element /\ sequence'[i].index = sequence[i].index
        /\ sequence'[i + 1].element = sequence[i + 1].element
    BY <1>3, <2>1
  <2>3. LeadsOn(i)
    BY <1>0, <1>2, <1>3, <1>7 DEF SequenceInv
  <2>4. QED
    BY <1>5, <2>2, <2>3 DEF LeadsOn
<1>8. /\ sequence'[1].element = Dummy
      /\ \A i \in 1..n : sequence'[i].element \notin validated'
      /\ \A i, k \in 1..n : sequence'[i].element = sequence'[k].element => i = k
  <2>1. /\ sequence[1].element = Dummy
        /\ \A i \in 1..n : sequence[i].element \notin validated
        /\ \A i, k \in 1..n : sequence[i].element = sequence[k].element => i = k
    BY <1>2, <1>3 DEF SequenceInv
  <2>2. 1 \in 1..n /\ \A i \in 1..n : sequence'[i].element = sequence[i].element
    BY <1>3
  <2>3. QED
    BY <1>1, <2>1, <2>2
<1>9. Entries' = Entries
  BY DEF Entries
<1>10. SequenceInv'
  <2>1. sequence' \in Seq(Entries')
    BY <1>3, <1>9
  <2>2. \A i \in DOMAIN sequence' : i < Len(sequence') => LeadsOn(i)'
    BY <1>3, <1>4, <1>7
  <2>3. \A i \in DOMAIN sequence' : (sequence[i].index <= Len(Listed(sequence[i].element)))' /\ PassedOver(i)'
    BY <1>4, <1>5, <1>6
  <2>4. \A i, k \in DOMAIN sequence' : (sequence[i].element = sequence[k].element)' => i = k
    BY <1>4, <1>8
  <2>5. \A i \in DOMAIN sequence' : (sequence[i].element \notin validated)'
    BY <1>4, <1>8
  <2>6. QED
    BY <1>4, <1>8, <2>1, <2>2, <2>3, <2>4, <2>5 DEF SequenceInv
<1>11. SafeInv'
  BY <1>1 DEF CheckInv, SafeInv
<1>12. circle' = <<>>
  BY <1>1 DEF CheckInv
<1>13. QED
  BY <1>1, <1>10, <1>11, <1>12 DEF GraphInv, CheckInv, Accepted

\* What was validated is closed, so that no more is reached from it.
LEMMA ValidatedIsClosed ==
  ASSUME IsGraph(graph), SafeInv
  PROVE  validated \ {Dummy} \in SUBSET DOMAIN graph /\ Closed(graph, validated \ {Dummy})
<1>1. validated \ {Dummy} \subseteq DOMAIN graph
  BY DEF SafeInv
<1>2. ASSUME NEW e \in validated \ {Dummy}
      PROVE  ElementsOf(graph[e]) \subseteq validated \ {Dummy}
  BY <1>1, ElementsAreLoaded DEF SafeInv, IsGraph
<1>3. QED
  BY <1>1, <1>2 DEF Closed

LEMMA ValidateKeeps ==
  ASSUME GraphInv, CheckInv, Validate, UNCHANGED <<roots, graph>>
  PROVE  GraphInv' /\ CheckInv'
<1>0. PICK n : n = Len(sequence)
  OBVIOUS
<1>e. PICK e : e = This.element
  OBVIOUS
<1>1. /\ phase = "check" /\ This.index >= Len(Listed(e)) /\ circle' = circle
      /\ sequence' = SubSeq(sequence, 1, n - 1) /\ validated' = validated \cup {e}
      /\ phase' = IF n = 1 THEN "sort" ELSE "check"
  BY <1>0, <1>e DEF Validate
<1>2. SequenceInv /\ SafeInv /\ IsGraph(graph) /\ roots \in Seq(DOMAIN graph) /\ circle = <<>>
  BY <1>1 DEF GraphInv, CheckInv
<1>3. /\ n \in Nat \ {0} /\ DOMAIN sequence = 1..n /\ \A i \in 1..n : sequence[i] \in Entries
      /\ n \in DOMAIN sequence /\ ~(n < n) /\ This = sequence[n] /\ This \in Entries
      /\ sequence[n].element = e
  <2>1. n \in Nat \ {0} /\ DOMAIN sequence = 1..n /\ \A i \in 1..n : sequence[i] \in Entries
    BY <1>0, <1>2, AdvancedIs
  <2>2. QED
    BY <1>0, <1>e, <2>1 DEF This
<1>4. /\ e \in DOMAIN graph \cup {Dummy} /\ e \notin validated
      /\ This.index \in Nat /\ This.index <= Len(Listed(e)) /\ PassedOver(n)
  BY <1>2, <1>3 DEF SequenceInv, Entries
<1>5. /\ Len(Listed(e)) \in Nat
      /\ \A j \in 1..Len(Listed(e)) : Listed(e)[j] \in DOMAIN graph
      /\ e = Dummy => Listed(e) = roots
      /\ e # Dummy => ElementsOf(graph[e]) = {Listed(e)[j] : j \in 1..Len(Listed(e))}
  BY <1>2, <1>4, ListedIsTyped
<1>6. \A j \in 1..Len(Listed(e)) : Listed(e)[j] \in validated
  <2>1. This.index = Len(Listed(e))
    BY <1>1, <1>4, <1>5
  <2>2. \A j \in 1..sequence[n].index : Listed(sequence[n].element)[j] \in validated
    BY <1>0, <1>3, <1>4 DEF PassedOver
  <2>3. QED
    BY <1>3, <2>1, <2>2
<1>7. SafeInv'
  <2>1. CASE e = Dummy
    BY <1>1, <1>2, <2>1 DEF SafeInv
  <2>2. CASE e # Dummy
    <3>1. ElementsOf(graph[e]) \subseteq validated \ {Dummy}
      BY <1>2, <1>5, <1>6, <2>2 DEF IsGraph
    <3>2. ReachedFrom(graph, ElementsOf(graph[e])) \subseteq validated \ {Dummy}
      BY <1>2, <3>1, ValidatedIsClosed, ReachedIsLeast
    <3>3. ~DependsOn(graph, e, e)
      BY <1>4, <3>2 DEF DependsOn
    <3>4. QED
      BY <1>1, <1>2, <1>4, <3>1, <3>3 DEF SafeInv
  <2>3. QED
    BY <2>1, <2>2
<1>8. CASE n = 1
  <2>1. e = Dummy /\ phase' = "sort"
    BY <1>1, <1>2, <1>3, <1>8 DEF SequenceInv
  <2>2. \A i \in DOMAIN roots : roots[i] \in validated'
    BY <1>1, <1>2, <1>5, <1>6, <2>1
  <2>3. QED
    BY <1>1, <1>2, <1>7, <2>1, <2>2 DEF GraphInv, CheckInv, Accepted
<1>9. CASE n # 1
  <2>1. n - 1 \in Nat \ {0} /\ \A i \in 1..(n - 1) : i \in 1..n
    BY <1>3, <1>9
  <2>2. sequence \in Seq(Entries) /\ sequence # <<>>
    BY <1>2 DEF SequenceInv
  <2>3. /\ sequence' \in Seq(Entries) /\ Len(sequence') = n - 1 /\ DOMAIN sequence' = 1..(n - 1)
        /\ \A i \in 1..(n - 1) : sequence'[i] = sequence[i]
    BY <1>0, <1>1, <2>1, <2>2
  <2>4. \A f : Listed(f)' = Listed(f)
    BY DEF Listed
  <2>5. Entries' = Entries
    BY DEF Entries
  <2>6. \A i \in 1..(n - 1) : sequence[i].element # e
    BY <1>2, <1>3, <2>1 DEF SequenceInv
  <2>7. ASSUME NEW i \in 1..(n - 1)
        PROVE  PassedOver(i)'
    <3>1. PassedOver(i)
      BY <1>2, <1>3, <2>1 DEF SequenceInv
    <3>2. CASE i = n - 1
      BY <1>0, <1>1, <1>3, <2>3, <2>4, <3>1, <3>2 DEF PassedOver
    <3>3. CASE i # n - 1
      <4>1. i + 1 \in 1..(n - 1) /\ i < n - 1
        BY <2>1, <3>3
      <4>2. QED
        BY <1>0, <1>1, <2>3, <2>4, <3>1, <4>1 DEF PassedOver
    <3>4. QED
      BY <3>2, <3>3
  <2>8. ASSUME NEW i \in 1..(n - 1), i < n - 1
        PROVE  LeadsOn(i)'
    <3>1. i + 1 \in 1..(n - 1) /\ i < n
      BY <1>3, <2>1, <2>8
    <3>2. LeadsOn(i)
      BY <1>0, <1>2, <1>3, <2>1, <3>1 DEF SequenceInv
    <3>3. QED
      BY <2>3, <2>4, <3>1, <3>2 DEF LeadsOn
  <2>9. SequenceInv'
    <3>1. sequence' \in Seq(Entries') /\ sequence' # <<>> /\ sequence'[1].element = Dummy
      <4>1. 1 \in 1..(n - 1) /\ sequence[1].element = Dummy
        BY <1>2, <1>3, <2>1 DEF SequenceInv
      <4>2. QED
        BY <2>3, <2>5, <4>1
    <3>2. \A i \in DOMAIN sequence' : i < Len(sequence') => LeadsOn(i)'
      BY <2>3, <2>8
    <3>3. \A i \in DOMAIN sequence' : (sequence[i].index <= Len(Listed(sequence[i].element)))' /\ PassedOver(i)'
      BY <1>2, <1>3, <2>1, <2>3, <2>4, <2>7 DEF SequenceInv
    <3>4. \A i, k \in DOMAIN sequence' : (sequence[i].element = sequence[k].element)' => i = k
      BY <1>2, <1>3, <2>1, <2>3 DEF SequenceInv
    <3>5. \A i \in DOMAIN sequence' : (sequence[i].element \notin validated)'
      BY <1>1, <1>2, <1>3, <2>1, <2>3, <2>6 DEF SequenceInv
    <3>6. QED
      BY <3>1, <3>2, <3>3, <3>4, <3>5 DEF SequenceInv
  <2>10. QED
    BY <1>1, <1>2, <1>7, <1>9, <2>9 DEF GraphInv, CheckInv, Accepted
<1>10. QED
  BY <1>8, <1>9

LEMMA CheckStepKeeps ==
  ASSUME GraphInv, CheckInv, CheckStep
  PROVE  GraphInv' /\ CheckInv'
BY FindCircleKeeps, DescendKeeps, PassOverKeeps, ValidateKeeps DEF CheckStep

\* In every other phase the search has ended, or has not begun.
LEMMA RestKeepsCheckInv ==
  ASSUME GraphInv, CheckInv, phase \in {"assert", "plan", "select", "done"},
         phase' \in {"assert", "plan", "select", "done", "failed"}, UNCHANGED <<roots, graph, checkVars>>
  PROVE  GraphInv' /\ CheckInv'
<1>1. UNCHANGED <<sequence, validated, circle>>
  BY DEF checkVars
<1>2. SafeInv'
  BY <1>1 DEF CheckInv, SafeInv
<1>3. circle = <<>>
  BY DEF CheckInv
<1>4. QED
  BY <1>1, <1>2, <1>3 DEF GraphInv, CheckInv, Accepted

LEMMA LoadKeeps ==
  ASSUME GraphInv, CheckInv, Load
  PROVE  GraphInv' /\ CheckInv'
<1>1. UNCHANGED <<graph, sequence, validated, circle>> /\ phase = "load" /\ phase' \in {"load", "failed"}
  BY DEF Load, checkVars
<1>2. validated = {} /\ circle = <<>>
  BY <1>1 DEF CheckInv
<1>3. QED
  BY <1>1, <1>2 DEF GraphInv, CheckInv, SafeInv, Accepted

LEMMA StartCheckKeeps ==
  ASSUME GraphInv, CheckInv, StartCheck
  PROVE  GraphInv' /\ CheckInv'
<1>1. /\ phase = "load" /\ phase' = "check" /\ sequence' = <<Entry(Dummy)>>
      /\ validated' = validated /\ circle' = circle /\ roots' = roots
      /\ IsGraph(graph') /\ roots \in Seq(DOMAIN graph')
  BY DEF StartCheck, BeginCheck
<1>2. validated = {} /\ circle = <<>>
  BY <1>1 DEF CheckInv
<1>3. Entry(Dummy).element = Dummy /\ Entry(Dummy).index = 0 /\ Entry(Dummy) \in Entries'
  BY DEF Entry, Entries
<1>4. /\ sequence' \in Seq(Entries') /\ DOMAIN sequence' = {1} /\ Len(sequence') = 1
      /\ sequence'[1] = Entry(Dummy) /\ sequence' # <<>>
  BY <1>1, <1>3
<1>5. IsGraph(graph)' /\ (roots \in Seq(DOMAIN graph))'
  BY <1>1 DEF IsGraph
<1>6. (Len(Listed(Dummy)))' \in Nat
  BY <1>1 DEF Listed
<1>7. SequenceInv'
  <2>1. PassedOver(1)'
    BY <1>3, <1>4 DEF PassedOver
  <2>2. \A i \in DOMAIN sequence' : (sequence[i].index <= Len(Listed(sequence[i].element)))' /\ PassedOver(i)'
    BY <1>3, <1>4, <1>6, <2>1
  <2>3. QED
    BY <1>1, <1>2, <1>3, <1>4, <2>2 DEF SequenceInv
<1>8. SafeInv'
  BY <1>1, <1>2 DEF SafeInv
<1>9. QED
  BY <1>1, <1>2, <1>5, <1>7, <1>8 DEF GraphInv, CheckInv, Accepted

LEMMA SortedKeeps ==
  ASSUME GraphInv, CheckInv, Sorted
  PROVE  GraphInv' /\ CheckInv'
<1>1. /\ phase = "sort" /\ phase' = "assert" /\ UNCHANGED <<roots, sequence, validated, circle>>
      /\ IsGraph(graph') /\ DOMAIN graph' = DOMAIN graph
      /\ \A e \in DOMAIN graph : DepsOf(graph', e) = DepsOf(graph, e)
  BY DEF Sorted, checkVars
<1>2. \A e \in DOMAIN graph : ElementsOf(graph'[e]) = ElementsOf(graph[e])
  <2>1. \A deps, e : ElementsOf(deps[e]) = {d.element : d \in DepsOf(deps, e)}
    BY DEF ElementsOf, DepsOf
  <2>2. QED
    BY <1>1, <2>1
<1>3. \A e \in DOMAIN graph : DependsOn(graph', e, e) <=> DependsOn(graph, e, e)
  BY <1>1, <1>2, OrderDoesNotMatter DEF DependsOn
<1>4. SafeInv'
  BY <1>1, <1>2, <1>3 DEF CheckInv, SafeInv
<1>5. circle = <<>> /\ \A i \in DOMAIN roots : roots[i] \in validated
  BY <1>1 DEF CheckInv, Accepted
<1>6. IsGraph(graph)' /\ roots' \in Seq(DOMAIN graph')
  BY <1>1 DEF GraphInv
<1>7. QED
  BY <1>1, <1>4, <1>5, <1>6 DEF GraphInv, CheckInv, Accepted

LEMMA GraphAndCheckKept ==
  ASSUME GraphInv, CheckInv, [PlanningNext]_graphVars
  PROVE  GraphInv' /\ CheckInv'
<1>1. CASE StartPlan
  BY <1>1, RestKeepsCheckInv DEF StartPlan, BeginPlan
<1>2. CASE TakeOut
  BY <1>2, RestKeepsCheckInv DEF TakeOut
<1>3. CASE PlanStep
  <2>1. phase = "plan" /\ phase' \in {"plan", "select"} /\ UNCHANGED <<roots, graph, checkVars>>
    BY <1>3 DEF PlanStep, VisitRoot, VisitDependency, InLoop, SecondLoop, Return, LoopEnded, EndPlan
  <2>2. QED
    BY <2>1, RestKeepsCheckInv
<1>4. CASE UNCHANGED graphVars
  <2>1. UNCHANGED <<phase, roots, graph, sequence, validated, circle>>
    BY <1>4 DEF graphVars, checkVars
  <2>2. GraphInv'
    BY <2>1 DEF GraphInv
  <2>3. SafeInv'
    BY <2>1 DEF CheckInv, SafeInv
  <2>4. \A e : Listed(e)' = Listed(e)
    BY <2>1 DEF Listed
  <2>5. SequenceInv <=> SequenceInv'
    <3>1. \A i : PassedOver(i)' <=> PassedOver(i)
      BY <2>1, <2>4 DEF PassedOver
    <3>2. \A i : LeadsOn(i)' <=> LeadsOn(i)
      BY <2>1, <2>4 DEF LeadsOn
    <3>3. Entries' = Entries
      BY <2>1 DEF Entries
    <3>4. QED
      BY <2>1, <2>4, <3>1, <3>2, <3>3, Zenon DEF SequenceInv
  <2>6. (circle # <<>> => IsCircle(circle)) => (circle # <<>> => IsCircle(circle))'
    BY <2>1 DEF IsCircle
  <2>7. QED
    BY <2>1, <2>2, <2>3, <2>5, <2>6 DEF CheckInv, Accepted
<1>5. QED
  BY <1>1, <1>2, <1>3, <1>4, LoadKeeps, StartCheckKeeps, SortedKeeps, CheckStepKeeps DEF PlanningNext

LEMMA GraphAndCheckBegin ==
  ASSUME PlanningInit
  PROVE  GraphInv /\ CheckInv
BY DEF PlanningInit, CheckInit, GraphInv, IsGraph, CheckInv, SafeInv, Accepted

\* CircularFound, for every graph: no load goes on with an element that its targets reach and that
\* depends on itself, and the chain of Loader._check_circular_deps() leads back to its start.
THEOREM CirclesAreFound == PlanningSpec => []CircularFound
<1>1. PlanningInit => GraphInv /\ CheckInv
  BY GraphAndCheckBegin
<1>2. (GraphInv /\ CheckInv) /\ [PlanningNext]_graphVars => (GraphInv /\ CheckInv)'
  BY GraphAndCheckKept
<1>3. GraphInv /\ CheckInv => CircularFound
  <2> SUFFICES ASSUME GraphInv, CheckInv PROVE CircularFound
    OBVIOUS
  <2>1. ASSUME Accepted, NEW e \in ReachedFrom(graph, {roots[i] : i \in DOMAIN roots})
        PROVE  ~DependsOn(graph, e, e)
    <3>1. IsGraph(graph) /\ SafeInv /\ roots \in Seq(DOMAIN graph) /\ \A i \in DOMAIN roots : roots[i] \in validated
      BY <2>1 DEF GraphInv, CheckInv, Accepted
    <3>2. \A i \in DOMAIN roots : roots[i] \in DOMAIN graph
      BY <3>1
    <3>3. {roots[i] : i \in DOMAIN roots} \subseteq validated \ {Dummy}
      BY <3>1, <3>2 DEF IsGraph
    <3>4. e \in validated \ {Dummy}
      BY <2>1, <3>1, <3>3, ValidatedIsClosed, ReachedIsLeast
    <3>5. QED
      BY <3>1, <3>4 DEF SafeInv
  <2>2. QED
    BY <2>1 DEF CircularFound, CheckInv, Accepted, IsCircle
<1>4. QED
  BY <1>1, <1>2, <1>3, PTL DEF PlanningSpec

-----------------------------------------------------------------------------
(* The plan.  In depth_map every element comes after all that it depends on, *)
(* with a depth that is no greater; and what a call has passed over is there  *)
(* already, deep enough, or is what it has called plan_element() with.       *)

Safe == validated \ {Dummy}
Deeper(scope, depth) == IF scope = "build" THEN depth + 1 ELSE depth

MapEntries == [element : Safe, depth : Nat]
NeedsBefore(map, k) ==
  \A j \in DOMAIN graph[map[k].element] : \A scope \in graph[map[k].element][j].type :
    \E i \in DOMAIN map : /\ i < k /\ map[i].element = graph[map[k].element][j].element
                          /\ map[i].depth >= Deeper(scope, map[k].depth)
MapInv(map) ==
  /\ map \in Seq(MapEntries)
  /\ \A i, k \in DOMAIN map : map[i].element = map[k].element => i = k
  /\ \A k \in DOMAIN map : NeedsBefore(map, k)

CallEntries == [element : Safe, depth : Nat, scope : {"build", "runtime"}, index : Nat]
Passed(call, scope, j) ==
  (call.scope = "build" /\ scope = "runtime") \/ (call.scope = scope /\ j <= call.index)
CallInv(k) ==
  /\ calls[k].index <= Len(graph[calls[k].element])
  /\ \A i \in DOMAIN depthMap :
       depthMap[i].element = calls[k].element => depthMap[i].depth < calls[k].depth
  /\ \A j \in DOMAIN graph[calls[k].element] : \A scope \in graph[calls[k].element][j].type :
       Passed(calls[k], scope, j) =>
         \/ Planned(graph[calls[k].element][j].element, Deeper(scope, calls[k].depth))
         \/ /\ k < Len(calls) /\ calls[k + 1].element = graph[calls[k].element][j].element
            /\ calls[k + 1].depth = Deeper(scope, calls[k].depth)
CallsInv ==
  /\ left \in Seq(Safe) /\ calls \in Seq(CallEntries)
  /\ \A i, k \in DOMAIN calls : i < k => DependsOn(graph, calls[i].element, calls[k].element)
  /\ \A k \in DOMAIN calls : CallInv(k)

\* An element is planned with all that it depends on, until exceptions are taken out.
PlanIsClosed ==
  \A p \in DOMAIN plan : \A e \in ElementsOf(graph[plan[p]]) : \E q \in DOMAIN plan : plan[q] = e

PlanIsSafe == DOMAIN plan \subseteq Nat /\ \A p \in DOMAIN plan : plan[p] \in Safe

PlanInv ==
  /\ phase \in {"load", "check", "sort", "assert"} => calls = <<>> /\ depthMap = <<>>
  /\ phase \notin {"select", "done"} => plan = <<>>
  /\ phase = "plan" => MapInv(depthMap) /\ CallsInv
  /\ phase \in {"select", "done"} => PlanIsTopological
  /\ phase = "select" => PlanIsClosed /\ PlanIsSafe

LEMMA SafeIs ==
  ASSUME GraphInv, CheckInv, phase = "plan"
  PROVE  /\ IsGraph(graph) /\ Safe \subseteq DOMAIN graph
         /\ \A e \in Safe : ElementsOf(graph[e]) \subseteq Safe /\ ~DependsOn(graph, e, e)
<1>1. IsGraph(graph) /\ SafeInv
  BY DEF GraphInv, CheckInv
<1>2. QED
  BY <1>1, ValidatedIsClosed DEF Safe, SafeInv, Closed

\* The call that goes on.
LEMMA CallerIs ==
  ASSUME GraphInv, CheckInv, PlanInv, phase = "plan", calls # <<>>
  PROVE  /\ MapInv(depthMap) /\ CallsInv
         /\ Len(calls) \in Nat \ {0} /\ DOMAIN calls = 1..Len(calls)
         /\ \A k \in 1..Len(calls) : calls[k] \in CallEntries
         /\ Caller = calls[Len(calls)] /\ Caller \in CallEntries
         /\ Caller.element \in DOMAIN graph
         /\ Len(graph[Caller.element]) \in Nat
         /\ DOMAIN graph[Caller.element] = 1..Len(graph[Caller.element])
<1>1. MapInv(depthMap) /\ CallsInv
  BY DEF PlanInv
<1>2. calls \in Seq(CallEntries)
  BY <1>1 DEF CallsInv
<1>3. Len(calls) \in Nat \ {0} /\ DOMAIN calls = 1..Len(calls) /\ \A k \in 1..Len(calls) : calls[k] \in CallEntries
  BY <1>2
<1>4. Caller = calls[Len(calls)] /\ Caller \in CallEntries
  BY <1>3 DEF Caller
<1>5. Caller.element \in DOMAIN graph
  BY <1>4, SafeIs DEF CallEntries
<1>6. QED
  BY <1>1, <1>3, <1>4, <1>5, SafeIs, ElementsAreLoaded

\* No dependency leads back to a call that has not returned.
LEMMA NeverVisitedTwice ==
  ASSUME GraphInv, CheckInv, PlanInv, phase = "plan", calls # <<>>,
         NEW j \in DOMAIN graph[Caller.element], NEW e, e = graph[Caller.element][j].element
  PROVE  /\ e \in Safe /\ ~Visiting(e)
         /\ \A k \in DOMAIN calls : DependsOn(graph, calls[k].element, e)
<1>0. PICK m : m = Len(calls)
  OBVIOUS
<1>1. /\ CallsInv /\ m \in Nat \ {0} /\ DOMAIN calls = 1..m /\ \A k \in 1..m : calls[k] \in CallEntries
      /\ Caller = calls[m] /\ Caller.element \in Safe /\ Caller.element \in DOMAIN graph
  BY <1>0, CallerIs DEF CallEntries
<1>2. IsGraph(graph) /\ Safe \subseteq DOMAIN graph
      /\ \A f \in Safe : ElementsOf(graph[f]) \subseteq Safe /\ ~DependsOn(graph, f, f)
  BY SafeIs
<1>3. e \in ElementsOf(graph[Caller.element])
  BY DEF ElementsOf
<1>4. e \in Safe
  BY <1>1, <1>2, <1>3
<1>5. ASSUME NEW k \in 1..m
      PROVE  DependsOn(graph, calls[k].element, e)
  <2>1. CASE k = m
    BY <1>1, <1>2, <1>3, <2>1, DependsDirectly
  <2>2. CASE k # m
    <3>1. DependsOn(graph, calls[k].element, Caller.element)
      BY <1>1, <2>2 DEF CallsInv
    <3>2. calls[k].element \in DOMAIN graph
      BY <1>1, <1>2 DEF CallEntries
    <3>3. QED
      BY <1>2, <1>3, <3>1, <3>2, DependsFurther
  <2>3. QED
    BY <2>1, <2>2
<1>6. QED
  BY <1>1, <1>2, <1>4, <1>5 DEF Visiting

LEMMA OneMore ==
  \A n \in Nat : \A k \in 1..n + 1 : k \in 1..n \/ k = n + 1
OBVIOUS

\* A caller moves on to the next dependency, and calls plan_element() with it or not.
LEMMA VisitDependencyKeeps ==
  ASSUME GraphInv, CheckInv, PlanInv, VisitDependency, UNCHANGED <<roots, graph, checkVars>>
  PROVE  PlanInv'
<1>0. PICK m : m = Len(calls)
  OBVIOUS
<1>d. PICK dep : dep = graph[Caller.element][Caller.index + 1]
  OBVIOUS
<1>n. PICK d : d = Deeper(Caller.scope, Caller.depth)
  OBVIOUS
<1>w. PICK moved : moved = [calls EXCEPT ![m].index = @ + 1]
  OBVIOUS
<1>s. PICK call : call = [element |-> dep.element, depth |-> d, scope |-> "runtime", index |-> 0]
  OBVIOUS
<1>1. /\ phase = "plan" /\ calls # <<>> /\ Caller.index < Len(graph[Caller.element])
      /\ UNCHANGED <<phase, left, depthMap, plan, validated, graph>>
  BY DEF VisitDependency, InLoop, checkVars
<1>2. /\ MapInv(depthMap) /\ CallsInv
      /\ m \in Nat \ {0} /\ DOMAIN calls = 1..m /\ \A k \in 1..m : calls[k] \in CallEntries
      /\ Caller = calls[m] /\ Caller \in CallEntries /\ Caller.element \in DOMAIN graph
      /\ Len(graph[Caller.element]) \in Nat
      /\ DOMAIN graph[Caller.element] = 1..Len(graph[Caller.element])
  BY <1>0, <1>1, CallerIs
<1>3. /\ Caller.index \in Nat /\ Caller.depth \in Nat /\ Caller.scope \in {"build", "runtime"}
      /\ Caller.index + 1 \in DOMAIN graph[Caller.element]
  BY <1>1, <1>2 DEF CallEntries
<1>4. dep.element \in Safe /\ ~Visiting(dep.element)
      /\ \A k \in DOMAIN calls : DependsOn(graph, calls[k].element, dep.element)
  BY <1>1, <1>3, <1>d, NeverVisitedTwice
<1>5. /\ moved \in Seq(CallEntries) /\ Len(moved) = m
      /\ \A k \in 1..m : /\ moved[k].element = calls[k].element /\ moved[k].depth = calls[k].depth
                        /\ moved[k].scope = calls[k].scope
                        /\ moved[k].index = IF k = m THEN calls[k].index + 1 ELSE calls[k].index
  <2>1. calls \in Seq(CallEntries)
    BY <1>2 DEF CallsInv
  <2>2. moved = [calls EXCEPT ![m] = [calls[m] EXCEPT !.index = calls[m].index + 1]]
    BY <1>w
  <2>3. [calls[m] EXCEPT !.index = calls[m].index + 1] \in CallEntries
    BY <1>2, <1>3 DEF CallEntries
  <2>4. moved \in Seq(CallEntries) /\ Len(moved) = m
        /\ \A k \in 1..m : moved[k] = IF k = m THEN [calls[m] EXCEPT !.index = calls[m].index + 1] ELSE calls[k]
    BY <1>0, <1>2, <2>1, <2>2, <2>3
  <2>5. \A k \in 1..m : k # m => moved[k] = calls[k]
    BY <2>4
  <2>6. moved[m] = [calls[m] EXCEPT !.index = calls[m].index + 1] /\ calls[m] \in CallEntries
    BY <1>2, <2>4
  <2>7. /\ moved[m].element = calls[m].element /\ moved[m].depth = calls[m].depth
        /\ moved[m].scope = calls[m].scope /\ moved[m].index = calls[m].index + 1
    BY <2>6 DEF CallEntries
  <2>8. QED
    BY <2>4, <2>5, <2>7
<1>6. d \in Nat /\ call \in CallEntries
  BY <1>3, <1>4, <1>n, <1>s DEF Deeper, CallEntries
<1>7. \/ calls' = moved /\ (Caller.scope \in dep.type => Planned(dep.element, d))
      \/ calls' = Append(moved, call) /\ Caller.scope \in dep.type /\ ~Planned(dep.element, d)
  BY <1>0, <1>4, <1>d, <1>n, <1>w, <1>s DEF VisitDependency, Visit, Deeper
<1>8. /\ calls' \in Seq(CallEntries) /\ Len(calls') \in {m, m + 1} /\ DOMAIN calls' = 1..Len(calls')
      /\ \A k \in 1..m : k \in DOMAIN calls' /\ calls'[k] = moved[k]
      /\ Len(calls') = m + 1 => calls'[m + 1] = call /\ ~Planned(dep.element, d)
      /\ Len(calls') = m => (Caller.scope \in dep.type => Planned(dep.element, d))
  <2>1. CASE calls' = moved /\ (Caller.scope \in dep.type => Planned(dep.element, d))
    BY <1>2, <1>5, <2>1
  <2>2. CASE calls' = Append(moved, call) /\ Caller.scope \in dep.type /\ ~Planned(dep.element, d)
    BY <1>2, <1>5, <1>6, <2>2
  <2>3. QED
    BY <1>7, <2>1, <2>2
<1>9. \A e, a : Planned(e, a)' <=> Planned(e, a)
  BY <1>1 DEF Planned
<1>10. ASSUME NEW i \in DOMAIN calls', NEW k \in DOMAIN calls', i < k
       PROVE  DependsOn(graph, calls'[i].element, calls'[k].element)
  <2>1. i \in 1..m /\ (k \in 1..m \/ (Len(calls') = m + 1 /\ k = m + 1))
    BY <1>2, <1>8, <1>10
  <2>2. CASE k \in 1..m
    BY <1>2, <1>5, <1>8, <1>10, <2>1, <2>2 DEF CallsInv
  <2>3. CASE Len(calls') = m + 1 /\ k = m + 1
    BY <1>2, <1>4, <1>5, <1>8, <1>s, <2>1, <2>3
  <2>4. QED
    BY <2>1, <2>2, <2>3
<1>11. ASSUME NEW k \in 1..m
       PROVE  CallInv(k)'
  <2>1. CallInv(k) /\ calls[k] \in CallEntries
    BY <1>2 DEF CallsInv
  <2>2. calls'[k].element = calls[k].element /\ calls'[k].depth = calls[k].depth /\ calls'[k].scope = calls[k].scope
        /\ calls'[k].index = IF k = m THEN calls[k].index + 1 ELSE calls[k].index
    BY <1>5, <1>8
  <2>3. calls'[k].index <= Len(graph[calls'[k].element])
    <3>1. CASE k = m
      BY <1>1, <1>2, <1>3, <2>2, <3>1
    <3>2. CASE k # m
      BY <2>1, <2>2, <3>2 DEF CallInv
    <3>3. QED
      BY <3>1, <3>2
  <2>4. ASSUME NEW j \in DOMAIN graph[calls[k].element], NEW scope \in graph[calls[k].element][j].type,
               Passed(calls'[k], scope, j)
        PROVE  \/ Planned(graph[calls[k].element][j].element, Deeper(scope, calls[k].depth))
               \/ /\ k < Len(calls') /\ calls'[k + 1].element = graph[calls[k].element][j].element
                  /\ calls'[k + 1].depth = Deeper(scope, calls[k].depth)
    <3>1. CASE Passed(calls[k], scope, j) /\ k # m
      <4>1. k + 1 \in 1..m /\ k < m
        BY <1>2, <3>1
      <4>2. \/ Planned(graph[calls[k].element][j].element, Deeper(scope, calls[k].depth))
            \/ /\ calls[k + 1].element = graph[calls[k].element][j].element
               /\ calls[k + 1].depth = Deeper(scope, calls[k].depth)
        BY <2>1, <3>1 DEF CallInv
      <4>3. calls'[k + 1].element = calls[k + 1].element /\ calls'[k + 1].depth = calls[k + 1].depth
            /\ k < Len(calls')
        <5>1. calls'[k + 1] = moved[k + 1]
          BY <1>8, <4>1
        <5>2. k < Len(calls')
          <6>1. m \in Nat /\ (Len(calls') = m \/ Len(calls') = m + 1)
            BY <1>2, <1>8
          <6>2. QED
            BY <2>1, <4>1, <6>1
        <5>3. QED
          BY <1>5, <4>1, <5>1, <5>2
      <4>4. QED
        BY <4>2, <4>3
    <3>2. CASE Passed(calls[k], scope, j) /\ k = m
      <4>1. ~(k < Len(calls))
        BY <1>0, <1>2, <3>2
      <4>2. QED
        BY <2>1, <3>2, <4>1 DEF CallInv
    <3>3. CASE ~Passed(calls[k], scope, j)
      <4>1. k = m /\ calls[k] = Caller
        BY <1>2, <2>2, <2>4, <3>3 DEF Passed
      <4>2. j = Caller.index + 1 /\ scope = Caller.scope
        BY <1>2, <1>3, <2>2, <2>4, <3>3, <4>1 DEF Passed
      <4>3. graph[calls[k].element][j] = dep /\ scope \in dep.type /\ d = Deeper(scope, calls[k].depth)
        BY <1>d, <1>n, <2>4, <4>1, <4>2
      <4>4. CASE Len(calls') = m
        BY <1>8, <4>2, <4>3, <4>4
      <4>5. CASE Len(calls') = m + 1
        <5>1. calls'[k + 1].element = dep.element /\ calls'[k + 1].depth = d /\ k < Len(calls')
          BY <1>2, <1>8, <1>s, <4>1, <4>5
        <5>2. QED
          BY <4>3, <5>1
      <4>6. QED
        BY <1>8, <4>4, <4>5
    <3>4. QED
      BY <3>1, <3>2, <3>3
  <2>5. \A i \in DOMAIN depthMap :
          depthMap[i].element = calls[k].element => depthMap[i].depth < calls[k].depth
    BY <2>1 DEF CallInv
  <2>6. QED
    BY <1>1, <1>9, <2>2, <2>3, <2>4, <2>5 DEF CallInv
<1>12. ASSUME Len(calls') = m + 1
       PROVE  CallInv(m + 1)'
  <2>1. calls'[m + 1].element = dep.element /\ calls'[m + 1].depth = d
        /\ calls'[m + 1].scope = "runtime" /\ calls'[m + 1].index = 0 /\ ~Planned(dep.element, d)
    BY <1>8, <1>12, <1>s
  <2>2. dep.element \in DOMAIN graph /\ Len(graph[dep.element]) \in Nat
        /\ DOMAIN graph[dep.element] = 1..Len(graph[dep.element])
    BY <1>1, <1>4, SafeIs, ElementsAreLoaded
  <2>3. \A i \in DOMAIN depthMap : depthMap[i].depth \in Nat
    <3>1. depthMap \in Seq(MapEntries)
      BY <1>2 DEF MapInv
    <3>2. \A i \in DOMAIN depthMap : depthMap[i] \in MapEntries
      BY <3>1
    <3>3. QED
      BY <3>2 DEF MapEntries
  <2>4. \A i \in DOMAIN depthMap : depthMap[i].element = dep.element => depthMap[i].depth < d
    BY <1>6, <2>1, <2>3 DEF Planned
  <2>5. \A j \in DOMAIN graph[dep.element] : \A scope : ~Passed(calls'[m + 1], scope, j)
    BY <2>1, <2>2 DEF Passed
  <2>6. QED
    BY <1>1, <2>1, <2>2, <2>4, <2>5 DEF CallInv
<1>13. Safe' = Safe /\ CallEntries' = CallEntries /\ MapEntries' = MapEntries
  BY <1>1 DEF Safe, CallEntries, MapEntries
<1>14. CallsInv'
  <2>1. \A k \in DOMAIN calls' : CallInv(k)'
    <3>1. m \in Nat /\ DOMAIN calls' = 1..Len(calls') /\ (Len(calls') = m \/ Len(calls') = m + 1)
      BY <1>2, <1>8
    <3>2. CASE Len(calls') = m
      BY <1>11, <3>1, <3>2
    <3>3. CASE Len(calls') = m + 1
      <4>1. DOMAIN calls' = 1..m + 1
        BY <3>1, <3>3
      <4>2. \A k \in 1..m + 1 : k \in 1..m \/ k = m + 1
        BY <3>1, OneMore
      <4>3. QED
        BY <1>11, <1>12, <3>3, <4>1, <4>2
    <3>4. QED
      BY <3>1, <3>2, <3>3
  <2>2. left' \in Seq(Safe')
    BY <1>1, <1>2, <1>13 DEF CallsInv
  <2>3. \A i, k \in DOMAIN calls' : i < k => DependsOn(graph, calls[i].element, calls[k].element)'
    BY <1>1, <1>10 DEF DependsOn
  <2>4. QED
    BY <1>8, <1>13, <2>1, <2>2, <2>3 DEF CallsInv
<1>15. MapInv(depthMap)'
  BY <1>1, <1>2, <1>13 DEF MapInv, NeedsBefore
<1>16. QED
  BY <1>1, <1>14, <1>15 DEF PlanInv

\* The first loop has passed over all dependencies that are needed to run.
LEMMA SecondLoopKeeps ==
  ASSUME GraphInv, CheckInv, PlanInv, SecondLoop, UNCHANGED <<roots, graph, checkVars>>
  PROVE  PlanInv'
<1>0. PICK m : m = Len(calls)
  OBVIOUS
<1>1. /\ phase = "plan" /\ calls # <<>> /\ Caller.index >= Len(graph[Caller.element])
      /\ Caller.scope = "runtime"
      /\ calls' = [calls EXCEPT ![m] = [calls[m] EXCEPT !.scope = "build", !.index = 0]]
      /\ UNCHANGED <<phase, left, depthMap, plan, validated, graph>>
  BY <1>0 DEF SecondLoop, LoopEnded, checkVars
<1>2. /\ MapInv(depthMap) /\ CallsInv /\ calls \in Seq(CallEntries)
      /\ m \in Nat \ {0} /\ DOMAIN calls = 1..m /\ \A k \in 1..m : calls[k] \in CallEntries
      /\ Caller = calls[m] /\ Caller \in CallEntries
      /\ Len(graph[Caller.element]) \in Nat
      /\ DOMAIN graph[Caller.element] = 1..Len(graph[Caller.element])
  BY <1>0, <1>1, CallerIs DEF CallsInv
<1>3. [calls[m] EXCEPT !.scope = "build", !.index = 0] \in CallEntries
  BY <1>2 DEF CallEntries
<1>4. /\ calls' \in Seq(CallEntries) /\ Len(calls') = m /\ DOMAIN calls' = 1..m
      /\ calls'[m] = [calls[m] EXCEPT !.scope = "build", !.index = 0]
      /\ \A k \in 1..m : k # m => calls'[k] = calls[k]
  <2>1. PICK again : again = [calls[m] EXCEPT !.scope = "build", !.index = 0]
    OBVIOUS
  <2>2. calls' = [calls EXCEPT ![m] = again] /\ again \in CallEntries
    BY <1>1, <1>3, <2>1
  <2>3. calls' \in Seq(CallEntries) /\ Len(calls') = m /\ DOMAIN calls' = 1..m /\ calls'[m] = again
        /\ \A k \in 1..m : k # m => calls'[k] = calls[k]
    BY <1>0, <1>2, <2>2
  <2>4. QED
    BY <2>1, <2>3
<1>5. /\ calls'[m].element = calls[m].element /\ calls'[m].depth = calls[m].depth
      /\ calls'[m].scope = "build" /\ calls'[m].index = 0
  BY <1>2, <1>4 DEF CallEntries
<1>6. \A k \in 1..m : calls'[k].element = calls[k].element /\ calls'[k].depth = calls[k].depth
  BY <1>4, <1>5
<1>7. \A e, a : Planned(e, a)' <=> Planned(e, a)
  BY <1>1 DEF Planned
<1>8. ASSUME NEW k \in 1..m
      PROVE  CallInv(k)'
  <2>1. CallInv(k)
    BY <1>2 DEF CallsInv
  <2>2. calls'[k].index <= Len(graph[calls'[k].element])
    <3>1. CASE k = m
      BY <1>2, <1>5, <3>1
    <3>2. CASE k # m
      BY <1>4, <2>1, <3>2 DEF CallInv
    <3>3. QED
      BY <3>1, <3>2
  <2>3. \A j \in DOMAIN graph[calls[k].element] : \A scope :
          Passed(calls'[k], scope, j) => Passed(calls[k], scope, j)
    <3>1. CASE k = m
      BY <1>1, <1>2, <1>5, <3>1 DEF Passed, CallEntries
    <3>2. CASE k # m
      BY <1>4, <3>2
    <3>3. QED
      BY <3>1, <3>2
  <2>4. k < m => k + 1 \in 1..m
    BY <1>2
  <2>5. \A i \in DOMAIN depthMap :
          depthMap[i].element = calls'[k].element => depthMap[i].depth < calls'[k].depth
    BY <1>6, <2>1 DEF CallInv
  <2>6. \A j \in DOMAIN graph[calls'[k].element] : \A scope \in graph[calls'[k].element][j].type :
          Passed(calls'[k], scope, j) =>
            \/ Planned(graph[calls'[k].element][j].element, Deeper(scope, calls'[k].depth))
            \/ /\ k < m /\ calls'[k + 1].element = graph[calls'[k].element][j].element
               /\ calls'[k + 1].depth = Deeper(scope, calls'[k].depth)
    BY <1>0, <1>6, <2>1, <2>3, <2>4 DEF CallInv
  <2>7. QED
    BY <1>1, <1>4, <1>7, <2>2, <2>5, <2>6 DEF CallInv
<1>9. Safe' = Safe /\ CallEntries' = CallEntries /\ MapEntries' = MapEntries
  BY <1>1 DEF Safe, CallEntries, MapEntries
<1>10. CallsInv'
  <2>1. \A k \in DOMAIN calls' : CallInv(k)'
    BY <1>4, <1>8
  <2>2. left' \in Seq(Safe') /\ calls' \in Seq(CallEntries')
    BY <1>1, <1>2, <1>4, <1>9 DEF CallsInv
  <2>3. \A i, k \in DOMAIN calls' : i < k => DependsOn(graph, calls[i].element, calls[k].element)'
    BY <1>1, <1>2, <1>4, <1>6 DEF CallsInv
  <2>4. QED
    BY <2>1, <2>2, <2>3 DEF CallsInv
<1>11. MapInv(depthMap)'
  BY <1>1, <1>2, <1>9 DEF MapInv, NeedsBefore
<1>12. QED
  BY <1>1, <1>10, <1>11 DEF PlanInv

\* plan() calls plan_element() with a target.
LEMMA VisitRootKeeps ==
  ASSUME GraphInv, CheckInv, PlanInv, VisitRoot, UNCHANGED <<roots, graph, checkVars>>
  PROVE  PlanInv'
<1>c. PICK call : call = [element |-> Head(left), depth |-> 0, scope |-> "runtime", index |-> 0]
  OBVIOUS
<1>1. /\ phase = "plan" /\ calls = <<>> /\ left # <<>> /\ left' = Tail(left)
      /\ UNCHANGED <<phase, depthMap, plan, validated, graph>>
      /\ calls' = <<>> \/ (calls' = <<call>> /\ ~Planned(Head(left), 0))
  <2>1. calls = <<>> => Append(calls, call) = <<call>>
    OBVIOUS
  <2>2. QED
    BY <1>c, <2>1 DEF VisitRoot, Visit, checkVars
<1>2. MapInv(depthMap) /\ CallsInv /\ left \in Seq(Safe)
  BY <1>1 DEF PlanInv, CallsInv
<1>3. Head(left) \in Safe /\ Tail(left) \in Seq(Safe)
  BY <1>1, <1>2
<1>4. call \in CallEntries
  BY <1>3, <1>c DEF CallEntries
<1>5. /\ Head(left) \in DOMAIN graph /\ Len(graph[Head(left)]) \in Nat
      /\ DOMAIN graph[Head(left)] = 1..Len(graph[Head(left)])
  BY <1>1, <1>3, SafeIs, ElementsAreLoaded
<1>6. Safe' = Safe /\ CallEntries' = CallEntries /\ MapEntries' = MapEntries
  BY <1>1 DEF Safe, CallEntries, MapEntries
<1>7. MapInv(depthMap)'
  BY <1>1, <1>2, <1>6 DEF MapInv, NeedsBefore
<1>8. CASE calls' = <<>>
  <2>1. CallsInv'
    BY <1>1, <1>3, <1>6, <1>8 DEF CallsInv
  <2>2. QED
    BY <1>1, <1>7, <2>1 DEF PlanInv
<1>9. CASE calls' = <<call>> /\ ~Planned(Head(left), 0)
  <2>1. calls' \in Seq(CallEntries) /\ DOMAIN calls' = {1} /\ Len(calls') = 1 /\ calls'[1] = call
    BY <1>4, <1>9
  <2>2. call.element = Head(left) /\ call.depth = 0 /\ call.scope = "runtime" /\ call.index = 0
    BY <1>c
  <2>3. \A i \in DOMAIN depthMap : depthMap[i].depth \in Nat
    <3>1. depthMap \in Seq(MapEntries)
      BY <1>2 DEF MapInv
    <3>2. \A i \in DOMAIN depthMap : depthMap[i] \in MapEntries
      BY <3>1
    <3>3. QED
      BY <3>2 DEF MapEntries
  <2>4. \A i \in DOMAIN depthMap : depthMap[i].element # Head(left)
    BY <1>9, <2>3 DEF Planned
  <2>5. \A j \in DOMAIN graph[Head(left)] : \A scope : ~Passed(call, scope, j)
    BY <1>5, <2>2 DEF Passed
  <2>6. CallInv(1)'
    <3>1. calls'[1].element = Head(left) /\ calls'[1].index = 0
      BY <2>1, <2>2
    <3>2. \A j \in DOMAIN graph[Head(left)] : \A scope : ~Passed(calls'[1], scope, j)
      BY <2>1, <2>5
    <3>3. /\ calls'[1].index <= Len(graph'[calls'[1].element])
          /\ \A i \in DOMAIN depthMap' : depthMap'[i].element # calls'[1].element
          /\ \A j \in DOMAIN graph'[calls'[1].element] : \A scope : ~Passed(calls'[1], scope, j)
      <4>1. graph' = graph /\ depthMap' = depthMap
        BY <1>1
      <4>2. \A i \in DOMAIN depthMap' : depthMap'[i].element # calls'[1].element
        BY <2>4, <3>1, <4>1
      <4>3. calls'[1].index <= Len(graph'[calls'[1].element])
        BY <1>5, <3>1, <4>1
      <4>4. \A j \in DOMAIN graph'[calls'[1].element] : \A scope : ~Passed(calls'[1], scope, j)
        BY <3>1, <3>2, <4>1
      <4>5. QED
        BY <4>2, <4>3, <4>4
    <3>4. QED
      BY <3>3, Zenon DEF CallInv
  <2>7. CallsInv'
    BY <1>1, <1>3, <1>6, <2>1, <2>6 DEF CallsInv
  <2>8. QED
    BY <1>1, <1>7, <2>7 DEF PlanInv
<1>10. QED
  BY <1>1, <1>8, <1>9

LEMMA MapIsTyped ==
  ASSUME NEW map, MapInv(map)
  PROVE  /\ Len(map) \in Nat /\ DOMAIN map = 1..Len(map)
         /\ \A i \in DOMAIN map : /\ map[i] \in MapEntries
                                  /\ map[i].element \in Safe /\ map[i].depth \in Nat
<1>1. map \in Seq(MapEntries)
  BY DEF MapInv
<1>2. Len(map) \in Nat /\ DOMAIN map = 1..Len(map) /\ \A i \in DOMAIN map : map[i] \in MapEntries
  BY <1>1
<1>3. QED
  BY <1>2 DEF MapEntries

\* An element is recorded once, at the end or with more depth than it had.
LEMMA RecordedIs ==
  ASSUME MapInv(depthMap), NEW e \in Safe, NEW d \in Nat,
         \A i \in DOMAIN depthMap : depthMap[i].element = e => depthMap[i].depth < d,
         NEW map, map = Recorded(e, d)
  PROVE  /\ map \in Seq(MapEntries) /\ DOMAIN depthMap \subseteq DOMAIN map
         /\ \A i \in DOMAIN depthMap : /\ map[i].element = depthMap[i].element
                                       /\ map[i].depth >= depthMap[i].depth
         /\ \A i \in DOMAIN map :
              \/ map[i].element = e /\ map[i].depth = d
              \/ i \in DOMAIN depthMap /\ map[i] = depthMap[i] /\ map[i].element # e
         /\ \A i, k \in DOMAIN map : map[i].element = map[k].element => i = k
         /\ \E i \in DOMAIN map : map[i].element = e
         /\ \A i \in DOMAIN depthMap, k \in DOMAIN map \ DOMAIN depthMap : i < k
<1>0. PICK n : n = Len(depthMap)
  OBVIOUS
<1>1. /\ n \in Nat /\ DOMAIN depthMap = 1..n /\ depthMap \in Seq(MapEntries)
      /\ \A i \in 1..n : /\ depthMap[i] \in MapEntries
                         /\ depthMap[i].element \in Safe /\ depthMap[i].depth \in Nat
      /\ \A i, k \in 1..n : depthMap[i].element = depthMap[k].element => i = k
  BY <1>0, MapIsTyped DEF MapInv
<1>2. CASE \E i \in 1..n : depthMap[i].element = e
  <2>1. map = [i \in 1..n |-> IF depthMap[i].element = e THEN [depthMap[i] EXCEPT !.depth = d]
                                                        ELSE depthMap[i]]
    BY <1>1, <1>2 DEF Recorded
  <2>2. DOMAIN map = 1..n
    BY <2>1
  <2>3. ASSUME NEW i \in 1..n
        PROVE  /\ map[i] \in MapEntries /\ map[i].element = depthMap[i].element
               /\ depthMap[i].element = e => map[i].depth = d /\ map[i].depth >= depthMap[i].depth
               /\ depthMap[i].element # e => map[i] = depthMap[i]
    <3>1. CASE depthMap[i].element = e
      <4>1. map[i] = [depthMap[i] EXCEPT !.depth = d] /\ depthMap[i] \in MapEntries
        BY <1>1, <2>1, <3>1
      <4>2. map[i] \in MapEntries /\ map[i].element = depthMap[i].element /\ map[i].depth = d
        BY <4>1 DEF MapEntries
      <4>3. QED
        BY <1>1, <3>1, <4>2
    <3>2. CASE depthMap[i].element # e
      BY <1>1, <2>1, <3>2
    <3>3. QED
      BY <3>1, <3>2
  <2>4. map \in Seq(MapEntries)
    <3>1. map \in [1..n -> MapEntries]
      BY <2>1, <2>3
    <3>2. QED
      BY <1>1, <3>1, FunctionIsList
  <2>5. \A i \in 1..n : map[i].depth >= depthMap[i].depth
    BY <1>1, <2>3
  <2>6. \E i \in DOMAIN map : map[i].element = e
    BY <1>2, <2>2, <2>3
  <2>7. \A i \in 1..n : \/ map[i].element = e /\ map[i].depth = d
                        \/ map[i] = depthMap[i] /\ map[i].element # e
    BY <2>3
  <2>8. QED
    BY <1>1, <2>2, <2>3, <2>4, <2>5, <2>6, <2>7
<1>3. CASE \A i \in 1..n : depthMap[i].element # e
  <2> DEFINE entry == [element |-> e, depth |-> d]
  <2>1. map = Append(depthMap, entry)
    BY <1>1, <1>3 DEF Recorded
  <2>2. entry \in MapEntries /\ entry.element = e /\ entry.depth = d
    BY DEF MapEntries
  <2>3. PICK x : x = entry
    OBVIOUS
  <2>4. /\ map \in Seq(MapEntries) /\ DOMAIN map = 1..(n + 1) /\ map[n + 1] = x
        /\ \A i \in 1..n : map[i] = depthMap[i]
    BY <1>0, <1>1, <2>1, <2>2, <2>3
  <2>5. map[n + 1].element = e /\ map[n + 1].depth = d
    BY <2>2, <2>3, <2>4
  <2>6. \A i \in 1..(n + 1) : i \in 1..n \/ i = n + 1
    BY <1>1
  <2>7. n + 1 \in 1..(n + 1) /\ \A i \in 1..n : i \in 1..(n + 1) /\ i < n + 1
    BY <1>1
  <2>8. \A i, k \in 1..(n + 1) : map[i].element = map[k].element => i = k
    BY <1>1, <1>3, <2>4, <2>5, <2>6
  <2>9. \A i \in 1..n : map[i].depth >= depthMap[i].depth
    BY <1>1, <2>4
  <2>10. QED
    BY <1>1, <1>3, <2>4, <2>5, <2>6, <2>7, <2>8, <2>9
<1>4. QED
  BY <1>2, <1>3

\* plan_element() returns: all that the element depends on is deep enough in the map.
LEMMA ReturnKeeps ==
  ASSUME GraphInv, CheckInv, PlanInv, Return, UNCHANGED <<roots, graph, checkVars>>
  PROVE  PlanInv'
<1>0. PICK m : m = Len(calls)
  OBVIOUS
<1>e. PICK e : e = Caller.element
  OBVIOUS
<1>d. PICK d : d = Caller.depth
  OBVIOUS
<1>p. PICK map : map = Recorded(e, d)
  OBVIOUS
<1>1. /\ phase = "plan" /\ calls # <<>> /\ Caller.index >= Len(graph[e]) /\ Caller.scope = "build"
      /\ depthMap' = map /\ calls' = SubSeq(calls, 1, m - 1)
      /\ UNCHANGED <<phase, left, plan, validated, graph>>
  BY <1>0, <1>e, <1>d, <1>p DEF Return, LoopEnded, checkVars
<1>2. /\ MapInv(depthMap) /\ CallsInv
      /\ m \in Nat \ {0} /\ DOMAIN calls = 1..m /\ \A k \in 1..m : calls[k] \in CallEntries
      /\ Caller = calls[m] /\ Caller \in CallEntries /\ m \in 1..m /\ ~(m < m)
      /\ Len(graph[e]) \in Nat /\ DOMAIN graph[e] = 1..Len(graph[e])
  BY <1>0, <1>1, <1>e, CallerIs
<1>3. e \in Safe /\ d \in Nat /\ Caller.index \in Nat
  BY <1>2, <1>e, <1>d DEF CallEntries
<1>4. CallInv(m)
  BY <1>2 DEF CallsInv
<1>5. \A i \in DOMAIN depthMap : depthMap[i].element = e => depthMap[i].depth < d
  BY <1>2, <1>4, <1>e, <1>d DEF CallInv
<1>6. ASSUME NEW j \in DOMAIN graph[e], NEW scope \in graph[e][j].type
      PROVE  Planned(graph[e][j].element, Deeper(scope, d))
  <2>1. scope \in {"build", "runtime"}
    BY <1>1, <1>3, SafeIs, ElementsAreLoaded
  <2>2. j <= Caller.index
    BY <1>1, <1>2, <1>3
  <2>3. Passed(Caller, scope, j)
    BY <1>1, <2>1, <2>2 DEF Passed
  <2>4. QED
    BY <1>0, <1>2, <1>4, <1>e, <1>d, <2>3 DEF CallInv
<1>7. /\ map \in Seq(MapEntries) /\ DOMAIN depthMap \subseteq DOMAIN map
      /\ \A i \in DOMAIN depthMap : /\ map[i].element = depthMap[i].element
                                    /\ map[i].depth >= depthMap[i].depth
      /\ \A i \in DOMAIN map :
           \/ map[i].element = e /\ map[i].depth = d
           \/ i \in DOMAIN depthMap /\ map[i] = depthMap[i] /\ map[i].element # e
      /\ \A i, k \in DOMAIN map : map[i].element = map[k].element => i = k
      /\ \E i \in DOMAIN map : map[i].element = e
      /\ \A i \in DOMAIN depthMap, k \in DOMAIN map \ DOMAIN depthMap : i < k
  BY <1>2, <1>3, <1>5, <1>p, RecordedIs
<1>8. /\ \A i \in DOMAIN depthMap : depthMap[i].depth \in Nat
      /\ \A i \in DOMAIN map : map[i].depth \in Nat
  <2>1. \A i \in DOMAIN map : map[i] \in MapEntries
    BY <1>7
  <2>2. QED
    BY <1>2, <2>1, MapIsTyped DEF MapEntries
<1>9. ASSUME NEW scope
      PROVE  \A a \in Nat : Deeper(scope, a) \in Nat
  BY DEF Deeper
<1>10. ASSUME NEW k \in DOMAIN map
       PROVE  NeedsBefore(map, k)
  <2> SUFFICES ASSUME NEW j \in DOMAIN graph[map[k].element], NEW scope \in graph[map[k].element][j].type
               PROVE  \E i \in DOMAIN map : /\ i < k /\ map[i].element = graph[map[k].element][j].element
                                            /\ map[i].depth >= Deeper(scope, map[k].depth)
    BY DEF NeedsBefore
  <2>1. CASE map[k].element = e /\ map[k].depth = d
    <3>1. PICK i \in DOMAIN depthMap : /\ depthMap[i].element = graph[e][j].element
                                       /\ depthMap[i].depth >= Deeper(scope, d)
      BY <1>6, <2>1 DEF Planned
    <3>2. i < k
      <4>1. CASE k \in DOMAIN depthMap
        <5>1. depthMap[k].element = e /\ NeedsBefore(depthMap, k)
          BY <1>2, <1>7, <2>1, <4>1 DEF MapInv
        <5>2. PICK a \in DOMAIN depthMap : a < k /\ depthMap[a].element = graph[e][j].element
          BY <2>1, <5>1 DEF NeedsBefore
        <5>3. a = i
          BY <1>2, <3>1, <5>2 DEF MapInv
        <5>4. QED
          BY <5>2, <5>3
      <4>2. CASE k \notin DOMAIN depthMap
        BY <1>7, <4>2
      <4>3. QED
        BY <4>1, <4>2
    <3>3. i \in DOMAIN map /\ map[i].element = depthMap[i].element /\ map[i].depth >= depthMap[i].depth
      BY <1>7
    <3>4. map[i].depth >= Deeper(scope, d)
      BY <1>3, <1>8, <1>9, <3>1, <3>3
    <3>5. QED
      BY <2>1, <3>1, <3>2, <3>3, <3>4
  <2>2. CASE k \in DOMAIN depthMap /\ map[k] = depthMap[k]
    <3>1. PICK i \in DOMAIN depthMap : /\ i < k /\ depthMap[i].element = graph[map[k].element][j].element
                                       /\ depthMap[i].depth >= Deeper(scope, map[k].depth)
      <4>1. NeedsBefore(depthMap, k) /\ map[k] = depthMap[k]
        BY <1>2, <2>2 DEF MapInv
      <4>2. QED
        BY <4>1 DEF NeedsBefore
    <3>2. i \in DOMAIN map /\ map[i].element = depthMap[i].element /\ map[i].depth >= depthMap[i].depth
      BY <1>7
    <3>3. map[i].depth >= Deeper(scope, map[k].depth)
      BY <1>8, <1>9, <3>1, <3>2
    <3>4. QED
      BY <3>1, <3>2, <3>3
  <2>3. QED
    BY <1>7, <2>1, <2>2
<1>11. Safe' = Safe /\ CallEntries' = CallEntries /\ MapEntries' = MapEntries
  BY <1>1 DEF Safe, CallEntries, MapEntries
<1>12. MapInv(depthMap)'
  <2>1. \A k \in DOMAIN map : NeedsBefore(map, k)'
    BY <1>1, <1>10 DEF NeedsBefore
  <2>2. QED
    BY <1>1, <1>7, <1>11, <2>1 DEF MapInv
<1>13. ASSUME NEW f, NEW a \in Nat, Planned(f, a)
       PROVE  Planned(f, a)'
  <2>1. PICK i \in DOMAIN depthMap : depthMap[i].element = f /\ depthMap[i].depth >= a
    BY <1>13 DEF Planned
  <2>2. i \in DOMAIN map /\ map[i].element = f /\ map[i].depth >= depthMap[i].depth
    BY <1>7, <2>1
  <2>3. map[i].depth >= a
    BY <1>7, <1>8, <2>1, <2>2
  <2>4. QED
    BY <1>1, <2>2, <2>3 DEF Planned
<1>14. Planned(e, d)'
  <2>1. PICK i \in DOMAIN map : map[i].element = e /\ map[i].depth = d
    BY <1>7
  <2>2. map[i].depth >= d
    BY <1>3, <2>1
  <2>3. QED
    BY <1>1, <2>1, <2>2 DEF Planned
<1>15. /\ m - 1 \in Nat /\ \A k \in 1..(m - 1) : k \in 1..m /\ k < m /\ k + 1 \in 1..m
       /\ calls' \in Seq(CallEntries) /\ Len(calls') = m - 1 /\ DOMAIN calls' = 1..(m - 1)
       /\ \A k \in 1..(m - 1) : calls'[k] = calls[k]
  <2>1. m - 1 \in Nat /\ \A k \in 1..(m - 1) : k \in 1..m /\ k < m /\ k + 1 \in 1..m
    BY <1>2
  <2>2. calls \in Seq(CallEntries)
    BY <1>2 DEF CallsInv
  <2>3. QED
    BY <1>0, <1>1, <2>1, <2>2
<1>16. ASSUME NEW k \in 1..(m - 1)
       PROVE  CallInv(k)'
  <2>1. CallInv(k) /\ k \in 1..m /\ k < m /\ calls'[k] = calls[k] /\ calls[k] \in CallEntries
    BY <1>2, <1>15 DEF CallsInv
  <2>2. calls[k].element # e
    <3>1. DependsOn(graph, calls[k].element, calls[m].element)
      BY <1>2, <2>1 DEF CallsInv
    <3>2. QED
      BY <1>1, <1>2, <1>3, <1>e, <3>1, SafeIs
  <2>3. \A i \in DOMAIN depthMap' :
          depthMap'[i].element = calls[k].element => depthMap'[i].depth < calls[k].depth
    BY <1>1, <1>7, <2>1, <2>2 DEF CallInv
  <2>4. ASSUME NEW j \in DOMAIN graph[calls[k].element], NEW scope \in graph[calls[k].element][j].type,
               Passed(calls[k], scope, j)
        PROVE  \/ \E i \in DOMAIN depthMap' : /\ depthMap'[i].element = graph[calls[k].element][j].element
                                              /\ depthMap'[i].depth >= Deeper(scope, calls[k].depth)
               \/ /\ k < m - 1 /\ calls'[k + 1].element = graph[calls[k].element][j].element
                  /\ calls'[k + 1].depth = Deeper(scope, calls[k].depth)
    <3>1. Deeper(scope, calls[k].depth) \in Nat
      BY <1>9, <2>1 DEF CallEntries
    <3>2. CASE Planned(graph[calls[k].element][j].element, Deeper(scope, calls[k].depth))
      <4>1. PICK f, a : f = graph[calls[k].element][j].element /\ a = Deeper(scope, calls[k].depth)
        OBVIOUS
      <4>2. Planned(f, a)'
        BY <1>13, <3>1, <3>2, <4>1
      <4>3. QED
        BY <4>1, <4>2 DEF Planned
    <3>3. CASE calls[k + 1].element = graph[calls[k].element][j].element
               /\ calls[k + 1].depth = Deeper(scope, calls[k].depth)
      <4>1. CASE k = m - 1
        <5>1. k + 1 = m
          BY <1>2, <4>1
        <5>2. e = graph[calls[k].element][j].element /\ d = Deeper(scope, calls[k].depth)
          BY <1>2, <1>e, <1>d, <3>3, <5>1
        <5>3. QED
          BY <1>14, <5>2 DEF Planned
      <4>2. CASE k # m - 1
        <5>1. k < m - 1 /\ k + 1 \in 1..(m - 1)
          BY <1>2, <4>2
        <5>2. calls'[k + 1] = calls[k + 1]
          BY <1>15, <5>1
        <5>3. QED
          BY <3>3, <5>1, <5>2
      <4>3. QED
        BY <4>1, <4>2
    <3>4. QED
      BY <2>1, <2>4, <3>2, <3>3 DEF CallInv
  <2>5. calls'[k].index <= Len(graph'[calls'[k].element])
    BY <1>1, <2>1 DEF CallInv
  <2>6. \A i \in DOMAIN depthMap' :
          depthMap'[i].element = calls'[k].element => depthMap'[i].depth < calls'[k].depth
    BY <2>1, <2>3
  <2>7. \A j \in DOMAIN graph'[calls'[k].element] : \A scope \in graph'[calls'[k].element][j].type :
          Passed(calls'[k], scope, j) =>
            \/ \E i \in DOMAIN depthMap' : /\ depthMap'[i].element = graph'[calls'[k].element][j].element
                                           /\ depthMap'[i].depth >= Deeper(scope, calls'[k].depth)
            \/ /\ k < Len(calls') /\ calls'[k + 1].element = graph'[calls'[k].element][j].element
               /\ calls'[k + 1].depth = Deeper(scope, calls'[k].depth)
    BY <1>1, <1>15, <2>1, <2>4
  <2>8. QED
    BY <2>5, <2>6, <2>7 DEF CallInv, Planned
<1>17. CallsInv'
  <2>1. \A k \in DOMAIN calls' : CallInv(k)'
    BY <1>15, <1>16
  <2>2. left' \in Seq(Safe') /\ calls' \in Seq(CallEntries')
    BY <1>1, <1>2, <1>11, <1>15 DEF CallsInv
  <2>3. \A i, k \in DOMAIN calls' : i < k => DependsOn(graph, calls[i].element, calls[k].element)'
    BY <1>1, <1>2, <1>15 DEF CallsInv
  <2>4. QED
    BY <2>1, <2>2, <2>3 DEF CallsInv
<1>18. QED
  BY <1>1, <1>12, <1>17 DEF PlanInv

-----------------------------------------------------------------------------
(* The order of the plan: every place is taken by one element of the map. *)

LEMMA AheadIsOrder ==
  ASSUME NEW map, MapInv(map), NEW i \in DOMAIN map, NEW k \in DOMAIN map, NEW l \in DOMAIN map
  PROVE  /\ ~Ahead(map, i, i)
         /\ i # k => Ahead(map, i, k) \/ Ahead(map, k, i)
         /\ Ahead(map, i, k) => ~Ahead(map, k, i)
         /\ Ahead(map, i, k) /\ Ahead(map, k, l) => Ahead(map, i, l)
BY MapIsTyped DEF Ahead

LEMMA PositionsAre ==
  ASSUME NEW map, MapInv(map), NEW n, n = Len(map)
  PROVE  /\ n \in Nat /\ DOMAIN map = 1..n
         /\ \A k \in 1..n : Position(map, k) \in 1..n
         /\ \A i, k \in 1..n : Ahead(map, i, k) => Position(map, i) < Position(map, k)
         /\ \A p \in 1..n : \E k \in 1..n : Position(map, k) = p
<1> DEFINE AllAhead(k) == {i \in DOMAIN map : Ahead(map, i, k)}
<1>1. n \in Nat /\ DOMAIN map = 1..n
  BY MapIsTyped
<1>2. IsFiniteSet(1..n) /\ Cardinality(1..n) = n
  <2>1. 1 \in Int /\ n \in Int
    BY <1>1
  <2>2. IsFiniteSet(1..n) /\ Cardinality(1..n) = IF 1 > n THEN 0 ELSE n - 1 + 1
    BY <2>1, FS_Interval, Zenon
  <2>3. QED
    BY <1>1, <2>2
<1>3. \A k \in 1..n : IsFiniteSet(AllAhead(k)) /\ Cardinality(AllAhead(k)) \in Nat
                      /\ Position(map, k) = 1 + Cardinality(AllAhead(k))
  <2>1. \A k : AllAhead(k) \in SUBSET (1..n)
    BY <1>1
  <2>2. QED
    BY <1>2, <2>1, FS_Subset, FS_CardinalityType DEF Position
<1>4. ASSUME NEW k \in 1..n
      PROVE  Position(map, k) \in 1..n
  <2>1. IsFiniteSet((1..n) \ {k}) /\ Cardinality((1..n) \ {k}) = n - 1
    BY <1>2, FS_RemoveElement
  <2>2. AllAhead(k) \in SUBSET ((1..n) \ {k})
    BY <1>1, AheadIsOrder
  <2>3. Cardinality(AllAhead(k)) <= n - 1
    BY <2>1, <2>2, FS_Subset
  <2>4. QED
    BY <1>1, <1>3, <2>3
<1>5. ASSUME NEW i \in 1..n, NEW k \in 1..n, Ahead(map, i, k)
      PROVE  Position(map, i) < Position(map, k)
  <2>1. AllAhead(i) \in SUBSET AllAhead(k)
    BY <1>1, <1>5, AheadIsOrder
  <2>2. i \in AllAhead(k) /\ i \notin AllAhead(i)
    BY <1>1, <1>5, AheadIsOrder
  <2>3. AllAhead(i) # AllAhead(k)
    BY <2>2
  <2>4. Cardinality(AllAhead(i)) <= Cardinality(AllAhead(k)) /\ Cardinality(AllAhead(i)) # Cardinality(AllAhead(k))
    BY <1>3, <2>1, <2>3, FS_Subset
  <2>5. PICK a, b : a = Cardinality(AllAhead(i)) /\ b = Cardinality(AllAhead(k))
    OBVIOUS
  <2>6. a \in Nat /\ b \in Nat /\ Position(map, i) = 1 + a /\ Position(map, k) = 1 + b /\ a <= b /\ a # b
    BY <1>3, <2>4, <2>5, Zenon
  <2>7. QED
    BY <2>6
<1>6. \A i, k \in 1..n : Position(map, i) = Position(map, k) => i = k
  <2>1. \A i, k \in 1..n : i # k => Ahead(map, i, k) \/ Ahead(map, k, i)
    BY <1>1, AheadIsOrder
  <2>2. \A i \in 1..n : Position(map, i) \in Nat
    BY <1>4
  <2>3. QED
    BY <1>5, <2>1, <2>2
<1>7. ASSUME NEW p \in 1..n, \A k \in 1..n : Position(map, k) # p
      PROVE  FALSE
  <2>0. PICK f : f = [k \in 1..n |-> Position(map, k)]
    OBVIOUS
  <2>1. IsFiniteSet((1..n) \ {p}) /\ Cardinality((1..n) \ {p}) = n - 1
    BY <1>2, FS_RemoveElement
  <2>2. f \in [1..n -> (1..n) \ {p}]
    BY <1>4, <1>7, <2>0
  <2>3. Cardinality((1..n) \ {p}) < Cardinality(1..n)
    BY <1>1, <1>2, <2>1
  <2>4. \E x, y \in 1..n : x # y /\ f[x] = f[y]
    BY <1>2, <2>1, <2>2, <2>3, FS_PigeonHole
  <2>5. QED
    BY <1>6, <2>0, <2>4
<1>8. QED
  BY <1>1, <1>4, <1>5, <1>7

\* The place in the map of what the plan has at each of its places.
LEMMA PlanIsOfMap ==
  ASSUME NEW map, MapInv(map), NEW order, order = DepthSorted(map)
  PROVE  \E at : /\ DOMAIN order = DOMAIN map /\ DOMAIN at = DOMAIN map
                 /\ \A p \in DOMAIN order : at[p] \in DOMAIN map /\ order[p] = map[at[p]].element
                 /\ \A p, q \in DOMAIN order : p < q => Ahead(map, at[p], at[q])
                 /\ \A k \in DOMAIN map : \E p \in DOMAIN order : at[p] = k
<1>0. PICK n : n = Len(map)
  OBVIOUS
<1>1. PICK at : at = [p \in DOMAIN map |-> CHOOSE k \in DOMAIN map : Position(map, k) = p]
  OBVIOUS
<1>2. /\ n \in Nat /\ DOMAIN map = 1..n
      /\ \A k \in 1..n : Position(map, k) \in 1..n
      /\ \A i, k \in 1..n : Ahead(map, i, k) => Position(map, i) < Position(map, k)
      /\ \A p \in 1..n : \E k \in 1..n : Position(map, k) = p
  BY <1>0, PositionsAre
<1>3. DOMAIN at = 1..n /\ \A p \in 1..n : at[p] \in 1..n /\ Position(map, at[p]) = p
  <2>1. \A p \in 1..n : at[p] = CHOOSE k \in 1..n : Position(map, k) = p
    BY <1>1, <1>2
  <2>2. QED
    BY <1>1, <1>2, <2>1
<1>4. DOMAIN order = 1..n /\ \A p \in 1..n : order[p] = map[at[p]].element
  BY <1>1, <1>2 DEF DepthSorted
<1>5. ASSUME NEW p \in 1..n, NEW q \in 1..n, p < q
      PROVE  Ahead(map, at[p], at[q])
  <2>1. at[p] # at[q]
    BY <1>3, <1>5
  <2>2. Ahead(map, at[p], at[q]) \/ Ahead(map, at[q], at[p])
    BY <1>2, <1>3, <2>1, AheadIsOrder
  <2>3. Ahead(map, at[q], at[p]) => q < p
    BY <1>2, <1>3
  <2>4. QED
    BY <1>5, <2>2, <2>3
<1>6. ASSUME NEW k \in 1..n
      PROVE  \E p \in 1..n : at[p] = k
  <2>1. PICK p \in 1..n : p = Position(map, k)
    BY <1>2
  <2>2. Position(map, at[p]) = Position(map, k) /\ at[p] \in 1..n
    BY <1>3, <2>1
  <2>3. at[p] # k => Ahead(map, at[p], k) \/ Ahead(map, k, at[p])
    BY <1>2, <2>2, AheadIsOrder
  <2>4. Position(map, k) \in Nat
    BY <1>2
  <2>5. PICK a, b : a = Position(map, at[p]) /\ b = Position(map, k)
    OBVIOUS
  <2>6. at[p] # k => a < b \/ b < a
    BY <1>2, <2>2, <2>3, <2>5, Zenon
  <2>7. QED
    BY <2>2, <2>4, <2>5, <2>6
<1>7. /\ DOMAIN order = DOMAIN map /\ DOMAIN at = DOMAIN map
      /\ \A p \in DOMAIN order : at[p] \in DOMAIN map /\ order[p] = map[at[p]].element
      /\ \A p, q \in DOMAIN order : p < q => Ahead(map, at[p], at[q])
      /\ \A k \in DOMAIN map : \E p \in DOMAIN order : at[p] = k
  BY <1>2, <1>3, <1>4, <1>5, <1>6
<1>8. QED
  BY <1>7, Zenon

\* What is ahead of an element in the map is all that it depends on, and more.
LEMMA AheadIsNeeded ==
  ASSUME IsGraph(graph), Safe \subseteq DOMAIN graph, NEW map, MapInv(map),
         NEW k \in DOMAIN map, NEW e, DependsOn(graph, map[k].element, e)
  PROVE  \E i \in DOMAIN map : Ahead(map, i, k) /\ map[i].element = e
<1> DEFINE S == {map[i].element : i \in {a \in DOMAIN map : Ahead(map, a, k)}}
<1>1. ASSUME NEW i \in DOMAIN map
      PROVE  \A f \in ElementsOf(graph[map[i].element]) :
               \E a \in DOMAIN map : Ahead(map, a, i) /\ map[a].element = f
  <2> SUFFICES ASSUME NEW j \in DOMAIN graph[map[i].element]
               PROVE  \E a \in DOMAIN map : /\ Ahead(map, a, i)
                                            /\ map[a].element = graph[map[i].element][j].element
    BY DEF ElementsOf
  <2>1. map[i].element \in DOMAIN graph
    BY MapIsTyped
  <2>2. PICK scope \in graph[map[i].element][j].type : TRUE
    BY <2>1, ElementsAreLoaded
  <2>3. PICK a \in DOMAIN map : /\ a < i /\ map[a].element = graph[map[i].element][j].element
                                /\ map[a].depth >= Deeper(scope, map[i].depth)
    BY <2>2 DEF MapInv, NeedsBefore
  <2>4. Ahead(map, a, i)
    BY <2>3, MapIsTyped DEF Ahead, Deeper
  <2>5. QED
    BY <2>3, <2>4
<1>2. S \in SUBSET DOMAIN graph
  BY MapIsTyped
<1>3. ElementsOf(graph[map[k].element]) \subseteq S
  BY <1>1
<1>4. Closed(graph, S)
  <2> SUFFICES ASSUME NEW i \in DOMAIN map, Ahead(map, i, k), NEW f \in ElementsOf(graph[map[i].element])
               PROVE  f \in S
    BY DEF Closed
  <2>1. PICK a \in DOMAIN map : Ahead(map, a, i) /\ map[a].element = f
    BY <1>1
  <2>2. Ahead(map, a, k)
    BY <2>1, AheadIsOrder
  <2>3. QED
    BY <2>1, <2>2
<1>5. e \in S
  BY <1>2, <1>3, <1>4, ReachedIsLeast DEF DependsOn
<1>6. QED
  BY <1>5

LEMMA EndPlanKeeps ==
  ASSUME GraphInv, CheckInv, PlanInv, EndPlan, UNCHANGED <<roots, graph, checkVars>>
  PROVE  PlanInv'
<1>1. /\ phase = "plan" /\ phase' = "select" /\ plan' = DepthSorted(depthMap)
      /\ graph' = graph /\ MapInv(depthMap)
  BY DEF EndPlan, PlanInv
<1>2. PICK at : /\ DOMAIN plan' = DOMAIN depthMap /\ DOMAIN at = DOMAIN depthMap
                /\ \A p \in DOMAIN plan' : at[p] \in DOMAIN depthMap /\ plan'[p] = depthMap[at[p]].element
                /\ \A p, q \in DOMAIN plan' : p < q => Ahead(depthMap, at[p], at[q])
                /\ \A k \in DOMAIN depthMap : \E p \in DOMAIN plan' : at[p] = k
  BY <1>1, PlanIsOfMap
<1>3. IsGraph(graph) /\ Safe \subseteq DOMAIN graph
  BY <1>1, SafeIs
<1>4. ASSUME NEW p \in DOMAIN plan', NEW q \in DOMAIN plan', p < q, DependsOn(graph, plan'[p], plan'[q])
      PROVE  FALSE
  <2>1. /\ at[p] \in DOMAIN depthMap /\ at[q] \in DOMAIN depthMap /\ Ahead(depthMap, at[p], at[q])
        /\ plan'[p] = depthMap[at[p]].element /\ plan'[q] = depthMap[at[q]].element
    BY <1>2, <1>4
  <2>2. PICK i \in DOMAIN depthMap : Ahead(depthMap, i, at[p]) /\ depthMap[i].element = depthMap[at[q]].element
    BY <1>1, <1>3, <1>4, <2>1, AheadIsNeeded
  <2>3. i = at[q]
    BY <1>1, <2>1, <2>2 DEF MapInv
  <2>4. QED
    BY <1>1, <2>1, <2>2, <2>3, AheadIsOrder
<1>5. ASSUME NEW p \in DOMAIN plan', NEW e \in ElementsOf(graph[plan'[p]])
      PROVE  \E q \in DOMAIN plan' : plan'[q] = e
  <2>1. at[p] \in DOMAIN depthMap /\ plan'[p] = depthMap[at[p]].element /\ depthMap[at[p]].element \in DOMAIN graph
    BY <1>1, <1>2, <1>3, MapIsTyped
  <2>2. DependsOn(graph, depthMap[at[p]].element, e)
    BY <1>3, <1>5, <2>1, DependsDirectly
  <2>3. PICK i \in DOMAIN depthMap : depthMap[i].element = e
    BY <1>1, <1>3, <2>1, <2>2, AheadIsNeeded
  <2>4. QED
    BY <1>2, <2>3
<1>6. PlanIsTopological' /\ PlanIsClosed'
  BY <1>1, <1>4, <1>5 DEF PlanIsTopological, PlanIsClosed, DependsOn
<1>7. PlanIsSafe'
  <2>1. DOMAIN plan' \subseteq Nat /\ \A k \in DOMAIN depthMap : depthMap[k].element \in Safe
    BY <1>1, <1>2, MapIsTyped
  <2>2. Safe' = Safe
    BY DEF Safe, checkVars
  <2>3. QED
    BY <1>2, <2>1, <2>2 DEF PlanIsSafe
<1>8. QED
  BY <1>1, <1>6, <1>7 DEF PlanInv

LEMMA StartPlanKeeps ==
  ASSUME GraphInv, CheckInv, PlanInv, StartPlan
  PROVE  PlanInv'
<1>1. phase = "assert" /\ UNCHANGED <<roots, graph, validated>> /\ calls = <<>> /\ depthMap = <<>> /\ plan = <<>>
  BY DEF StartPlan, checkVars, PlanInv
<1>2. CASE phase' = "failed" /\ UNCHANGED planVars
  BY <1>1, <1>2 DEF PlanInv, planVars
<1>3. CASE \E n \in 0..Len(roots) : BeginPlan(SubSeq(roots, 1, n))
  <2>1. PICK n \in 0..Len(roots) : BeginPlan(SubSeq(roots, 1, n))
    BY <1>3
  <2>2. /\ roots \in Seq(DOMAIN graph) /\ \A i \in DOMAIN roots : roots[i] \in validated
        /\ Dummy \notin DOMAIN graph
    BY <1>1 DEF GraphInv, CheckInv, Accepted, IsGraph
  <2>3. \A i \in 1..Len(roots) : roots[i] \in Safe
    BY <2>2 DEF Safe
  <2>4. roots \in Seq(Safe)
    <3>1. Len(roots) \in Nat /\ roots \in [1..Len(roots) -> Safe]
      BY <2>2, <2>3
    <3>2. QED
      BY <3>1, FunctionIsList
  <2>5. SubSeq(roots, 1, n) \in Seq(Safe)
    BY <2>4
  <2>6. phase' = "plan" /\ left' \in Seq(Safe') /\ calls' = <<>> /\ depthMap' = <<>> /\ plan' = <<>>
    BY <1>1, <2>1, <2>5 DEF BeginPlan, Safe
  <2>7. MapInv(depthMap)'
    BY <2>6 DEF MapInv
  <2>8. CallsInv'
    BY <2>6 DEF CallsInv
  <2>9. QED
    BY <2>6, <2>7, <2>8 DEF PlanInv
<1>4. QED
  BY <1>2, <1>3 DEF StartPlan

\* The order of what is left is that of the plan.
LEMMA TakeOutKeeps ==
  ASSUME GraphInv, CheckInv, PlanInv, TakeOut
  PROVE  PlanInv'
<1>1. /\ phase = "select" /\ phase' = "done" /\ graph' = graph /\ PlanIsTopological
      /\ \A i, k \in DOMAIN plan' :
           i < k => \E a, b \in DOMAIN plan : a < b /\ plan'[i] = plan[a] /\ plan'[k] = plan[b]
  BY DEF TakeOut, PlanInv
<1>2. PlanIsTopological'
  BY <1>1 DEF PlanIsTopological, DependsOn
<1>3. QED
  BY <1>1, <1>2 DEF PlanInv

LEMMA PlanKept ==
  ASSUME GraphInv, CheckInv, PlanInv, [PlanningNext]_graphVars
  PROVE  PlanInv'
<1>1. ASSUME phase' \in {"load", "failed", "check", "sort", "assert"}, phase \in {"load", "check", "sort"},
             UNCHANGED planVars
      PROVE  PlanInv'
  BY <1>1 DEF PlanInv, planVars
<1>2. CASE Load \/ StartCheck \/ Sorted
  BY <1>1, <1>2 DEF Load, StartCheck, BeginCheck, Sorted
<1>3. CASE CheckStep /\ UNCHANGED planVars
  <2>1. phase = "check" /\ phase' \in {"check", "failed", "sort"}
    BY <1>3 DEF CheckStep, FindCircle, Descend, PassOver, LooksAt, Validate
  <2>2. QED
    BY <1>1, <1>3, <2>1
<1>4. CASE PlanStep
  BY <1>4, VisitRootKeeps, VisitDependencyKeeps, SecondLoopKeeps, ReturnKeeps, EndPlanKeeps DEF PlanStep
<1>5. CASE UNCHANGED graphVars
  <2>1. UNCHANGED <<phase, graph, validated, left, calls, depthMap, plan>>
    BY <1>5 DEF graphVars, checkVars, planVars
  <2>2. \A e, a : Planned(e, a)' <=> Planned(e, a)
    BY <2>1 DEF Planned
  <2>3. \A k : CallInv(k)' <=> CallInv(k)
    BY <2>1, <2>2 DEF CallInv
  <2>4. Safe' = Safe /\ CallEntries' = CallEntries /\ MapEntries' = MapEntries
    BY <2>1 DEF Safe, CallEntries, MapEntries
  <2>5. CallsInv => CallsInv'
    BY <2>1, <2>3, <2>4 DEF CallsInv, DependsOn
  <2>6. MapInv(depthMap) => MapInv(depthMap)'
    BY <2>1, <2>4 DEF MapInv, NeedsBefore
  <2>7. (PlanIsTopological => PlanIsTopological') /\ (PlanIsClosed => PlanIsClosed')
        /\ (PlanIsSafe => PlanIsSafe')
    BY <2>1, <2>4 DEF PlanIsTopological, PlanIsClosed, PlanIsSafe, DependsOn
  <2>8. QED
    BY <2>1, <2>5, <2>6, <2>7 DEF PlanInv
<1>6. QED
  BY <1>2, <1>3, <1>4, <1>5, StartPlanKeeps, TakeOutKeeps DEF PlanningNext

LEMMA PlanningInvariant == PlanningSpec => [](GraphInv /\ CheckInv /\ PlanInv)
<1>1. PlanningInit => GraphInv /\ CheckInv /\ PlanInv
  BY GraphAndCheckBegin DEF PlanningInit, PlanInit, PlanInv
<1>2. (GraphInv /\ CheckInv /\ PlanInv) /\ [PlanningNext]_graphVars => (GraphInv /\ CheckInv /\ PlanInv)'
  BY GraphAndCheckKept, PlanKept
<1>3. QED
  BY <1>1, <1>2, PTL DEF PlanningSpec

\* PlanIsTopological, for every graph: wherever the recursion of _Planner.plan_element() has come by
\* first, no element is planned before one that it depends on.
THEOREM PlansAreInOrder == PlanningSpec => []PlanIsTopological
<1>1. PlanInv => PlanIsTopological
  BY DEF PlanInv, PlanIsTopological
<1>2. PlanInv /\ GraphInv => PlanIsTopological
  BY <1>1
<1>3. QED
  BY <1>2, PlanningInvariant, PTL

\* Until exceptions are taken out, an element is planned with all that it depends on: none is lost to
\* the early returns of _Planner.plan_element() or to the sort by depth.
THEOREM NothingNeededIsLost == PlanningSpec => [](phase = "select" => PlanIsClosed)
<1>1. PlanInv => (phase = "select" => PlanIsClosed)
  BY DEF PlanInv
<1>2. QED
  BY <1>1, PlanningInvariant, PTL

\* The places in the plan are a ranking, in which all that an element depends on comes first.
PlanIsRanked ==
  LET planned == {plan[p] : p \in DOMAIN plan} IN
  \E rank \in [planned -> DOMAIN plan] :
    \A e \in planned : ElementsOf(graph[e]) \subseteq planned /\ \A f \in ElementsOf(graph[e]) : rank[f] < rank[e]

\* What ElementGraph assumes of the elements of a session, that they have a ranking, is true of all
\* that the loader accepts and the planner plans.
THEOREM PlansAreRanked == PlanningSpec => [](phase = "select" => PlanIsRanked)
<1>1. GraphInv /\ CheckInv /\ PlanInv => (phase = "select" => PlanIsRanked)
  <2> SUFFICES ASSUME GraphInv, CheckInv, PlanInv, phase = "select" PROVE PlanIsRanked
    OBVIOUS
  <2>0. PICK planned : planned = {plan[p] : p \in DOMAIN plan}
    OBVIOUS
  <2>1. /\ IsGraph(graph) /\ SafeInv /\ PlanIsTopological /\ PlanIsClosed
        /\ DOMAIN plan \subseteq Nat /\ \A p \in DOMAIN plan : plan[p] \in Safe
    BY DEF GraphInv, CheckInv, PlanInv, PlanIsSafe
  <2>2. PICK rank : rank = [e \in planned |-> CHOOSE p \in DOMAIN plan : plan[p] = e]
    OBVIOUS
  <2>3. \A e \in planned : rank[e] \in DOMAIN plan /\ plan[rank[e]] = e
    BY <2>0, <2>2
  <2>4. rank \in [planned -> DOMAIN plan]
    BY <2>2, <2>3
  <2>5. ASSUME NEW e \in planned, NEW f \in ElementsOf(graph[e])
        PROVE  f \in planned /\ rank[f] < rank[e]
    <3>1. f \in planned
      BY <2>0, <2>1, <2>3, <2>5 DEF PlanIsClosed
    <3>2. e \in DOMAIN graph /\ ~DependsOn(graph, e, e)
      BY <2>0, <2>1 DEF Safe, SafeInv
    <3>3. DependsOn(graph, e, f)
      BY <2>1, <2>5, <3>2, DependsDirectly
    <3>4. ~(rank[e] < rank[f]) /\ rank[e] # rank[f]
      BY <2>1, <2>3, <3>1, <3>2, <3>3 DEF PlanIsTopological
    <3>5. rank[e] \in Nat /\ rank[f] \in Nat
      BY <2>1, <2>3, <3>1
    <3>6. QED
      BY <3>1, <3>4, <3>5
  <2>6. QED
    BY <2>0, <2>4, <2>5 DEF PlanIsRanked
<1>2. QED
  BY <1>1, PlanningInvariant, PTL
=============================================================================

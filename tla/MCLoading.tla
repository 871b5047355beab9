----------------------------- MODULE MCLoading -----------------------------
(***************************************************************************)
(* Instances of Loader: projects that TLC loads.                           *)
(***************************************************************************)
EXTENDS Loader

Order == <<"a", "b", "c", "j", "k", "l", "m", "n", "t", "x", "y">>
MCBefore(s, t) == IndexFirstSubSeq(<<s>>, Order) < IndexFirstSubSeq(<<t>>, Order)

Dep(path, type) == [path |-> path, type |-> type]
OnAll(paths) == [i \in DOMAIN paths |-> Dep(paths[i], AllDep)]
Override(path, target) == <<[path |-> path, target |-> target]>>
Conf(name) == [name |-> name, internal |-> {}, duplicates |-> {}]

\* One project, with dependencies of both types in any order: cycles, diamonds, and graphs on
\* which the order of sorting is not a total one.
DepsOn(names) == {[i \in DOMAIN s |-> Dep(<<s[i][1]>>, s[i][2])] :
                    s \in UNION {{s \in [1..n -> names \X {BuildDep, RuntimeDep}] :
                                    \A i, k \in 1..n : i < k => s[i][1] # s[k][1]} : n \in 0..3}}
AtMostOne(names) == {<<>>} \cup {<<Dep(<<n>>, type)>> : n \in names, type \in {BuildDep, RuntimeDep}}

OneProject ==
  {[root |-> "r", targets |-> <<<<"t">>>>, exceptions |-> e, conf |-> "r" :> Conf("r"),
    files |-> "r" :> ("t" :> Plain(t) @@ "a" :> Plain(a) @@ "b" :> Plain(b) @@ "c" :> Plain(c))] :
    e \in {<<>>, <<<<"b">>>>}, t \in DepsOn({"a", "b", "c"}), a \in AtMostOne({"b", "c", "t"}),
    b \in AtMostOne({"c"}), c \in {<<>>, OnAll(<<<<"b">>>>)}}

\* A project r with a subproject p through j, and in it a subproject q through k, which r has
\* through n as well; links l, m and x, and overrides.
Ways == {<<"j", "a">>, <<"l", "a">>, <<"j", "k", "a">>, <<"n", "a">>, <<"x">>, <<"j">>}
Subprojects ==
  {[root |-> "r", targets |-> <<<<"t">>>>, exceptions |-> <<>>,
    conf |-> "r" :> Conf("r") @@ "p" :> [Conf("p") EXCEPT !.internal = internal] @@ "q" :> Conf("q"),
    files |->
         "r" :> ("t" :> Plain(OnAll(t)) @@ "j" :> Junction("p", over) @@ "n" :> Junction("q", <<>>)
                          @@ "l" :> Link(l) @@ "x" :> x @@ "y" :> Plain(<<>>))
      @@ "p" :> ("a" :> Plain(OnAll(a)) @@ "b" :> Plain(<<>>) @@ "m" :> Link(m)
                          @@ "k" :> Junction("q", under))
      @@ "q" :> ("a" :> Plain(<<>>) @@ "b" :> Plain(OnAll(<<<<"a">>>>)))] :
    t \in {<<w>> : w \in Ways} \cup {<<w, v>> : w \in Ways, v \in Ways},
    l \in {<<"j">>, <<"j", "k">>},
    x \in {Plain(<<>>), Link(<<"j", "b">>)},
    over \in {<<>>, Override(<<"a">>, <<"x">>), Override(<<"k", "a">>, <<"x">>), Override(<<"k">>, <<"n">>),
              Override(<<"m">>, <<"y">>)},
    a \in {<<>>, <<<<"k", "b">>>>, <<<<"m">>>>},
    m \in {<<"b">>, <<"k", "a">>},
    under \in {<<>>, Override(<<"a">>, <<"b">>)},
    internal \in {{}, {<<"k">>}}}

MCInputs == [one |-> OneProject, several |-> Subprojects]
=============================================================================

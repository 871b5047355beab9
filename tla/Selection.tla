------------------------------ MODULE Selection ------------------------------
(***************************************************************************)
(* The exclusion of elements from a plan (except_elements() in             *)
(* _pipeline.py).                                                          *)
(***************************************************************************)
EXTENDS Dependencies

\* except_elements(), find_intersection(): what the exceptions reach first of what is targeted.
RECURSIVE Intersection(_, _, _)
Intersection(deps, targeted, exceptions) ==
  LET outside == exceptions \ targeted
      more == UNION {ElementsOf(deps[e]) : e \in outside}
  IN IF more \subseteq exceptions THEN exceptions \cap targeted
     ELSE Intersection(deps, targeted, exceptions \cup more)

\* The targeted elements are traversed, but for the intersection.
RECURSIVE ReachedAvoiding(_, _, _)
ReachedAvoiding(deps, from, avoided) ==
  LET in == from \ avoided
      more == in \cup (UNION {ElementsOf(deps[e]) : e \in in} \ avoided)
  IN IF more = in THEN in ELSE ReachedAvoiding(deps, more, avoided)

\* Mutant: what was traversed is returned, not what was planned.
ExceptTraversed(deps, targets, elements, exceptions) ==
  SetToSeq(ReachedAvoiding(deps, targets, Intersection(deps, ReachedFrom(deps, targets), exceptions)))

\* except_elements().
ExceptElements(deps, targets, elements, exceptions) ==
  LET intersection == Intersection(deps, ReachedFrom(deps, targets), exceptions)
      kept == ReachedAvoiding(deps, targets, intersection)
  IN IF exceptions = {} THEN elements ELSE SelectSeq(elements, LAMBDA e : e \in kept)
=============================================================================

----------------------------- MODULE BuildOrder -----------------------------
(***************************************************************************)
(* What a build session promises, whatever its queues, threads and caches  *)
(* do: an element is built only while all that its build stages is in the  *)
(* cache as a success, one build of it at a time, never once it has been   *)
(* built, and what is in the cache stays there.                            *)
(***************************************************************************)
CONSTANTS Element, Inputs

VARIABLES
  have,      \* the elements with a successful artifact in the cache
  building   \* the elements a thread is building

Init == have \subseteq Element /\ building = {}

\* A pull finds an artifact.
Find(e) ==
  /\ e \notin have \cup building
  /\ have' = have \cup {e}
  /\ UNCHANGED building

Start(e) ==
  /\ e \notin have \cup building
  /\ Inputs[e] \subseteq have
  /\ building' = building \cup {e}
  /\ UNCHANGED have

\* A build ends, with an artifact or without.
Finish(e) ==
  /\ e \in building
  /\ building' = building \ {e}
  /\ have' \in {have, have \cup {e}}

Next == \E e \in Element : Find(e) \/ Start(e) \/ Finish(e)

Spec == Init /\ [][Next]_<<have, building>>
=============================================================================

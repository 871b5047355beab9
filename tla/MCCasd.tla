------------------------------- MODULE MCCasd -------------------------------
(***************************************************************************)
(* Two threads and the usage monitor, for TLC.                             *)
(***************************************************************************)
EXTENDS Casd

CONSTANTS t1, t2

\* One thread asks for a stub whose getter looks at the channel, the other for one whose
\* getter looks at the stub.
OneOfEach == [c \in Client |-> IF c = t1 THEN "cas" ELSE "bytestream"]
=============================================================================

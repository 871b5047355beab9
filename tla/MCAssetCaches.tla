--------------------------- MODULE MCAssetCaches ---------------------------
(***************************************************************************)
(* Two machines that share remotes, for TLC.                               *)
(***************************************************************************)
EXTENDS AssetCaches

CONSTANTS alice, bob,
  exact,  \* built in strict mode
  again,  \* built in strict mode by another machine: the same keys, other contents
  loose   \* built in non-strict mode with other dependencies

LooseKey == "loose"
StrongKeys == [a \in Artifacts |-> IF a = loose THEN LooseKey ELSE StrictKey]
StrictKeys == [a \in Artifacts |-> StrictKey]
WeakKeys == [a \in Artifacts |-> WeakKey]
Sources2 == <<"tar", "patch">>

ExactAndAgain == [c \in Clients |-> IF c = alice THEN {exact} ELSE {again}]
LooseOnly == [c \in Clients |-> {loose}]
ArtifactOps == [c \in Clients |-> IF c = alice THEN {"build", "push"} ELSE {"build", "pull"}]
AllOps == [c \in Clients |-> IF c = alice THEN {"build", "push", "fetch", "pushsources"}
                             ELSE {"build", "pull", "fetch"}]
=============================================================================

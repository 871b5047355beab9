----------------------------- MODULE MCPipeline -----------------------------
(***************************************************************************)
(* Small build sessions for TLC.                                           *)
(***************************************************************************)
EXTENDS Pipeline

CONSTANTS base, lib, tool, app

\* app is built with lib, lib needs base at runtime, base is built by itself.
ChainBuild == [e \in Element |-> IF e = app THEN {lib} ELSE {}]
ChainRuntime == [e \in Element |-> IF e = lib THEN {base} ELSE {}]
ChainPlan == <<base, lib, app>>

\* app is built with lib and tool, which both need base at runtime.
DiamondBuild == [e \in Element |-> IF e = app THEN {lib, tool} ELSE {}]
DiamondRuntime == [e \in Element |-> IF e \in {lib, tool} THEN {base} ELSE {}]
DiamondPlan == <<base, lib, tool, app>>

\* Limits of one job of each kind, but for CACHE which has none.
OneEach == [r \in Resource |-> IF r = "CACHE" THEN 0 ELSE 1]
TwoEach == [r \in Resource |-> IF r = "CACHE" THEN 0 ELSE 2]

PullFetchBuildPush == <<"Pull", "Fetch", "Build", "Push">>
FetchBuildPush == <<"Fetch", "Build", "Push">>
PullFetchBuild == <<"Pull", "Fetch", "Build">>
FetchBuild == <<"Fetch", "Build">>
=============================================================================

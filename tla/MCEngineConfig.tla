---------------------------- MODULE MCEngineConfig ----------------------------
(***************************************************************************)
(* EngineConfig for TLC.                                                   *)
(***************************************************************************)
EXTENDS EngineConfig, TLC

(* The requests differ in nothing but when they come: which root and which   *)
(* switch they are given is chosen as they are received.                     *)
SettersAreAlike == Permutations(Setters)

(* One more bound: no call fails before the Engine has started, which        *)
(* EngineConfig_watcher.cfg lets happen.                                     *)
FailuresAfterTheStart == pc[Main] # "idle" => failures = 0
=============================================================================

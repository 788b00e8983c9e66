----------------------------- MODULE MCSubprocesses ----------------------------
(* Instances for TLC of what the daemon runs as subprocesses: modules and  *)
(* the hooks of the project.  Each behaviour is one of one of the two.     *)
EXTENDS ModuleHost, MCHookRunner

VARIABLE side

MCInit == /\ side \in {"module", "hook"} /\ ManagerInit /\ RunnerInit
          /\ side = "hook" => global
MCModules == side = "module" /\ ManagerNext /\ UNCHANGED <<side, runnerVars>>
MCHooks == side = "hook" /\ RunnerNext /\ UNCHANGED <<side, managerVars>>
MCNext == MCModules \/ MCHooks

(* What was not chosen has no fair action that is enabled.                 *)
MCSpec == MCInit /\ [][MCNext]_<<side, managerVars, runnerVars>> /\ RunnerFairness

(* A module that runs on outside the map was lost by an overlap, and who   *)
(* holds one in the map is counted, so that neither a release nor the idle *)
(* timer takes it (manager.ts:255, 565).                                   *)
ModulesAreKept == LostOnlyByOverlap /\ HoldersKeepModule

(* It is kept, and to its users it is one service.                         *)
ModulesAreServed == []ModulesAreKept /\ ImplementsService

(* A fire ends, and a module that was stopped is not started again.        *)
SubprocessesSettle == FireSettles /\ StoppedIsNotRespawned

=============================================================================

------------------------------- MODULE MCStores --------------------------------
(* Instances for TLC of what several processes keep on disk: the audit     *)
(* log, the registry of daemons, the directory of modules, and the         *)
(* dependencies of a worktree.  Each behaviour is one of one of them; the  *)
(* others stay as they begin.                                              *)
EXTENDS AuditLog, RegistryFile, ModuleCatalog, Preparation, TLC

CONSTANTS a, b
VARIABLE file

MCWriters == {a, b}
MCWorktreeOf == <<1, 1, 2>>
WritersAlike == Permutations(MCWriters)

MCInit ==
    /\ file \in {"audit", "registry", "modules", "dependencies"}
    /\ AuditInit /\ RegistryInit /\ CatalogInit /\ PrepInit
    /\ file # "modules" => directory = {} /\ \A r \in Requests : target[r] = "new"
    /\ file # "dependencies" => locks = {} /\ declared = "none" /\ newer = "npm" /\ machine = {}

MCAudit ==
    file = "audit" /\ AuditNext /\ UNCHANGED <<file, registryVars, catalogVars, prepVars>>
MCRegistry ==
    /\ file = "registry" /\ RegistryNext
    /\ UNCHANGED <<file, auditVars, catalogVars, prepVars>>
MCCatalog ==
    /\ file = "modules" /\ CatalogNext
    /\ UNCHANGED <<file, auditVars, registryVars, prepVars>>
MCPreparation ==
    /\ file = "dependencies" /\ PrepNext
    /\ UNCHANGED <<file, auditVars, registryVars, catalogVars>>
MCNext == MCAudit \/ MCRegistry \/ MCCatalog \/ MCPreparation

MCSpec == MCInit /\ [][MCNext]_<<file, auditVars, registryVars, catalogVars, prepVars>>
==============================================================================

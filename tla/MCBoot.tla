-------------------------------- MODULE MCBoot ---------------------------------
(* Instances for TLC of the steps of a boot, the hooks that the config of  *)
(* the project has it register, and DevTools, which goes on by itself.     *)
(* Each behaviour is one of one of them; the others stay as they begin.    *)
EXTENDS SessionBoot, DevTools, HookCatalog

VARIABLE part

MCInit ==
    /\ part \in {"boot", "devtools", "hooks"}
    /\ BootInit /\ DevInit /\ HookCatalogInit
    /\ part # "devtools" => tracked = 0
    /\ part # "hooks" => configFile = Absent /\ scriptFile = NoFile /\ ~installed

MCBoots == part = "boot" /\ BootNext /\ UNCHANGED <<part, devVars, hookCatalogVars>>
MCDevTools ==
    part = "devtools" /\ DevNext /\ UNCHANGED <<part, bootVars, hookCatalogVars>>
MCHooks == part = "hooks" /\ HookCatalogNext /\ UNCHANGED <<part, bootVars, devVars>>
MCNext == MCBoots \/ MCDevTools \/ MCHooks

MCSpec == MCInit /\ [][MCNext]_<<part, bootVars, devVars, hookCatalogVars>>

==============================================================================

---------------------------- MODULE ModuleCatalog -----------------------------
(***************************************************************************)
(* The third-party modules of a daemon: their directories under            *)
(* ~/.rn-dev/modules, the manifests that are registered, and the requests  *)
(* of src/app/modules-ipc.ts that change either: enable, disable, rescan,  *)
(* install and uninstall, with the installer and the loader behind them.   *)
(* The directories are shared with other processes.  A request is a step   *)
(* per stretch between two awaits that take time; ModuleHost is what       *)
(* happens to the subprocesses.                                            *)
(***************************************************************************)
EXTENDS Naturals, FiniteSets

CONSTANTS
    Modules,
    PerWorktree,    \* modules whose manifest says so; the others are global
    HostRange,      \* modules whose hostRange admits the host's version ...
    AnyRange,       \* ... and "0.0.0", which the requests use in its place
    Requests,       \* requests, in the life of a session
    MaxVersion,     \* bound on versions of a module
    MaxOutside      \* bound on changes by other processes

ASSUME CatalogAssumption ==
    /\ PerWorktree \subseteq Modules /\ HostRange \subseteq Modules
    /\ AnyRange \subseteq Modules
    /\ MaxVersion \in Nat \ {0} /\ MaxOutside \in Nat

VARIABLES
    directory,   \* modules with a directory
    manifest,    \* version of the manifest in it, 0 when there is none
    flagged,     \* modules with a disabled.flag in it
    registered,  \* version registered for each module and scope unit, or 0
    op,          \* what each request does, and where it is
    target,      \* its module
    wasDisabled, \* requests that found the flag set
    changes,     \* what a rescan has found and has yet to apply
    listed,      \* registered, when the last modules-event was emitted
    outside,     \* changes by other processes so far
    overlapped,  \* history: modules that two requests worked on at a time
    disturbed,   \* history: modules other processes have changed
    quiet        \* history: modules enable() loaded without an event

disk == <<directory, manifest, flagged>>
requests == <<op, target, wasDisabled, changes>>
catalogHistory == <<overlapped, disturbed, quiet>>
catalogVars == <<disk, registered, requests, listed, outside, catalogHistory>>

Versions == 1..MaxVersion
Units == {"global", "worktree"}
BootUnit(m) == IF m \in PerWorktree THEN "worktree" ELSE "global"
IpcUnit == "global"                     \* options.scopeUnit is never given
Known(m) == {u \in Units : registered[<<m, u>>] # 0}
Pending(r) == op[r] \notin {"idle", "done"}
(* resolveRegistered() without a scope unit: the first of the map.         *)
FirstUnit(m) == IF registered[<<m, BootUnit(m)>>] # 0 THEN BootUnit(m) ELSE IpcUnit

CatalogTypeOK ==
    /\ directory \cup flagged \cup overlapped \cup disturbed \cup quiet \subseteq Modules
    /\ manifest \in [Modules -> 0..MaxVersion]
    /\ registered \in [Modules \X Units -> 0..MaxVersion]
    /\ listed \in [Modules \X Units -> 0..MaxVersion]
    /\ op \in [Requests -> {"idle", "disabling", "downloading", "extracting", "reifying",
                            "uninstalling", "rescanning", "updating", "removing", "done"}]
    /\ target \in [Requests -> Modules] /\ wasDisabled \subseteq Requests
    /\ changes \in [Requests -> SUBSET
           [kind : {"install", "update", "uninstall"}, module : Modules, version : Versions,
            unit : Units]]
    /\ outside \in 0..MaxOutside
    /\ \A m \in Modules : m \notin directory => manifest[m] = 0 /\ m \notin flagged

(* What the boot has loaded, with the host's version and its worktree.     *)
CatalogInit ==
    /\ directory \in SUBSET Modules /\ flagged \in SUBSET directory
    /\ manifest = [m \in Modules |-> IF m \in directory THEN 1 ELSE 0]
    /\ registered = [k \in Modules \X Units |->
           IF k[1] \in (directory \ flagged) \cap HostRange /\ k[2] = BootUnit(k[1])
             THEN 1 ELSE 0]
    /\ listed = registered
    /\ op = [r \in Requests |-> "idle"] /\ target \in [Requests -> Modules]
    /\ wasDisabled = {}
    /\ changes = [r \in Requests |-> {}]
    /\ outside = 0 /\ overlapped = {} /\ disturbed = {} /\ quiet = {}

-----------------------------------------------------------------------------
(* Another daemon, or the standalone CLI, installs, replaces or removes.   *)
OutsideChange(m) ==
    /\ outside < MaxOutside /\ outside' = outside + 1
    /\ disturbed' = disturbed \cup {m}
    /\ \/ \E v \in Versions :
             /\ directory' = directory \cup {m}
             /\ manifest' = [manifest EXCEPT ![m] = v] /\ flagged' = flagged \ {m}
       \/ /\ directory' = directory \ {m}
          /\ manifest' = [manifest EXCEPT ![m] = 0] /\ flagged' = flagged \ {m}
    /\ UNCHANGED <<registered, requests, listed, overlapped, quiet>>

-----------------------------------------------------------------------------
Goes(r, phase) == op' = [op EXCEPT ![r] = phase]
Registers(m, u, v) == registered' = [registered EXCEPT ![<<m, u>>] = v]
Emits == listed' = registered'
Silent == UNCHANGED listed
(* The modules a request works on, for the history.                        *)
Touches(r) == {target[r]} \cup {c.module : c \in changes[r]}
Overlaps(ms) ==
    overlapped' = overlapped \cup {m \in ms : \E r \in Requests : Pending(r) /\ m \in Touches(r)}

(* loadUserGlobalModules() of the requests: modules with a manifest, no    *)
(* flag and a range that admits "0.0.0", into a unit that is free.         *)
Loadable == {m \in AnyRange : manifest[m] # 0 /\ m \notin flagged}
Load(ms) ==
    registered' = [k \in Modules \X Units |->
        IF k[1] \in ms /\ k[2] = IpcUnit /\ registered[k] = 0 THEN manifest[k[1]]
                                                              ELSE registered[k]]

(* Mutant: the flag stays.                                                 *)
EnableFlagged(r, m) ==
    /\ op[r] = "idle" /\ target[r] = m /\ Goes(r, "done")
    /\ IF Known(m) # {} THEN UNCHANGED registered ELSE Load(Loadable)
    /\ Emits /\ Overlaps({m})
    /\ UNCHANGED <<disk, target, wasDisabled, changes, outside, disturbed, quiet>>

Enable(r, m) ==
    LET loads == (IF m \in flagged /\ manifest[m] # 0 /\ m \in AnyRange THEN {m} ELSE {})
                 \cup Loadable
    IN /\ op[r] = "idle" /\ target[r] = m /\ Goes(r, "done")
       /\ flagged' = flagged \ {m}
       /\ IF Known(m) # {}
            THEN /\ UNCHANGED <<registered, quiet>>
                 /\ IF m \in flagged THEN Emits ELSE Silent
            ELSE /\ Load(loads)
                 /\ IF m \in flagged /\ m \in loads
                      THEN Emits /\ UNCHANGED quiet
                      ELSE Silent /\ quiet' = quiet \cup
                             {n \in Modules :
                                 registered'[<<n, IpcUnit>>] # registered[<<n, IpcUnit>>]}
       /\ Overlaps({m} \cup (IF Known(m) = {} THEN loads ELSE {}))
       /\ UNCHANGED <<directory, manifest, target, wasDisabled, changes, outside,
                      disturbed>>

(* The flag is written, into a directory made for it if need be; then the  *)
(* subprocess is shut down.                                                *)
Disable(r, m) ==
    /\ op[r] = "idle" /\ target[r] = m
    /\ directory' = directory \cup {m} /\ flagged' = flagged \cup {m}
    /\ wasDisabled' = IF m \in flagged THEN wasDisabled \cup {r} ELSE wasDisabled
    /\ Goes(r, IF Known(m) # {} THEN "disabling" ELSE "done")
    /\ IF Known(m) = {} /\ m \notin flagged THEN listed' = registered ELSE Silent
    /\ Overlaps({m})
    /\ UNCHANGED <<manifest, registered, target, changes, outside, disturbed,
                   quiet>>

Disabled(r) ==
    /\ op[r] = "disabling" /\ Goes(r, "done")
    /\ Registers(target[r], FirstUnit(target[r]), 0)
    /\ IF r \in wasDisabled THEN Silent ELSE Emits
    /\ UNCHANGED <<disk, target, wasDisabled, changes, outside, catalogHistory>>

-----------------------------------------------------------------------------
(* installModule(): permissions, acknowledgment, tarball and its digest    *)
(* are refused before anything is written.                                 *)
Install(r, m) ==
    /\ op[r] = "idle" /\ target[r] = m
    /\ Goes(r, IF m \in directory THEN "done" ELSE "downloading")
    /\ Overlaps({m})
    /\ UNCHANGED <<disk, registered, target, wasDisabled, changes, listed,
                   outside, disturbed, quiet>>

DownloadFails(r) ==
    /\ op[r] = "downloading" /\ Goes(r, "done")
    /\ UNCHANGED <<disk, registered, target, wasDisabled, changes, listed,
                   outside, catalogHistory>>

Downloaded(r) ==
    /\ op[r] = "downloading" /\ Goes(r, "extracting")
    /\ directory' = directory \cup {target[r]}
    /\ UNCHANGED <<manifest, flagged, registered, target, wasDisabled, changes,
                   listed, outside, catalogHistory>>

Rollback(m) ==
    /\ directory' = directory \ {m} /\ manifest' = [manifest EXCEPT ![m] = 0]
    /\ flagged' = flagged \ {m}

InstallFails(r) ==
    /\ op[r] \in {"extracting", "reifying"} /\ Goes(r, "done")
    /\ Rollback(target[r])
    /\ UNCHANGED <<registered, target, wasDisabled, changes, listed, outside,
                   catalogHistory>>

Extracted(r, v) ==
    /\ op[r] = "extracting" /\ Goes(r, "reifying")
    /\ directory' = directory \cup {target[r]}
    /\ manifest' = [manifest EXCEPT ![target[r]] = v]
    /\ UNCHANGED <<flagged, registered, target, wasDisabled, changes, listed,
                   outside, catalogHistory>>

(* The manifest is validated and registered; where its unit is taken,      *)
(* registerManifest() throws and the request is rejected as it stands.     *)
InstallEnds(r) ==
    LET m == target[r] IN
    /\ op[r] = "reifying" /\ Goes(r, "done")
    /\ IF manifest[m] = 0 \/ m \notin AnyRange
         THEN Rollback(m) /\ UNCHANGED registered /\ Silent
         ELSE /\ UNCHANGED disk
              /\ IF registered[<<m, IpcUnit>>] # 0 THEN UNCHANGED registered /\ Silent
                 ELSE Registers(m, IpcUnit, manifest[m]) /\ Emits
    /\ UNCHANGED <<target, wasDisabled, changes, outside, catalogHistory>>

Uninstall(r, m) ==
    /\ op[r] = "idle" /\ target[r] = m
    /\ Goes(r, IF m \in directory THEN "uninstalling" ELSE "done")
    /\ Overlaps({m})
    /\ UNCHANGED <<disk, registered, target, wasDisabled, changes, listed,
                   outside, disturbed, quiet>>

(* The manifest of the unit the request was given, or of "global".         *)
Uninstalled(r) ==
    LET m == target[r] IN
    /\ op[r] = "uninstalling" /\ Goes(r, "done")
    /\ Registers(m, IpcUnit, 0) /\ Rollback(m) /\ Emits
    /\ UNCHANGED <<target, wasDisabled, changes, outside, catalogHistory>>

-----------------------------------------------------------------------------
(* rescanAction(): one change after the other, installs and updates before *)
(* removals.  The map of what is registered is by module: of two units,    *)
(* the last one counts.                                                    *)
LastUnit(m) == IF registered[<<m, IpcUnit>>] # 0 THEN IpcUnit ELSE "worktree"

Differences ==
    {[kind |-> IF Known(m) = {} THEN "install" ELSE "update", module |-> m,
      version |-> manifest[m], unit |-> IF Known(m) = {} THEN IpcUnit ELSE LastUnit(m)] :
        m \in {n \in Loadable : Known(n) = {} \/ registered[<<n, LastUnit(n)>>] # manifest[n]}}
    \cup
    {[kind |-> "uninstall", module |-> m, version |-> registered[<<m, LastUnit(m)>>],
      unit |-> LastUnit(m)] : m \in {n \in Modules \ Loadable : Known(n) # {}}}

Rescan(r) ==
    /\ op[r] = "idle" /\ Goes(r, "rescanning")
    /\ changes' = [changes EXCEPT ![r] = Differences]
    /\ Overlaps({c.module : c \in Differences})
    /\ UNCHANGED <<disk, registered, target, wasDisabled, listed, outside, disturbed, quiet>>

Kinds(r) == {c.kind : c \in changes[r]}
Rescanning(r, c) ==
    /\ op[r] = "rescanning" /\ c \in changes[r]
    /\ c.kind = "uninstall" => Kinds(r) = {"uninstall"}

RescanEnds(r) ==
    /\ op[r] = "rescanning" /\ changes[r] = {} /\ Goes(r, "done")
    /\ UNCHANGED <<disk, registered, target, wasDisabled, changes, listed, outside,
                   catalogHistory>>

(* Where the unit is taken by now, registerManifest() throws and the       *)
(* rescan is rejected half-way.                                            *)
RescanInstalls(r, c) ==
    /\ Rescanning(r, c) /\ c.kind = "install"
    /\ IF registered[<<c.module, IpcUnit>>] # 0
         THEN /\ Goes(r, "done") /\ changes' = [changes EXCEPT ![r] = {}]
              /\ UNCHANGED registered /\ Silent
         ELSE /\ Goes(r, "rescanning") /\ changes' = [changes EXCEPT ![r] = @ \ {c}]
              /\ Registers(c.module, IpcUnit, c.version) /\ Emits
    /\ UNCHANGED <<disk, target, wasDisabled, outside, catalogHistory>>

(* The subprocess of what was registered is shut down first.               *)
RescanStops(r, c) ==
    /\ Rescanning(r, c) /\ c.kind # "install"
    /\ Goes(r, IF c.kind = "update" THEN "updating" ELSE "removing")
    /\ target' = [target EXCEPT ![r] = c.module]
    /\ UNCHANGED <<disk, registered, wasDisabled, changes, listed, outside, catalogHistory>>

Stopped(r) == CHOOSE c \in changes[r] : c.module = target[r]

RescanRemoves(r) ==
    LET c == Stopped(r) IN
    /\ op[r] = "removing" /\ Goes(r, "rescanning")
    /\ changes' = [changes EXCEPT ![r] = @ \ {c}]
    /\ Registers(c.module, c.unit, 0) /\ Emits
    /\ UNCHANGED <<disk, target, wasDisabled, outside, catalogHistory>>

RescanUpdates(r) ==
    LET c == Stopped(r)
        removed == [registered EXCEPT ![<<c.module, c.unit>>] = 0]
    IN /\ op[r] = "updating"
       /\ IF removed[<<c.module, IpcUnit>>] # 0
            THEN /\ Goes(r, "done") /\ changes' = [changes EXCEPT ![r] = {}]
                 /\ registered' = removed /\ Silent
            ELSE /\ Goes(r, "rescanning") /\ changes' = [changes EXCEPT ![r] = @ \ {c}]
                 /\ registered' = [removed EXCEPT ![<<c.module, IpcUnit>>] = c.version] /\ Emits
       /\ UNCHANGED <<disk, target, wasDisabled, outside, catalogHistory>>

CatalogNext ==
    \/ \E m \in Modules : OutsideChange(m)
    \/ \E r \in Requests :
          \/ \E m \in Modules : Enable(r, m) \/ Disable(r, m) \/ Install(r, m) \/ Uninstall(r, m)
          \/ Disabled(r) \/ DownloadFails(r) \/ Downloaded(r) \/ InstallFails(r)
          \/ \E v \in Versions : Extracted(r, v)
          \/ InstallEnds(r) \/ Uninstalled(r)
          \/ Rescan(r) \/ RescanEnds(r) \/ RescanRemoves(r) \/ RescanUpdates(r)
          \/ \E c \in changes[r] : RescanInstalls(r, c) \/ RescanStops(r, c)
CatalogSpec == CatalogInit /\ [][CatalogNext]_catalogVars

-----------------------------------------------------------------------------
Settled(m) ==
    /\ m \notin overlapped \cup disturbed \cup quiet
    /\ \A r \in Requests : Pending(r) => m \notin Touches(r)
FlagDecidesOf(m) == Known(m) # {} <=> manifest[m] # 0 /\ m \notin flagged

(* Between requests a global module whose range admits any host is         *)
(* registered exactly when it is on disk and not disabled, whatever was    *)
(* requested, failed or was rolled back, unless two requests for it        *)
(* overlapped, another process changed it or enable() loaded it for        *)
(* another one (modules-ipc.ts:349-450, 1361-1420, installer.ts).          *)
FlagDecides ==
    \A m \in (AnyRange \cap HostRange) \ PerWorktree : Settled(m) => FlagDecidesOf(m)

(* Of a module registered under both units disable() takes away one at a   *)
(* time, and of the second it tells nobody: the flag is there by then.     *)
DisabledTwice == {target[r] : r \in wasDisabled} \cap PerWorktree

(* Subscribers read the list again on every modules-event: what they have  *)
(* read is what is registered, but for the same three cases and modules    *)
(* per worktree that are disabled again (modules-ipc.ts:418-440).          *)
ListIsFresh ==
    \A m \in Modules \ DisabledTwice : Settled(m) =>
        \A u \in Units : registered[<<m, u>>] = listed[<<m, u>>]

(* Disk, registry and clients agree on the module between requests.        *)
CatalogAgrees == FlagDecides /\ ListIsFresh

(* "Re-run the loader so the flag flip takes effect" (modules-ipc.ts:386): *)
(* so it does for every module the host's version admits.                  *)
FlipTakesEffect == \A m \in HostRange \ PerWorktree : Settled(m) => FlagDecidesOf(m)

(* "Uninstall tears down the subprocess and removes the install directory" *)
(* (installer.ts:20-21): what is registered has a manifest.                *)
UninstallTearsDown ==
    \A m \in HostRange \cap AnyRange : Settled(m) => (Known(m) # {} => manifest[m] # 0)
==============================================================================

----------------------------- MODULE Preparation -----------------------------
(***************************************************************************)
(* What a worktree goes through before an app is built in it: the checks   *)
(* of preflight and their fixes, the installation of its dependencies, the *)
(* clean modes.                                                            *)
(*                                                                         *)
(* Two processes do this with no lock between them: the daemon, when a     *)
(* session boots, and the MCP server (or the CLI) when it is asked.  A run *)
(* is a sequence of steps, taken whether the ones before failed or not.    *)
(* An installation takes time; what else runs then may spoil it.  The      *)
(* platform is iOS, where Pods are installed from node_modules.            *)
(***************************************************************************)
EXTENDS Naturals, Sequences, FiniteSets

CONSTANTS Checks,   \* the checks of preflight that are looked at
          MaxRuns   \* bound: runs begun

VARIABLES
    declared,  \* "packageManager" of package.json, or "none"
    newer,     \* the newer of package-lock.json and yarn.lock
    locks,     \* whose lockfiles there are
    chosen,    \* packageManager of the profile, or "none"
    modules,   \* node_modules: by whom ("none": there is none), and if whole
    batch,     \* installations that went well
    pods,      \* the batch the Pods were installed from; 0: no Pods
    env,       \* by process: does its environment name the JDK and the SDK?
    machine,   \* the other checks that hold
    passed,    \* preflightPassed of the worktree's artifact
    fixed,     \* history: checks fix-preflight said it fixed
    failing,   \* of those, the ones that failed when a session booted after that
    steps,     \* by process: the steps left of its run
    with,      \* by process: the manager of the installation it waits for
    spoiled,   \* by process: something else wrote to node_modules meanwhile
    marred,    \* history, by process: a step of the run failed, or another ran
    runs,      \* counts to MaxRuns
    latest,    \* history: the process and the mode of the run begun last
    installs   \* history: pairs of the manager the user chose and the one used

prepVars == <<declared, newer, locks, chosen, modules, batch, pods, env, machine, passed,
              fixed, failing, steps, with, spoiled, marred, runs, latest, installs>>
fileVars == <<locks, modules, batch, pods>>
userVars == <<declared, newer>>
checkVars == <<env, machine, passed, fixed, failing>>

Managers == {"npm", "yarn", "pnpm"}
Processes == {"daemon", "mcp"}
Other(p) == IF p = "daemon" THEN "mcp" ELSE "daemon"
NoModules == [by |-> "none", whole |-> FALSE]

(* The checks by what they look at and what their fix does.                *)
VersionChecks == {"node-version", "ruby-version"}               \* no fix
EnvironmentChecks == {"java-home", "android-home"}              \* sets process.env
InstalledChecks == {"android-sdk-licenses", "xcode-cli-tools", "cocoapods-installed"}
ServiceChecks == {"watchman", "metro-port"}                     \* their fix runs a command
ProjectChecks == {"env-file", "patch-package"}                  \* writes the worktree
SigningChecks == {"code-signing", "keychain-access"}
MachineChecks == VersionChecks \cup InstalledChecks \cup ServiceChecks \cup ProjectChecks
                     \cup SigningChecks
ASSUME ChecksAssumption ==
    Checks \subseteq MachineChecks \cup EnvironmentChecks
                         \cup {"node-modules-sync", "podfile-lock-sync"}

(* clean.ts: the package.json, a single lockfile, what the installation    *)
(* in node_modules left there, the newer lockfile.                         *)
detectPackageManager ==
    IF declared # "none" THEN declared
    ELSE IF locks = {"pnpm"} THEN "pnpm"
    ELSE IF "yarn" \in locks /\ "npm" \notin locks THEN "yarn"
    ELSE IF ~ {"npm", "yarn"} \subseteq locks THEN "npm"
    ELSE IF modules.whole /\ modules.by \in {"npm", "yarn"} THEN modules.by
    ELSE newer

(* The choice of boot, which knows bun and does not know pnpm.             *)
autoInstaller == IF "npm" \in locks THEN "npm" ELSE IF "yarn" \in locks THEN "yarn" ELSE "npm"

(* buildAllSteps, as far as a step changes what is modelled.               *)
getStepsForModePodsFirst(mode) ==  \* mutant: the Pods do not wait for node_modules
    CASE mode = "dirty" -> <<>>
      [] mode = "clean" -> <<"remove-node-modules", "pod-install", "install-dependencies">>
      [] mode = "ultra-clean" -> <<"remove-node-modules", "install-dependencies", "pod-install",
                                   "remove-pods">>
getStepsForMode(mode) ==
    CASE mode = "dirty" -> <<>>
      [] mode = "clean" -> <<"remove-node-modules", "install-dependencies", "pod-install">>
      [] mode = "ultra-clean" -> <<"remove-pods", "remove-node-modules",
                                   "install-dependencies", "pod-install">>

-----------------------------------------------------------------------------
PrepInit ==
    /\ declared \in {"none", "yarn"} /\ newer \in {"npm", "yarn"}
    /\ locks \in SUBSET Managers /\ chosen = "none"
    /\ modules \in {NoModules} \cup [by : locks, whole : {TRUE}]
    /\ batch = (IF modules.whole THEN 1 ELSE 0) /\ pods = batch
    /\ env = [p \in Processes |-> FALSE] /\ machine \in SUBSET (Checks \cap MachineChecks)
    /\ passed = FALSE /\ fixed = {} /\ failing = {}
    /\ steps = [p \in Processes |-> <<>>] /\ with = [p \in Processes |-> "none"]
    /\ spoiled = [p \in Processes |-> FALSE] /\ marred = [p \in Processes |-> TRUE]
    /\ runs = 0 /\ latest = <<"mcp", "none">> /\ installs = {}

(* A run begins; one that overlaps it makes no promise, nor does it.       *)
Begin(p, program, mode) ==
    /\ steps[p] = <<>> /\ with[p] = "none" /\ runs < MaxRuns /\ runs' = runs + 1
    /\ latest' = <<p, mode>>
    /\ steps' = [steps EXCEPT ![p] = program]
    /\ LET alone == steps[Other(p)] = <<>> /\ with[Other(p)] = "none"
       IN marred' = [q \in Processes |-> IF q = p THEN ~alone ELSE marred[q] \/ ~alone]
    /\ UNCHANGED <<userVars, chosen, fileVars, checkVars, with, spoiled, installs>>

(* A session boots: Electron first settles the package manager.            *)
bootSessionServices ==
    \E mode \in {"dirty", "clean", "ultra-clean"} :
        Begin("daemon", <<"settle", "preflight", "auto-install">> \o getStepsForMode(mode), mode)
cleanTool == \E mode \in {"clean", "ultra-clean"} : Begin("mcp", getStepsForMode(mode), mode)

-----------------------------------------------------------------------------
(* What the step that is next does, and what comes after it.               *)
AtStep(p, name) == steps[p] # <<>> /\ Head(steps[p]) = name /\ with[p] = "none"
Done(p, ok) ==
    /\ steps' = [steps EXCEPT ![p] = Tail(@)]
    /\ marred' = IF ok THEN marred ELSE [marred EXCEPT ![p] = TRUE]

(* settlePackageManager: with two lockfiles, the user's answer, or after a *)
(* minute the detected manager; the lockfiles of the others are deleted.   *)
settlePackageManager ==
    /\ AtStep("daemon", "settle") /\ Done("daemon", TRUE)
    /\ \/ /\ chosen = "none" /\ Cardinality(locks) >= 2
          /\ \E m \in locks \cup {detectPackageManager} :
               /\ chosen' = m
               /\ locks' = locks \ (CASE m = "npm" -> {"yarn"}
                                      [] m = "yarn" -> {"npm"}
                                      [] m = "pnpm" -> {"npm", "yarn"})
       \/ (chosen # "none" \/ Cardinality(locks) < 2) /\ UNCHANGED <<chosen, locks>>
    /\ UNCHANGED <<userVars, modules, batch, pods, checkVars, with, spoiled, runs, latest,
                   installs>>

(* node_modules is in sync if it exists, or no lockfile does; a            *)
(* Podfile.lock is if it can be read.                                      *)
check(c, p) == CASE c = "node-modules-sync" -> locks = {} \/ modules.by # "none"
                 [] c = "podfile-lock-sync" -> TRUE
                 [] c \in EnvironmentChecks -> env[p]
                 [] OTHER -> c \in machine
runAll(p) == {c \in Checks : ~check(c, p)}
BootPreflight ==
    /\ AtStep("daemon", "preflight") /\ Done("daemon", TRUE)
    /\ \/ /\ passed' = (runAll("daemon") = {})         \* "always", or it did not pass yet
          /\ failing' = fixed \cap runAll("daemon")
       \/ passed /\ UNCHANGED <<passed, failing>>       \* "once"
    /\ UNCHANGED <<userVars, chosen, fileVars, env, machine, fixed, with, spoiled, runs, latest,
                   installs>>

(* An installation writes the lockfile of its manager.                     *)
Installs(p, m) ==
    /\ with' = [with EXCEPT ![p] = m] /\ locks' = locks \cup {m}
    /\ spoiled' = [q \in Processes |-> (q # p /\ spoiled[q]) \/ with[Other(p)] # "none"]
    /\ installs' = IF p = "daemon" THEN installs \cup {<<chosen, m>>} ELSE installs
AutoInstall ==
    /\ AtStep("daemon", "auto-install")
    /\ IF modules.by = "none"
         THEN Installs("daemon", autoInstaller) /\ UNCHANGED <<steps, marred>>
         ELSE Done("daemon", TRUE) /\ UNCHANGED <<with, locks, spoiled, installs>>
    /\ UNCHANGED <<userVars, chosen, modules, batch, pods, checkVars, runs, latest>>
installDependencies(p) ==
    /\ AtStep(p, "install-dependencies") /\ Installs(p, detectPackageManager)
    /\ UNCHANGED <<userVars, chosen, modules, batch, pods, checkVars, steps, marred, runs, latest>>
(* The fix of node-modules-sync is npm's whoever the project belongs to.   *)
FixModules ==
    /\ AtStep("mcp", "node-modules-sync") /\ Installs("mcp", "npm")
    /\ UNCHANGED <<userVars, chosen, modules, batch, pods, checkVars, steps, marred, runs, latest>>

(* It ends well, or fails, or is killed at its timeout; spoiled, it may be *)
(* anything.  Boot's is followed by one of Pods.                           *)
InstallationEnds(p) ==
    /\ with[p] # "none"
    /\ \E ok \in BOOLEAN, whole \in BOOLEAN, podded \in BOOLEAN :
         /\ ~spoiled[p] => whole = ok
         /\ modules' = [by |-> with[p], whole |-> whole]
         /\ batch' = IF whole THEN batch + 1 ELSE batch
         /\ podded => whole /\ Head(steps[p]) = "auto-install"
         /\ pods' = IF podded THEN batch' ELSE pods
         /\ Done(p, ok /\ (Head(steps[p]) = "auto-install" => podded))
    /\ with' = [with EXCEPT ![p] = "none"] /\ spoiled' = [spoiled EXCEPT ![p] = FALSE]
    /\ UNCHANGED <<userVars, locks, chosen, checkVars, runs, latest, installs>>

-----------------------------------------------------------------------------
removeNodeModules(p) ==
    /\ AtStep(p, "remove-node-modules")
    /\ \/ modules' = NoModules /\ Done(p, TRUE)
       \/ modules.by # "none" /\ modules' = [modules EXCEPT !.whole = FALSE] /\ Done(p, FALSE)
    /\ spoiled' = [spoiled EXCEPT ![Other(p)] = @ \/ with[Other(p)] # "none"]
    /\ UNCHANGED <<userVars, locks, chosen, batch, pods, checkVars, with, runs, latest, installs>>
removePods(p) ==
    /\ AtStep(p, "remove-pods") /\ pods' = 0 /\ Done(p, TRUE)
    /\ UNCHANGED <<userVars, locks, chosen, modules, batch, checkVars, with, spoiled, runs,
                   latest, installs>>
podInstall(p) ==
    /\ AtStep(p, "pod-install")
    /\ \/ modules.whole /\ pods' = batch /\ Done(p, TRUE)
       \/ pods' \in {0, pods} /\ Done(p, FALSE)
    /\ UNCHANGED <<userVars, locks, chosen, modules, batch, checkVars, with, spoiled, runs,
                   latest, installs>>

(* rn-dev/fix-preflight in the process that is asked.  What installs the   *)
(* command line tools of Xcode only asks the user whether to.              *)
FixCheck(c) ==
    /\ c # "node-modules-sync" /\ AtStep("mcp", c) /\ Done("mcp", TRUE)
    /\ \E ok \in IF c \in VersionChecks \cup {"keychain-access"} THEN {FALSE} ELSE BOOLEAN :
         /\ fixed' = IF ok THEN fixed \cup {c} ELSE fixed
         /\ env' = IF ok /\ c \in EnvironmentChecks THEN [env EXCEPT !["mcp"] = TRUE] ELSE env
         /\ machine' \in {machine} \cup
                          (IF ok /\ c \in MachineChecks THEN {machine \cup {c}} ELSE {})
         /\ ok /\ c \in MachineChecks \ {"xcode-cli-tools"} => c \in machine'
         /\ pods' = IF ok /\ c = "podfile-lock-sync" /\ modules.whole THEN batch ELSE pods
    /\ UNCHANGED <<userVars, locks, chosen, modules, batch, passed, failing, with, spoiled, runs,
                   latest, installs>>
fix == \E c \in Checks : Begin("mcp", <<c>>, "none")

PrepNext ==
    \/ bootSessionServices \/ cleanTool \/ fix
    \/ settlePackageManager \/ BootPreflight \/ AutoInstall \/ FixModules
    \/ \E c \in Checks : FixCheck(c)
    \/ \E p \in Processes : \/ installDependencies(p) \/ InstallationEnds(p) \/ removeNodeModules(p)
                            \/ removePods(p) \/ podInstall(p)
PrepSpec == PrepInit /\ [][PrepNext]_prepVars

-----------------------------------------------------------------------------
Idle(p) == steps[p] = <<>> /\ with[p] = "none"

(* A clean that said of every step that it went well, and that nothing     *)
(* overlapped, leaves dependencies that are whole and Pods installed from  *)
(* them: its order is one that does (buildAllSteps).                       *)
CleanLeavesWhole ==
    LET p == latest[1] IN
    latest[2] \in {"clean", "ultra-clean"} /\ Idle(p) /\ ~marred[p]
        => modules.whole /\ pods = batch

(* types.ts:14 says of the profile's packageManager "override auto-        *)
(* detection".                                                             *)
ChosenInstalls == \A i \in installs : i[1] \in {"none", i[2]}

(* rn-dev/fix-preflight says it fixes "a specific failing preflight check" *)
(* (tools.ts:623-624): one it says is fixed does not fail when a session   *)
(* boots after that.                                                       *)
FixedIsFixed == failing = {}
=============================================================================

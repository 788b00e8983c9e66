------------------------------- MODULE Watcher --------------------------------
(***************************************************************************)
(* FileWatcher of src/core/watcher.ts: changes are gathered, debounced,    *)
(* and run through a pipeline of on-save commands; the next save aborts    *)
(* the pipeline that is still running.  A file event may be reported by    *)
(* every file-system watch that is open, also by one that was forgotten.   *)
(* toggle() is called by no one, so the pipeline is always enabled.        *)
(***************************************************************************)
EXTENDS Naturals, Sequences, FiniteSets

CONSTANTS
    Files,          \* files of the project
    OnSave,         \* the enabled on-save actions, in order: the files their
                    \* glob matches, and haltOnFailure
    MaxPipelines,   \* bound on debounce timers that fire
    MaxWatches      \* bound on calls of start()

ASSUME OnSaveAssumption ==
    OnSave \in Seq([glob : SUBSET Files, halt : BOOLEAN])
ASSUME WatcherBounds == MaxPipelines \in Nat /\ MaxWatches \in Nat

VARIABLES
    running,      \* FileWatcher.running
    watches,      \* file-system watches that are open
    watch,        \* the one chokidarWatcher refers to; 0 is null
    pending,      \* pendingFiles
    timer,        \* a debounceTimer is set
    controller,   \* the pipeline of pipelineAbortController; 0 is null
    files,        \* what each pipeline was told has changed
    at,           \* the on-save action each pipeline is at
    aborted,      \* pipelines whose controller was aborted
    command,      \* the child of <<pipeline, action>>
    opened        \* history: watches opened so far

watchVars == <<running, watches, watch, opened>>
pipeVars == <<controller, files, at, aborted, command>>
watcherVars == <<watchVars, pending, timer, pipeVars>>

Pipelines == 1..MaxPipelines
Steps == DOMAIN OnSave
Done == Len(OnSave) + 1
Started == {p \in Pipelines : files[p] # {}}

WatcherTypeOK ==
    /\ running \in BOOLEAN /\ timer \in BOOLEAN
    /\ watches \subseteq 1..MaxWatches
    /\ watch \in 0..MaxWatches /\ opened \in 0..MaxWatches
    /\ pending \subseteq Files
    /\ controller \in 0..MaxPipelines
    /\ files \in [Pipelines -> SUBSET Files]
    /\ at \in [Pipelines -> 1..Done]
    /\ aborted \subseteq Pipelines
    /\ command \in [Pipelines \X Steps -> {"none", "alive", "signalled", "gone"}]

WatcherInit ==
    /\ running = FALSE /\ watches = {} /\ watch = 0 /\ opened = 0
    /\ pending = {} /\ timer = FALSE
    /\ controller = 0 /\ aborted = {}
    /\ files = [p \in Pipelines |-> {}]
    /\ at = [p \in Pipelines |-> Done]
    /\ command = [c \in Pipelines \X Steps |-> "none"]

-----------------------------------------------------------------------------
(* The first action at or behind i whose glob matches, or the end.         *)
Matching(fs, i) ==
    LET hits == {j \in i..Len(OnSave) : OnSave[j].glob \cap fs # {}}
    IN IF hits = {} THEN Done ELSE CHOOSE j \in hits : \A k \in hits : j <= k

Spawned(cmd, p, i) == IF i \in Steps THEN [cmd EXCEPT ![<<p, i>>] = "alive"] ELSE cmd

(* Mutant: the pipeline is told, its command is not.                       *)
AbortQuietly(cmd, p) == cmd

(* abort(): the running command gets SIGTERM and its action resolves, so   *)
(* that the pipeline ends at the next look at the signal, one microtask    *)
(* later.  Commands that were over are not signalled.                      *)
Abort(cmd, p) ==
    [c \in DOMAIN cmd |-> IF c[1] = p /\ cmd[c] = "alive" THEN "signalled" ELSE cmd[c]]
Halted(pos, p) == IF p \in Pipelines THEN [pos EXCEPT ![p] = Done] ELSE pos

AbortCurrent(cmd) == IF controller = 0 THEN cmd ELSE Abort(cmd, controller)

-----------------------------------------------------------------------------
StartWatching ==
    /\ opened < MaxWatches
    /\ opened' = opened + 1
    /\ watch' = opened' /\ watches' = watches \cup {opened'}
    /\ running' = TRUE
    /\ UNCHANGED <<pending, timer, pipeVars>>

(* stop() leaves the gathered files where they are.                        *)
StopWatching ==
    /\ timer' = FALSE
    /\ watches' = watches \ {watch} /\ watch' = 0
    /\ command' = AbortCurrent(command) /\ at' = Halted(at, controller)
    /\ aborted' = aborted \cup ({controller} \ {0})
    /\ running' = FALSE
    /\ UNCHANGED <<opened, pending, controller, files>>

FileChanges(f) ==
    /\ watches # {}
    /\ pending' = pending \cup {f}
    /\ timer' = TRUE
    /\ UNCHANGED <<watchVars, pipeVars>>

(* Mutant: a pipeline in progress is let go on, the files are dropped.     *)
DebounceBusy ==
    /\ timer /\ timer' = FALSE /\ pending' = {}
    /\ UNCHANGED <<watchVars, pipeVars>>

(* The timer fires: what was gathered goes to a pipeline of its own, which *)
(* runs up to the spawn of its first command.                              *)
Debounce ==
    \E p \in Pipelines \ Started :
        /\ timer /\ timer' = FALSE
        /\ p = Cardinality(Started) + 1
        /\ files' = [files EXCEPT ![p] = pending]
        /\ pending' = {}
        /\ controller' = p
        /\ aborted' = aborted \cup ({controller} \ {0})
        /\ at' = [Halted(at, controller) EXCEPT ![p] = Matching(pending, 1)]
        /\ command' = Spawned(AbortCurrent(command), p, Matching(pending, 1))
        /\ UNCHANGED watchVars

(* A command closes; unless it failed and halts the pipeline, the next one *)
(* that matches is spawned.                                                *)
CommandCloses(p, success) ==
    LET i == at[p]
        next == IF ~success /\ OnSave[i].halt THEN Done ELSE Matching(files[p], i + 1)
    IN /\ i \in Steps /\ command[<<p, i>>] = "alive"
       /\ at' = [at EXCEPT ![p] = next]
       /\ command' = Spawned([command EXCEPT ![<<p, i>>] = "gone"], p, next)
       /\ UNCHANGED <<watchVars, pending, timer, controller, files, aborted>>

(* A command that was signalled ends in its own time, if it does.          *)
SignalledEnds(p, i) ==
    /\ command[<<p, i>>] = "signalled"
    /\ command' = [command EXCEPT ![<<p, i>>] = "gone"]
    /\ UNCHANGED <<watchVars, pending, timer, controller, files, at, aborted>>

WatcherNext ==
    \/ StartWatching \/ StopWatching \/ Debounce
    \/ \E f \in Files : FileChanges(f)
    \/ \E p \in Pipelines, ok \in BOOLEAN : CommandCloses(p, ok)
    \/ \E p \in Pipelines, i \in Steps : SignalledEnds(p, i)

(* Timers fire; commands need not end, nobody must save or start.          *)
WatcherFairness == WF_watcherVars(Debounce)
WatcherSpec == WatcherInit /\ [][WatcherNext]_watcherVars /\ WatcherFairness

-----------------------------------------------------------------------------
(* Only the newest pipeline has a command that was not told to end: a save *)
(* during a run never leaves two unsignalled commands on the same files    *)
(* (watcher.ts:173-176, 282-297), whatever the commands themselves do.     *)
OnlyNewestRuns ==
    \A c \in Pipelines \X Steps :
        command[c] = "alive" => c[1] = controller /\ c[1] \notin aborted /\ at[c[1]] = c[2]

(* A file whose change set the timer is handed to a pipeline,             *)
(* unless the watcher is stopped first (watcher.ts:157-187).               *)
EveryChangeIsRun ==
    \A f \in Files : f \in pending /\ timer
        ~> \/ ~running \/ Cardinality(Started) = MaxPipelines
           \/ \E p \in Started : p = controller /\ f \in files[p]
==============================================================================

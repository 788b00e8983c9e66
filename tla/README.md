# rn-dev-cli in TLA+

A verification project for rn-dev-cli: models of the processes that own a React
Native development session, of what they keep on disk, and of the front-ends
that share them, checked with TLC on small instances and, where it matters
most, proved with TLAPS for all of them.  Paths are those of the repository.

## The system

`rn-dev` runs one *daemon* per worktree.  The daemon owns the *session* of that
worktree: the Metro bundler, the devtools proxy, the file watcher, the builder
and the module host with its subprocesses.  The TUI, the Electron app and the
MCP server are *clients*: they find or spawn the daemon, subscribe to it over a
Unix socket, and hold the session alive by the mere fact of being attached.

| component | source | state it keeps | operations | hard behaviour | modules |
|---|---|---|---|---|---|
| session supervisor | `src/daemon/supervisor.ts` | status, boot epoch, active profile, attached connections, wired services, boot in flight | attach, release, start, stop, the boot behind them | every await lets other calls in; a boot may be overtaken by a stop | SessionLadder, DaemonSupervisor |
| daemon server | `src/daemon/index.ts`, `subscribe-registry.ts`, `src/core/ipc.ts` | sockets, push listeners, gate entries, onClose listeners, shutdown flag | events/subscribe, session/start, session/stop, daemon/shutdown, socket close, signals | sockets close at any point; a shutdown meets a boot or a teardown | DaemonServer |
| daemon spawn and lock | `src/daemon/spawn.ts`, `module-host/lockfile.ts` | `.rn-dev/pid`, `.rn-dev/sock` | connectToDaemon, lock, bind, the shutdown's unlinks | several processes, two files, no transaction; crashes | DaemonSpawn |
| client session | `src/app/client/session.ts` | gate, watchdog, closed flag, socket | connect, disconnect, release, stop, socket events | events overtake the confirmation; the daemon hangs or dies | ClientSession |
| session boot, Metro | `src/core/session/boot.ts`, `src/core/metro.ts`, `metro-logs/` | services acquired so far, instances, ring of lines | boot, dispose, start, stop, exit, probe, append, list, clear | strangers on the port; an exception half-way; late exits; cursors across evictions | SessionBoot, MetroLogs |
| devtools | `src/core/devtools*` | proxies, states, capture ring, body queue | start, stop, restart, select, capture, poll | requests without a lock; limits of ring and queue | DevTools, CaptureRing |
| watcher, builder | `watcher.ts`, `builder.ts`, `client-rpcs.ts` | pending files, pipeline; the build's process | change, debounce, abort; build, done | an aborted run overlaps the next; hooks around a build | Watcher, BuildRequests |
| module host | `src/core/module-host/*` | managed modules, consumers, timers, crash windows | acquire, release, inspect, crash, respawn, shutdown | awaits between the map's get and set; timers against calls | ModuleHost, ModuleConfig |
| module registry, marketplace | `src/app/modules-ipc.ts`, `src/modules/*` | directories, manifests, flags, config file | enable, disable, install, uninstall, rescan, config-set; fetch of the curated list, consent, order | each step may fail; two requests, another process; a list fetched twice through a shared cache | ModuleCatalog, ModuleConfig, Marketplace |
| host capabilities | `module-host/capabilities.ts`, `host-rpc.ts`, `sender-bindings.ts`, `module-host-adapter.ts`, the SDK | bindings per connection, permissions | resolve, host/call, bind | two checks in two processes; connections that change | HostCalls |
| project hooks | `src/core/hooks/*`, `hook-orphan-sweep.ts`, `packages/config` | registrations, fires in flight, sentinels | load, register, fire, time out, kill, sweep | kill ladder, orphans after a crash, files edited meanwhile | HookRunner, HookCatalog |
| audit log | `src/core/audit-log.ts` | HMAC chain, cached tail, key file | append, rotate, verify | several processes, stale cache, crashes | AuditLog |
| daemon registry | `src/daemon/registry.ts` | `~/.rn-dev/registry.json`, its lock | register, unregister, list | a lock file with a time budget | RegistryFile |
| preflight, clean, install | `preflight.ts`, `clean.ts`, `boot.ts` | `node_modules`, Pods, files of the worktree | check, fix, clean, install | two processes without a lock; steps that fail or come in another order | Preparation |
| profiles and wizards | `profile.ts`, `src/ui/wizard`, `renderer/views/Wizard.tsx`, `profile-guard.ts` | profile files, the wizard's draft | next, back, choose, save, set default, launch | answers for a choice that has changed since | ProfileSetup |
| MCP server | `src/mcp/*` | offered tools | list, refresh, call | a fetch overtaken by an event | McpServer |
| Electron main, panels | `electron/*` | tabs, one daemon session, panels | open, close, activate, disconnect | a tab closed while it boots; a session that is lost and replaced | ElectronMain, PanelBridge |
| renderer | `renderer/*` | tabs, log lines, panels, forms | mount, click, reload | snapshots race the events they repeat | RendererTabs, PanelBridge, ModuleConfig |
| CLI, TUI screens, first-party modules | `src/cli`, `src/ui`, `modules/*` | presentation | | | |

What makes each modelled component correct is stated at the end of its module;
the hazards found while reading, at their lines, are in PROJECT.json.

How they meet: a client finds or spawns the daemon (DaemonSpawn), its socket is
served by the server (DaemonServer), which drives the supervisor
(DaemonSupervisor), which boots a session (SessionBoot with Preparation and
HookCatalog) and tears it down; the client sees of it what the ladder says
(SessionLadder, ClientSession).  The session's services then run side by side
and share no state with each other but the file system and the module host.

## The modules

    SessionLadder      what everybody is promised of a session
      ^ refines
    DaemonSupervisor   the supervisor            DaemonSupervisor_proofs
      ^ extends                                    ^ extends
    DaemonServer       the process around it     DaemonServer_proofs

    DaemonSpawn        how a worktree gets exactly one such process
    ClientSession      a client of it; the daemon it talks to is SessionLadder
                                                 both: Connecting_proofs

    the session        SessionBoot  DevTools  HookCatalog          Boot_proofs
    its services       Watcher  BuildRequests  MetroLogs  CaptureRing
                                                                   Services_proofs
    ModuleService      what the users of a module are promised
      ^ refines
    its subprocesses   ModuleHost  HookRunner                      Subprocesses_proofs
    EvidenceLog        what the readers of the audit log are promised
      ^ refines
    on disk            AuditLog  RegistryFile  ModuleCatalog  Preparation
                                                                   Stores_proofs
    front-ends         McpServer  ElectronMain  PanelBridge  HostCalls  ModuleConfig
                       ProfileSetup  Marketplace  RendererTabs     Frontends_proofs

**SessionLadder** is the abstract specification of a session: one status on the ladder
stopped, starting, running, stopping, and one fact behind it, whether services
exist.  Both the supervisor (which implements it) and the client's model (which
composes it with a socket) speak of the same ladder.

**DaemonSupervisor** has one action per stretch of code between two awaits.
`start()` and the boot behind it are `BeginBoot` and then one of `BootReady`,
`BootFail`, `BootOvertaken`/`BootDiscarded`; `stop()` is `BeginStop`,
`StopJoined`, `StopDisposed`; `attach()` on a stopped session is `AttachFirst`
and, one microtask later, `AttachResume`.  Nothing else is served in that
microtask except what the same chunk of the same socket still holds: the
constant `Pipelined` says whether a client writes such chunks.  The clients of
this repository await every reply, so the runs have it FALSE, and the theorems
say which results need it.  `bare` and `asked` are history variables.

**DaemonServer** extends it with sockets: each supervisor action becomes what a
handler, a socket event or the shutdown does.  Only events/subscribe attaches,
only a closing socket releases.  `shutdownPc` follows `shutdown()`; `hurried` and
`late` are history variables that name the two ways in which the exit leaves
services behind (a teardown it did not wait for, a session begun behind it).

**DaemonSpawn** models processes and the two files they share; a step is one
file-system call, one request or one signal.  Daemons crash at any point.  A server
that stops removes its path twice, `CloseServer` and up to half a second later
`ServerClosed`; in between, a client may have cleaned up behind it and spawned a successor.
`robbed` names the daemons that lost their socket to the end of another one, `hurried` says
whether a client has taken the lock of a daemon whose server was closing.

**ClientSession** is `connectToDaemonSession()` and its session object against a
daemon that other clients drive as well.  Two FIFO queues are the socket.  A
continuation is a microtask: the lines of the chunk being read may come before
it, nothing else.

**ModuleHost** is one key of the module host's map and every subprocess that is
spawned for it.  A subprocess, its ModuleInstance and its InternalEntry have
one number, because they are made together; `origin` says who had it spawned, a
request or the respawn of an earlier number.  `acquire()` is `AcquireExisting`
or `AcquireSpawns` and, after the await, `Acquired`; `release()` is one of the
`Release...` actions, `stopEntry()` is `StopEntry` up to its await and `StopEnds`
or `GraceEnds` after it.  The two ends differ in what the code waits for: the
exit of a living child lets all waiting stops go on at once, a child that is
dead already makes each wait its full second.  `proc = "exited"` is a child that
answered the handshake and died before anybody listened to its exit: Node may
report the exit before the last output.  `overlaps` is a history variable that
names the five overlaps after which the manager may lose a subprocess; the run
shows that without them it loses none, and each of the five was checked to lose
one alone.

**ModuleService** is the abstract specification of a key: one subprocess in service,
who is counted to use it, whether it runs, and why it is being taken out of service.
It is replaced only when it is down and not being taken out, and taken out only because
nobody uses it or because somebody asked (restart, disable, the daemon's end).  It says
too what a user is *not* promised: who joins a module that is being taken out of service
loses it with the others.  `ImplementsService` maps the entry in the map, its consumers
and its stops to it, and asks of each step that adds no overlap that it be a step of
ModuleService or none.

**HookRunner** is `HookManager.fire()`, the dispatcher, the subprocess runner and
the sweep.  The records a child writes are read in any number and at any time,
even after its exit is known, as pipes allow; `finish()` is `Finish`, and every
action that calls it in the code does so here.  The daemon dies at any point,
also between a spawn and the end of the sentinel's write; the sweep that follows
kills what has a whole sentinel.  Outcomes that no property tells apart are one
value, "failed".

**SessionBoot** is `bootSessionServices()`, its `dispose()` and MetroManager:
which process is on the Metro port, whom the boot signals, what a boot that
throws leaves behind, and whose exit ends whose instance.  The lookup of the port's
holder, of its cwd, and the kill are separate steps, with strangers that come and
go in between.  **Preparation** is what comes before: preflight's checks and fixes,
the install and the clean modes, each by what it reads and changes, run by two
processes that have no lock between them.  **HookCatalog** follows a hook from
rn-dev.config to its fire, with a user who edits the config and the script.  A script is an
inode and what it says; who saves it in place keeps the first, which is all that
`checkFingerprint()` compares.

**Watcher** is the debounce, the pipeline of on-save commands and its abort.
**BuildRequests** is builder/build with the hooks around it and the Builder of
each session.  **MetroLogs** is the ring of Metro's lines and a reader with a
cursor.  **DevTools** is DevToolsManager and its proxies: the states that
overlapping start, stop, restart and select make, and which proxy each refers to.
**CaptureRing** is what the taps capture: the ring, the queue of bodies, the
deltas a viewer applies and the cursor of an agent that polls, with or without a range of
statuses and a limit.  The cursor that comes with a page is that of the ring, whatever the
page leaves out.

**ModuleConfig** is the configuration of a module: the file, the subprocess that
is handed it at initialize and told of changes, the form that shows it.
**HostCalls** is how a panel and a subprocess reach a capability, with the checks
on the way, over connections that are replaced.  **ModuleCatalog** is the
directory of third-party modules and the registry of manifests under the requests
that change either, a step per stretch between two awaits, with their rollbacks.  A module
per worktree may be registered under two units; `disable()` takes away one of them at a
time, and of the second it tells nobody, because the flag is there by then
(`modules-ipc.ts:418-440`).  `DisabledTwice` names these modules, and ListIsFresh excepts
them: the proof needed the exception before a run met it.

**AuditLog** is several writers of one hash-chained file, with the lock file, the rotation,
the cached tail and crashes at any step; the hash of an entry is its number.
**EvidenceLog** is its abstract specification: entries, each linked to the one before, that
are added at one end and forgotten at the other.  `ImplementsEvidence` reads them off the
files and asks of each step, as long as nothing has happened that breaks the chain, that it
be such an addition, such a forgetting, or none: a rotation's rename, which moves a whole
file, changes nothing that can be read.  **RegistryFile** is the locked read-modify-write of
the daemons' rows; `mishaps` is a history variable that names the ways in which a row is
lost.

**McpServer** is the list of offered tools against the daemon's events, and what each tool
asks of the daemon.  A fetch ends by its reply, by the end of the daemon or after five
seconds; its reply is then one of the `orphans` that are dropped when they come.  Requests
and replies keep their order on the socket, so that the oldest are given up first.
**ElectronMain** is the tabs, the one daemon session they share and the
client its handlers hold. **PanelBridge** is the panels, mounted and unmounted faster than
the daemon answers; of the requests that wait for a client only the activations are told
apart, the deactivations are one flag, `hiding`. **RendererTabs** is the page's tabs and log
lines against the main process; a question carries the number of the page that asks, because
an answer to a page that was reloaded is lost.  Beside the lines of the main process's log a
tab has *notices*, which only the page has: what is said of a lost daemon, warnings and
shortcuts.  A snapshot of the log takes their place. **ProfileSetup** is both wizards step by
step, the store of profiles, a launch, and the daemon's guard. **Marketplace** is one entry
of the curated list from the network, through the pin and the cache that all processes of
the user share, to the renderer's shelves, the consent dialog and the order it gives; agents
and the command line order too. An installation is told in the steps the property needs;
ModuleCatalog has all of them.

The type predicates (`...TypeOK`) say what shape the state has.  They are conjuncts of the
inductive invariants that are proved, whole or, where the argument does not need a variable,
in part, and not among the runs' properties.

Six MC modules put instances of components side by side (MCConnecting,
MCSubprocesses, MCServices, MCBoot, MCStores, MCFrontends).  Their specifications
choose one component in the initial state and let it run; the others stay as they
begin.  That is sound because these components share no state, and it is no
composition: interaction is modelled inside a module, or by EXTENDS as in
DaemonServer, or by INSTANCE as in ClientSession.

## Runs

| run | bounds | shows |
|---|---|---|
| `supervisor` | 3 connections, 2 profiles, 6 sessions | the safety properties, and `ImplementsLadder` with its fairness |
| `server` | 3 sockets, 1 profile, 3 sessions | who is attached can be released; what the exit leaves; abandoned sessions stop |
| `connecting` | 2 clients one at a time, 4 daemons (1 of another version); 2 sessions, 2 log lines | one daemon per worktree, found by its files, until the end of a predecessor takes its socket; the client's gate, its one notification, its watchdog; both calls end |
| `subprocesses` | 2 requests, 3 subprocesses of one module; 3 fires of 5 registrations, cap 2 | who loses a subprocess, that holders count, and that a key is one service to its users; hard hooks, the counter, sentinels, the sweep, termination |
| `services` | 2 files, 2 on-save actions, 3 pipelines, 2 watches; 3 builds over 2 sessions; ring of 3 with pages of 2, 5 lines; capture ring of 1, 1 body at a time and 1 queued, 2 requests, 2 taps, and a ring of 2 with one tap for whoever pages | one pipeline goes on; builds kept apart; readers miss nothing that is kept; every change is run; every body arrives or ends |
| `boot` | 2 boots, 2 ports; 2 devtools calls, 3 states, 3 proxies; 1 edit, 2 loads, 1 death | whom the boot signals, what it leaves, whose proxies are whose, which hooks run and from which file, that what ended stays ended |
| `stores` | 2 writers, 5 entries, rotation at 2, 2 kept, 1 crash; 3 daemons of 2 worktrees; 3 modules, 2 requests, 1 outside step; 3 checks, 2 runs | the log is evidence and grows as such, rows are kept, the catalogue agrees, a clean leaves the worktree whole |
| `frontends` | 2 plugins, 2 events, 1 tool call; 3 openings, 1 crash; 2 panels, 4 switches, 2 bridges; 1 wizard, 2 asks; 2 tabs, 2 lines, 2 clicks or 1 click and 1 notice, 1 reload; 2 host calls, 2 connections, 1 change; 2 settings, 1 save, 2 starts; 2 documents, 1 order, 1 order of others | offers and shelves follow events, handlers hold live clients, panels are as believed, profiles fit, lines are shown once, modules run with their configuration, what is installed was agreed to |
| `two_clients_spawn` | as `connecting`, clients and starts overlapping | finding: two daemons own the worktree |
| `crashed_call` | as `subprocesses`, one request | finding: a module that crashes during a call leaves a subprocess outside the map |
| `timed_out_hook` | one fire of one script | finding: a script that ignores SIGTERM outlives its timeout |
| `closed_tab` | 2 openings | finding: a tab closed while it boots leaves its session running |

Why the bounds are enough: three connections give a first attacher, a joiner and
one that comes while the others go; two profiles give agreement and mismatch;
an epoch is consumed by each start and each stop, so six of them (the supervisor
run) contain a boot overtaken by a stop, followed by another session that is
overtaken again.  Four daemon processes are an old one, two successive ones and
one that starts in between.  Two sessions in the client's half are its own and
one that replaces it.

Two requests on a module are one that holds it while the other restarts or stops
it, and three subprocesses are the first, its successor and one more that is
acquired behind both (this was also run once with four: 1.4 million states, the
same result).  Two of three fires fill the cap and the third is refused.  Three
pipelines are one that runs, one that aborts it and one that aborts that one;
three builds over two sessions contain a refusal, and a build that outlives its
session.  A ring of three with pages of two and five lines evicts between two
polls; a capture ring of one, a queue of one and one body at a time are all at
their limit with two requests.  Of the three instances of the capture ring one is read by
a viewer of the deltas, one by an agent who polls every row, and one, with a ring that can
hold what a limit leaves out, by an agent who pages (`Wide`); the readers share no variable.
Five entries with rotation at two rotate twice,
once more than a cached tail remembers, and the second time drops nothing that
`Keep` should have kept.  Three daemons of two worktrees are two that follow each
other in one worktree and a neighbour.

Two documents of the marketplace are the one the dialog showed and one published
behind it that declares more; the first is the one that was published, a pin names
it or is missing, and a module that is installed at the start was acknowledged and
has no pin.  Of Electron's three openings the first is the window's load, under the
profile that the others may share or not, the second a reload or a tab, the third a
tab; `DepsAreLive`, which this run checks of them, is proved for all openings.

Three bounds of MCFrontends keep the run short: one tool is called of the MCP server, since
a call changes nothing that the list depends on but whether there is a session; a notice
takes the place of the second click; and a page has one notice.  A tab's buffer of 1000 lines
(`App.tsx`) is never full.

Fairness is assumed only of what the event loop runs by itself: continuations
of settled promises, timers, handlers of arrived requests, processes that are
scheduled.

- Supervisor and server: boots and dispose() settle (in the client's half no boot is
  obliged to end, because the watchdog exists for boots that do not).
- `SpawnFairness`: processes that exist are scheduled, deadlines expire.
- `SessionFairness`: the client's continuations and timers, and what is on its way.
- `RunnerFairness`: the daemon's steps and timers; a script need not exit, a
  function hook need not settle.
- `WatcherFairness`: the debounce timer fires.  `BuildFairness`: hooks around a build
  settle (their runner has a timeout) and a build's process exits, because nothing
  ends a build but its compiler; the runs' properties of builds do not need it.
- `CaptureFairness`: a request for a body is answered, with or without a body.

Nobody is obliged to call anything.  Runs have CHECK_DEADLOCK FALSE because all of
these systems may really come to rest: a daemon exits, a client is done, a bound on
sessions is used up.

`session.ts:6-11` draws the ladder without an edge from starting to stopping;
`stop()` and the last `release()` take that edge while a boot is under way
(`supervisor.ts:360-373`), and SessionLadder has it.

## Where code and words part

The runs that expect a violation are the four findings of PROJECT.json.  Beside them
the modules state what comments and descriptions of the repository say and the code
does not do; each of these was checked by hand, by putting it in the place of the
properties of the configuration that is named, and TLC violates each.

| property | module, configuration | the words |
|---|---|---|
| LateUnlinkIsIdle | DaemonSpawn, MCConnecting | "the unlink + null assignment idempotent" (ipc.ts:173): the callback or the timer of `server.stop()` removes a successor's socket |
| OneWriterInside | AuditLog, MCStores | "Only a dead holder gets reclaimed" (audit-log.ts:604-605): a lock without its pid yet is reclaimed too |
| SameSizeSameTail | AuditLog, MCStores | "Matching size: nobody else wrote since we did" (audit-log.ts:203-208) |
| NextBootAddsBack | RegistryFile, MCStores | a missing row "the next boot's sweep adds back" (registry.ts:29-32, 196-199): a boot writes its own row only |
| FlipTakesEffect | ModuleCatalog, MCStores | "Re-run the loader so the flag flip takes effect" (modules-ipc.ts:386) |
| UninstallTearsDown | ModuleCatalog, MCStores | "Uninstall tears down the subprocess and removes the install directory" (installer.ts:20-21) |
| ChosenInstalls | Preparation, MCStores | the profile's packageManager is an "override" of the detection (types.ts:14) |
| FixedIsFixed | Preparation, MCStores | fix-preflight fixes "a specific failing preflight check" (tools.ts:623-624) |
| PriorCursorIsDropped | CaptureRing, MCServices | "cursor belongs to a prior session; treat as cursorDropped" (devtools.ts:403-404) |
| FinishedIsFetched | CaptureRing, MCServices | "on completion we enqueue a body fetch" (network-tap.ts:12): after a target swap the fetcher stays disposed of |
| PagingSkipsNothing | CaptureRing, MCServices | a page may leave out rows that its cursor passes (devtools.ts:432-440), which the other ring's code calls "silently dropping middle entries from agent pagination" (buffer.ts:186-190) |
| NoMiddleLoss | MetroLogs, MCServices | a reader who pages forward does not lose middle matches (buffer.ts:209-213, 240-244) |
| PreemptedByOthers | DevTools, MCBoot | "preempted" means somebody else holds the upstream (devtools.ts:81-87) |
| OneResponder | SessionBoot, MCBoot | the modules IPC is the single fan-out point (boot.ts:427-429): a failed boot leaves its own behind |
| TyposAreCaught | HookCatalog, MCBoot with `Typos = {"build/before"}`, `ModuleSlots = {}` | what hooks-config-validate says of itself (tools-hooks.ts:351) |
| NoEditedScriptRuns | HookCatalog, MCBoot | "returns ok=false when the file is replaced after registration" (path-resolver.test.ts:119): not when it is saved in place |
| OffersAreCurrent | McpServer, MCFrontends | "When modules change state we refresh the tool snapshot" (mcp/server.ts:203-206): not on events before the transport is connected |
| OldSnapshotIsKept | McpServer, MCFrontends | "If the refetch fails (daemon flaky), keep the old snapshot" (mcp/server.ts:215): a fetch that fails gives the empty list (module-proxy.ts:37-39), which is installed |
| StartSessionBoots | McpServer, MCFrontends | start-session "re-issues session/start ... when stopped" (mcp/tools.ts:218): the daemon refuses it on that socket |
| CallsAreServed | McpServer, MCFrontends | tools.ts:190-198: some tools ask for actions the daemon does not have |
| UmbrellaKeepsWorking | HostCalls, MCFrontends | the alias table keeps v1 manifests working (capabilities.ts): not through the SDK's own check |
| NothingMissed | ModuleConfig, MCFrontends | "cold-start modules will pick up the new config via the next `initialize` handshake" (manager.ts:342-343) |
| OnePanelAttached | PanelBridge, MCFrontends | "Only one panel attached to the window's contentView at a time" (panel-bridge.ts:14-16) |
| UnmountedIsHidden | PanelBridge, MCFrontends | "unmount -> invoke('modules:deactivate-panel', ...)" (ModulePanel.tsx:18) |
| SetDefaultLeavesOne | ProfileSetup, MCFrontends | setDefault leaves one default for a worktree (profile.ts) |

Six more expectations that no line of the repository words fail in the same way, all
under MCFrontends: RefusedIsUnwritten and FormCatchesUp (ModuleConfig),
LaunchShowsSomething (ProfileSetup), ActiveIsShown and ActivesAgree (RendererTabs), and
NoticesStay (RendererTabs, as a PROPERTY): the snapshot of a tab's log, or a reload, takes
its notices away.  PendingEnds (Marketplace, MCFrontends) is a seventh: an order that is
answered after `send()` has given up leaves its button pending.
A weakness of the connection was checked by hand in the same way: MCConnecting.cfg
with `Filtered = TRUE` violates OnlySilenceStalls: without session/log the watchdog is due
on a boot that makes progress.  Under `ThrowingSafety`, where the
listeners of the user may throw, LossIsToldOnce fails: the adapters are told of a loss
that did not happen.

## Proofs

Each proof module proves its theorems for every value of the constants under the named
assumptions of the modules it extends. What else is assumed stands in the theorem. The
assumptions are that bounds are numbers, that constants are in the sets they are chosen from
(hooks have slots, a daemon has a worktree), that there are finitely many fires, and that
values are told apart: a request is neither an instance nor a timer in ModuleHost, and no
writer of the log is called "nobody". Each inductive invariant was first checked by TLC on
the run's instance; it is the conjunction of types, the property and the named parts. The
header of each module tells its arguments at greater length.

All invariants and action properties of the passing runs are theorems.

`DaemonSupervisor_proofs`: `TypeCorrect`, `NoServicesOrphaned`, `BootsExclusive`,
`RefcountKept`; `NobodyMisled` and `NoStaleEntry` (attached connections have the profile
they asked for, nobody is attached to a session that is down), assuming `~Pipelined`;
`SafetyImplementsLadder`: every step is a step of SessionLadder or a stutter.  The
inductive invariant `IInv` ties the status to where the boot and the teardown are:
while the session starts, the boot in flight is the current epoch and the only one;
while it stops, the boot in flight is overtaken and is the only one that can still
produce services; a stopped session has no boot at all.  The properties alone are not
inductive, because they do not say that an overtaken boot is the one that stop() joins.

`DaemonServer_proofs`: `ServerImplementsSupervisor`, by which every theorem of the
supervisor's safety holds behind the sockets, and with it the ladder that clients rely on
(`ServerImplementsLadder`); `SocketsStayCovered` and `NothingLeftBehind`.  Its invariant
adds to the supervisor's how the sockets' entries and listeners, and the stage of the
shutdown, relate to the session.

`Connecting_proofs`, DaemonSpawn: `OneOwner` and `ServerIsFound`, assuming that calls and
starts do not overlap and that no deadline expires on a daemon that is only slow
(`Undisturbed`).  Both assumptions are needed: TLC finds two daemons without either.  As long
as no daemon was robbed of its socket (LateUnlinkIsIdle) there is one daemon and the files lead
to it, and one is robbed only after a client has removed the lock of a daemon whose server
was closing.
Owners are never compared with each other: each has its pid in the one pid file, and what
could take it away is done only where nobody owns the worktree.  ClientSession:
`SessionTypes`, `HandedOutIsRunning`, `LossToldOnce`, and `SilenceStalls` where no kind of
event is filtered.  The order of the lines in the pipe carries the argument
(`OwnSession`): while the gate waits, no later session is said to run before the end of
the joined one is said.

`Boot_proofs`, SessionBoot: `OwnIsSignalled` (from the lookup to the last kill the holder
of the port is the process whose cwd was compared, or the port has changed hands),
`LeftoversNamed` and the action property `EndedMetroStays`.  DevTools: `ProxiesTold`.
Its invariant looks at the one call that goes on, and apart from that at what calls
leave behind also when they overlap.  HookCatalog: `RegisteredRuns`: the file that runs is
the one that was registered, and reads as it did unless it was written since.

`Services_proofs`: `NewestRunsAlone` is not inductive alone, since the pipeline that the
debounce begins must be a new one: a timer that is set has something gathered.
`BuildsKeptApart` follows from the fact that the process a Builder refers to is that of
the one request that is being built in its session.  `ReadersMiss` is about both rings:
they are numbered without a gap, and a cursor is behind every line that was not read and
is still kept; the last line of a page is the greatest number in it.  Of the capture ring
it speaks for whoever asks without a limit and a range of statuses; for others it is not so
(PagingSkipsNothing).

`Subprocesses_proofs`, HookRunner: `HardHooksStop` and `AccountsKept`, for finitely many
fires.  A fire does not pass over a registration before it has an outcome, an outcome is
final, and a sentinel is that of a subprocess.  ModuleHost: `HostTypes`, `ModulesKept`
and the action property `StopsAreNotCrashes`.  The entry in the map is the tip of a
line of respawns; the tip counts who holds any instance of the line, also while the map
has another entry or none (`Counted`), which is what a respawn hands over; and without
one of the five overlaps the map has whatever runs (`Apart`).  `HostIsService` and
`ApartIsService` are the refinement of ModuleService: until two things overlap each step is
one of the service's, or none.  They need `Apart` throughout (what ends is the entry, what
comes replaces nothing or what has crashed) and `Counted` for the idle timer, which takes
away only what nobody uses.  `ModulesServed` is what the run checks.

`Stores_proofs`: `RowsKept` without a word of the lock file: all that it is for is that
writers do not overlap, its weaknesses are the `mishaps` the property names, and what
else the rows need is the worktree's own lock.  `CleansLeaveWhole`: what an undisturbed
clean has not done is still ahead of it in the order of its program.  `ModulesAgree` is
an argument of ownership: a module that is clean is worked on by one request at a time,
so what a request knew of it when it began is so at each of its later steps.
`LogStaysEvidence` says of each file what a verifier will see, and of the writer inside
the lock that it knows what its entry is to be linked to; links go over generations that
are empty, which is where a rotation is half-way.  `LogGrowsAtItsEnd` and
`SoundLogIsEvidence` are the refinement of EvidenceLog, `EvidenceStays` is what the run
checks, and `SoundLogIsUnbroken` is what a reader has of it: from the oldest entry in the
files to the last one written none is missing.  Beside what a verifier sees they need that
the files are in order (`OrderInv`): numbers ascend within a file and from an older one to
a newer, and the last entry is in one of them, so that the entry which the writer inside
knows is the last (`TailIsLast`), and a rotation, which drops the oldest file, never drops it.

`Frontends_proofs`: `HeldIsLive`, although only the loss of the session that `noticing`
names clears what is held: a crash drops every socket there is, so that no new one is
opened beside a dropped one.  `RunningIsCurrent`: changes are sent in their order.
`ListsFollow`, of the tools on offer and of the shelves: as long as what is shown is
older than the last event, an answer that is younger is on its way, or its question is,
and nothing older comes after it.  Of the tools' answers it counts those still to come
against the requests that were given up: they are the oldest, so that what is dropped is
never the answer to the last event, unless that one was given up too, and then the list is
empty.  `ConsentKept`: what was agreed to and what is checked
are of one document.  `ProfilesStayFit`.  `BeliefsHold`, of panels and of bound modules:
the last that the renderer asks is to show what it has mounted, and the table of bound
modules is cleared with the connection it is about.  `LinesShownOnce`, of the page's tabs,
which show each line of the log once among the notices: of the messages on their way, the
last that speaks of an instance decides whether the page will show it (`TabsFollow`), and
the last that replaces its log decides from which line on those behind it follow
(`LogsFollow`): a snapshot is the log as it was when the main process answered, and every
line since then is behind it in the channel.  Two of these theorems assume two
specifications at once: their property speaks of two components that share no state.

Some of the modules compute with functions that are defined by recursion, and some steps
need the least or the greatest of a set of numbers.  No induction theorem with an
operator as its parameter is used; what is needed comes from the well-foundedness of <
on the natural numbers (`NatLessThanWellFounded`, `WFMin`: a nonempty set of them has a
least element).

The proofs changed the models where they could not be reasoned about: a page of
MetroLogs, a capture ring and the table of ModuleCatalog are sets and functions, where
they were sequences filtered element by element, `Save` of ProfileSetup is a function
by its domain, the requests that wait in PanelBridge are kept apart as above, and the page
of RendererTabs has its log lines as a function of the instance, where it folded both
channels over a sequence of pairs.

Model-checked only:

- Liveness (the prover has no ENABLED): UnwantedComesDown, CallsEnd, SubprocessesSettle,
  EveryChangeIsRun, BodiesArrive, and the fairness in `ImplementsLadder`, whose safety is
  proved.

## What is left

1. The supervisor composed with SessionBoot, so that the leftovers of a failed boot meet
   the next session's.
2. The sweep of modules, which needs the lock files of global modules, and the
   supervisor's window of crashes.

## Not modelled

- Presentation: the TUI's screens, the CLI's commands, menus and settings of the desktop
  application, the wording of messages and the formatting of results.
- The first-party modules, which adapt tools to host capabilities and keep no state of
  their own.
- The framing of lines on sockets, the kinds filter of subscriptions and the RPCs that
  only read; the forwarding of CDP messages through the proxy.
- The parsing of compiler output, the artifact cache, the detection of tooling and the
  validation of the curated list's entries and URLs: functions of external input.

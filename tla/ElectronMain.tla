------------------------------ MODULE ElectronMain -----------------------------
(***************************************************************************)
(* Electron's main process: the tabs of electron/ipc/instance.ts and       *)
(* services.ts, the one daemon session state.daemonSession holds for all   *)
(* of them, and the client its modules handlers have been given by the     *)
(* service bus (electron/ipc/index.ts).  The daemon is DaemonSupervisor    *)
(* reduced to its status, with Electron its only client.                   *)
(***************************************************************************)
EXTENDS Naturals, Sequences, FiniteSets

CONSTANTS
    TabProfiles,   \* names of the profiles on disk
    MaxOpens,      \* bound on loads of the window and instances:create calls
    MaxDeaths      \* bound on crashes of the daemon

ASSUME ElectronAssumption == MaxOpens \in Nat \ {0} /\ MaxDeaths \in Nat

VARIABLES
    kind,      \* what each opening is: "load" of the window or "create"
    phase,     \* how far it is
    profile,   \* its profile
    port,      \* its port, which is the id of its instance
    tabs,      \* ids of the instances map, in the order of insertion
    active,    \* state.activeInstanceId, 0 for null
    held,      \* state.daemonSession: the opening that attached it, or 0
    noticing,  \* disconnectLoggedFor, or 0
    deps,      \* whose client the modules handlers hold, or 0
    socket,    \* the subscribe socket of each opening's session
    outcome,   \* what its boot has come to
    daemon,    \* status of the daemon's session
    runs,      \* its profile
    stops,     \* session/stop requests under way
    deaths     \* crashes so far

openings == <<kind, phase, profile, port>>
tabVars == <<tabs, active>>
holding == <<held, noticing, deps>>
wires == <<socket, outcome>>
sessionOfDaemon == <<daemon, runs, stops, deaths>>
electronVars == <<openings, tabVars, holding, wires, sessionOfDaemon>>

Opens == 1..MaxOpens
Waiting == {o \in Opens : socket[o] = "waiting" /\ outcome[o] = "none"}
SetOf(s) == {s[i] : i \in DOMAIN s}
First(s) == IF s = <<>> THEN 0 ELSE Head(s)
findFreePort == CHOOSE i \in Opens : i \notin SetOf(tabs) /\ \A j \in 1..(i - 1) : j \in SetOf(tabs)

ElectronTypeOK ==
    /\ kind \in [Opens -> {"load", "create"}]
    /\ phase \in [Opens -> {"none", "looking", "prompting", "attaching", "wired", "sharing",
                            "mismatch", "failed"}]
    /\ profile \in [Opens -> TabProfiles] /\ port \in [Opens -> 0..MaxOpens]
    /\ SetOf(tabs) \subseteq Opens /\ active \in {0} \cup SetOf(tabs)
    /\ {held, noticing, deps} \subseteq 0..MaxOpens
    /\ socket \in [Opens -> {"none", "waiting", "open", "dropped", "closed"}]
    /\ outcome \in [Opens -> {"none", "running", "failed"}]
    /\ daemon \in {"stopped", "starting", "running", "stopping"} /\ runs \in TabProfiles
    /\ stops \in 0..MaxOpens /\ deaths \in 0..MaxDeaths

ElectronInit ==
    /\ kind = [o \in Opens |-> "create"] /\ phase = [o \in Opens |-> "none"]
    /\ profile = [o \in Opens |-> CHOOSE p \in TabProfiles : TRUE]
    /\ port = [o \in Opens |-> 0]
    /\ tabs = <<>> /\ active = 0
    /\ held = 0 /\ noticing = 0 /\ deps = 0
    /\ socket = [o \in Opens |-> "none"] /\ outcome = [o \in Opens |-> "none"]
    /\ daemon = "stopped" /\ runs = profile[1] /\ stops = 0 /\ deaths = 0

-----------------------------------------------------------------------------
Moves(o, p) == phase' = [phase EXCEPT ![o] = p]

(* startRealServices(), each time the window has loaded, or a call of      *)
(* instances:create: the port is taken, then branch and devices are looked *)
(* up.  Openings are numbered in the order they begin.                     *)
Open(o, k, p) ==
    /\ phase[o] = "none" /\ \A q \in 1..(o - 1) : phase[q] # "none"
    /\ kind' = [kind EXCEPT ![o] = k] /\ profile' = [profile EXCEPT ![o] = p]
    /\ port' = [port EXCEPT ![o] = findFreePort] /\ Moves(o, "looking")
    /\ UNCHANGED <<tabVars, holding, wires, sessionOfDaemon>>

(* The instance is set, in the place of one with the same id if need be.   *)
Show(o) ==
    /\ phase[o] = "looking"
    /\ tabs' = IF port[o] \in SetOf(tabs) THEN tabs ELSE Append(tabs, port[o])
    /\ active' = port[o]
    /\ Moves(o, CASE kind[o] = "load" -> "prompting"
                  [] kind[o] = "create" /\ held = 0 -> "attaching"
                  [] kind[o] = "create" /\ held # 0 ->
                       IF profile[held] = profile[o] THEN "sharing" ELSE "mismatch")
    /\ UNCHANGED <<kind, profile, port, holding, wires, sessionOfDaemon>>

(* The prompts on package manager and code signing: answered or timed out. *)
SettlePrompts(o) ==
    /\ phase[o] = "prompting" /\ Moves(o, "attaching")
    /\ UNCHANGED <<kind, profile, port, tabVars, holding, wires, sessionOfDaemon>>

SetActive(i) ==
    /\ i \in SetOf(tabs) /\ active' = i
    /\ UNCHANGED <<openings, tabs, holding, wires, sessionOfDaemon>>

(* instances:remove.  Only the active tab's removal sends session/stop,    *)
(* and only while a session is held; its socket stays open.                *)
RemoveTab(i) ==
    /\ i \in SetOf(tabs)
    /\ tabs' = SelectSeq(tabs, LAMBDA j : j # i)
    /\ active' = IF active = i THEN First(tabs') ELSE active
    /\ IF held # 0 /\ active = i
         THEN /\ held' = 0
              /\ stops' = IF socket[held] = "open" THEN stops + 1 ELSE stops
         ELSE UNCHANGED <<held, stops>>
    /\ UNCHANGED <<openings, noticing, deps, wires, daemon, runs, deaths>>

-----------------------------------------------------------------------------
(* The daemon is given events/subscribe.  One that has crashed has to be   *)
(* spawned again first, by when Electron has seen its sockets close.       *)
Subscribe(o) ==
    /\ phase[o] = "attaching" /\ socket[o] = "none"
    /\ \A p \in Opens : socket[p] # "dropped"
    /\ IF daemon = "stopping" \/ (daemon # "stopped" /\ runs # profile[o])
         THEN /\ Moves(o, "failed") /\ socket' = [socket EXCEPT ![o] = "closed"]
              /\ UNCHANGED <<daemon, runs>>
         ELSE /\ socket' = [socket EXCEPT ![o] = "waiting"] /\ UNCHANGED phase
              /\ daemon' = IF daemon = "stopped" THEN "starting" ELSE daemon
              /\ runs' = profile[o]
    /\ UNCHANGED <<kind, profile, port, tabVars, holding, outcome, stops, deaths>>

SettlesWaiting(what) ==
    outcome' = [o \in Opens |-> IF o \in Waiting THEN what ELSE outcome[o]]

SessionReady ==
    /\ daemon = "starting" /\ daemon' = "running" /\ SettlesWaiting("running")
    /\ UNCHANGED <<openings, tabVars, holding, socket, runs, stops, deaths>>

SessionFails ==
    /\ daemon = "starting" /\ daemon' = "stopped" /\ SettlesWaiting("failed")
    /\ UNCHANGED <<openings, tabVars, holding, socket, runs, stops, deaths>>

(* Who subscribes to a session that runs asks for its status.              *)
StatusReplied(o) ==
    /\ o \in Waiting /\ daemon = "running"
    /\ outcome' = [outcome EXCEPT ![o] = "running"]
    /\ UNCHANGED <<openings, tabVars, holding, socket, sessionOfDaemon>>

StopArrives ==
    /\ stops > 0 /\ stops' = stops - 1
    /\ IF daemon \in {"starting", "running"}
         THEN daemon' = "stopping" /\ SettlesWaiting("failed")
         ELSE UNCHANGED <<daemon, outcome>>
    /\ UNCHANGED <<openings, tabVars, holding, socket, runs, deaths>>

SessionStopped ==
    /\ daemon = "stopping" /\ daemon' = "stopped"
    /\ UNCHANGED <<openings, tabVars, holding, wires, runs, stops, deaths>>

DaemonCrashes ==
    /\ deaths < MaxDeaths /\ deaths' = deaths + 1
    /\ daemon' = "stopped" /\ stops' = 0 /\ SettlesWaiting("failed")
    /\ socket' = [o \in Opens |->
           IF socket[o] \in {"waiting", "open"} THEN "dropped" ELSE socket[o]]
    /\ UNCHANGED <<openings, tabVars, holding, runs>>

(* connectElectronToDaemon() resolves: the adapters are published, and     *)
(* handlers without deps take them; state.daemonSession is set.            *)
Attached(o) ==
    /\ phase[o] = "attaching" /\ outcome[o] = "running" /\ Moves(o, "wired")
    /\ socket' = [socket EXCEPT ![o] = IF @ = "waiting" THEN "open" ELSE @]
    /\ held' = o /\ noticing' = o
    /\ deps' = IF deps = 0 THEN o ELSE deps
    /\ UNCHANGED <<kind, profile, port, tabVars, outcome, sessionOfDaemon>>

AttachFails(o) ==
    /\ phase[o] = "attaching" /\ outcome[o] = "failed" /\ Moves(o, "failed")
    /\ socket' = [socket EXCEPT ![o] = "closed"]
    /\ UNCHANGED <<kind, profile, port, tabVars, holding, outcome, sessionOfDaemon>>

(* Mutant: only the session that is held is listened to.                   *)
SurfaceDisconnectOfHeld(o) ==
    /\ phase[o] = "wired" /\ socket[o] = "dropped"
    /\ socket' = [socket EXCEPT ![o] = "closed"]
    /\ IF held = o THEN held' = 0 /\ noticing' = 0 /\ deps' = 0 ELSE UNCHANGED holding
    /\ UNCHANGED <<openings, tabVars, outcome, sessionOfDaemon>>

SurfaceDisconnect(o) ==
    /\ phase[o] = "wired" /\ socket[o] = "dropped"
    /\ socket' = [socket EXCEPT ![o] = "closed"]
    /\ IF noticing = o THEN held' = 0 /\ noticing' = 0 /\ deps' = 0 ELSE UNCHANGED holding
    /\ UNCHANGED <<openings, tabVars, outcome, sessionOfDaemon>>

ElectronNext ==
    \/ \E o \in Opens :
          \/ \E k \in {"load", "create"}, p \in TabProfiles : Open(o, k, p)
          \/ Show(o) \/ SettlePrompts(o) \/ Subscribe(o) \/ StatusReplied(o)
          \/ Attached(o) \/ AttachFails(o) \/ SurfaceDisconnect(o)
          \/ SetActive(o) \/ RemoveTab(o)
    \/ SessionReady \/ SessionFails \/ StopArrives \/ SessionStopped \/ DaemonCrashes
ElectronSpec == ElectronInit /\ [][ElectronNext]_electronVars

-----------------------------------------------------------------------------
Quiet ==
    /\ \A o \in Opens : phase[o] \notin {"looking", "prompting", "attaching"}
                        /\ socket[o] # "dropped"
    /\ stops = 0 /\ daemon \in {"stopped", "running"}

(* Once a crash of the daemon has been noticed no handler holds a client   *)
(* of the daemon that died, nor does the next tab share its session, also  *)
(* when the session was let go of, or another one attached in between      *)
(* (ipc/services.ts:245-282, ipc/index.ts:207-390).                        *)
DepsAreLive ==
    (\A o \in Opens : socket[o] # "dropped") =>
        \A o \in {deps, held} : o # 0 => socket[o] = "open"

(* Closing a tab "fire[s] session/stop without awaiting the response.      *)
(* supervisor.stop() will run as soon as the current boot finishes its     *)
(* in-flight phase" (ipc/instance.ts:219-223): once everything is at rest  *)
(* and the last tab closed, no session runs.                               *)
ClosedTabStops == Quiet /\ tabs = <<>> => daemon = "stopped"
==============================================================================

----------------------------- MODULE SessionBoot ------------------------------
(***************************************************************************)
(* bootSessionServices() of src/core/session/boot.ts, the dispose() it     *)
(* returns, and the MetroManager of src/core/metro.ts it makes: which      *)
(* process is on the Metro port, whom the boot signals, and what a boot    *)
(* that throws, or a session that ends, leaves behind in the daemon.       *)
(* Preflight, install, clean and watchman come before the port check and   *)
(* never end a boot; boots do not overlap (DaemonSupervisor).              *)
(***************************************************************************)
EXTENDS Naturals, FiniteSets

CONSTANTS
    MaxBoots,   \* bound on boots
    LastPort    \* the profile's port is 1, the manager's range 1..LastPort

ASSUME BootBounds == MaxBoots \in Nat \ {0} /\ LastPort \in Nat \ {0}

Boots == 1..MaxBoots
Ports == 1..LastPort
Profile == 1                                 \* profile.metroPort
(* Who may be on a port: nobody, the Metro of a boot, a Metro of this      *)
(* worktree that no boot started, one of another worktree, no Metro.       *)
Nobody == 0
Stale == MaxBoots + 1
Neighbour == MaxBoots + 2
Service == MaxBoots + 3
Foreign == {Stale, Neighbour, Service}
Mine(h) == h \in Boots \cup {Stale}
IsMetro(h) == Mine(h) \/ h = Neighbour

VARIABLES
    boot,        \* the last boot begun
    step,        \* where it is
    overtaken,   \* stop() came while it was under way
    found,       \* the process whose cwd is looked up
    portOf,      \* the port of each boot's Metro
    holder,      \* who listens on each port
    metroProc,   \* the Metro process of each boot
    wrapped,     \* boots whose Metro was started through npx
    instance,    \* MetroInstance.status; "none" when it is not in the map
    probe,       \* boots with a /status request that was answered 200
    responders,  \* boots whose modules IPC listens to the daemon's server
    debuggers,   \* boots whose devtools are started
    signalled,   \* history: whom the boot has signalled, until it
                 \* has a port of its own
    handedOver,  \* history: the profile's port changed hands between the
                 \* lookup of its holder and the end of the kills
    threw        \* history: boots that threw with Metro started

landlord == <<holder, metroProc, instance, probe>>
wiring == <<wrapped, responders, debuggers>>
bootHistory == <<signalled, handedOver, threw>>
bootVars == <<boot, step, overtaken, found, portOf, landlord, wiring, bootHistory>>

Alive(b) == metroProc[b] \in {"starting", "bound"}
Tracked(b) == instance[b] \notin {"none", "deleted"}
Killing == {"owner", "term", "grace", "kill"}
Booting == {"port", "identify", "find", "fallback", "metro", "devtools", "ipc", "init"} \cup Killing

BootTypeOK ==
    /\ boot \in 0..MaxBoots /\ overtaken \in BOOLEAN /\ handedOver \in BOOLEAN
    /\ step \in Booting \cup {"off", "up", "dispose"}
    /\ found \in Boots \cup Foreign \cup {Nobody}
    /\ portOf \in [Boots -> Ports]
    /\ holder \in [Ports -> Boots \cup Foreign \cup {Nobody}]
    /\ metroProc \in [Boots -> {"none", "starting", "bound", "exited"}]
    /\ instance \in [Boots -> {"none", "starting", "running", "stopped", "error", "deleted"}]
    /\ signalled \subseteq Boots \cup Foreign
    /\ \A s \in {wrapped, probe, responders, debuggers, threw} : s \subseteq Boots

BootInit ==
    /\ boot = 0 /\ step = "off" /\ overtaken = FALSE /\ found = Nobody
    /\ portOf = [b \in Boots |-> Profile]
    /\ holder = [p \in Ports |-> Nobody]
    /\ metroProc = [b \in Boots |-> "none"] /\ instance = [b \in Boots |-> "none"]
    /\ wrapped = {} /\ probe = {}
    /\ responders = {} /\ debuggers = {}
    /\ signalled = {} /\ handedOver = FALSE /\ threw = {}

-----------------------------------------------------------------------------
(* Processes come and go.                                                  *)

(* A port passes to h (or to nobody).                                      *)
Passes(p, h) ==
    /\ holder' = [holder EXCEPT ![p] = h]
    /\ handedOver' = (handedOver \/ (p = Profile /\ step \in Killing))

ForeignTakes(p, h) ==
    /\ holder[p] = Nobody /\ Passes(p, h)
    /\ UNCHANGED <<boot, step, overtaken, found, portOf, metroProc, instance, probe, wiring,
                   signalled, threw>>

ForeignLeaves(p) ==
    /\ holder[p] \in Foreign /\ Passes(p, Nobody)
    /\ UNCHANGED <<boot, step, overtaken, found, portOf, metroProc, instance, probe, wiring,
                   signalled, threw>>

(* The exit event of Metro: the instance is looked up in the map.          *)
Exited(b, clean) ==
    IF Tracked(b) THEN [instance EXCEPT ![b] = IF clean THEN "stopped" ELSE "error"]
                  ELSE instance

(* Metro listens on its port; another may have taken it since the check.   *)
MetroBinds(b) ==
    LET p == portOf[b]
    IN /\ metroProc[b] = "starting"
       /\ IF holder[p] = Nobody
            THEN /\ Passes(p, b) /\ metroProc' = [metroProc EXCEPT ![b] = "bound"]
                 /\ UNCHANGED instance
            ELSE /\ metroProc' = [metroProc EXCEPT ![b] = "exited"]
                 /\ instance' = Exited(b, FALSE)
                 /\ UNCHANGED <<holder, handedOver>>
       /\ UNCHANGED <<boot, step, overtaken, found, portOf, probe, wiring, signalled, threw>>

Freed(b) == [p \in Ports |-> IF holder[p] = b THEN Nobody ELSE holder[p]]

(* Metro ends by itself, by a signal of the boot, or by the user's hand.   *)
MetroExits(b, clean) ==
    /\ Alive(b)
    /\ metroProc' = [metroProc EXCEPT ![b] = "exited"] /\ instance' = Exited(b, clean)
    /\ holder' = Freed(b)
    /\ handedOver' = (handedOver \/ (holder[Profile] = b /\ step \in Killing))
    /\ UNCHANGED <<boot, step, overtaken, found, portOf, probe, wiring, signalled, threw>>

(* The banner is on Metro's stdout.                                        *)
Banner(b) ==
    /\ Alive(b) /\ instance[b] = "starting"
    /\ instance' = [instance EXCEPT ![b] = "running"]
    /\ UNCHANGED <<boot, step, overtaken, found, portOf, holder, metroProc, probe, wiring,
                   bootHistory>>

(* The startup probe asks whoever listens on the port; any process may     *)
(* answer 200.  The answer arrives later.                                  *)
Probe(b) ==
    /\ instance[b] = "starting" /\ b \notin probe
    /\ holder[portOf[b]] # Nobody
    /\ probe' = probe \cup {b}
    /\ UNCHANGED <<boot, step, overtaken, found, portOf, holder, metroProc, instance, wiring,
                   bootHistory>>

(* Mutant: the status is not looked at again.                              *)
ProbeAnswersBlindly(b) ==
    /\ b \in probe /\ probe' = probe \ {b}
    /\ instance' = [instance EXCEPT ![b] = "running"]
    /\ UNCHANGED <<boot, step, overtaken, found, portOf, holder, metroProc, wiring, bootHistory>>

ProbeAnswers(b) ==
    /\ b \in probe /\ probe' = probe \ {b}
    /\ instance' = IF instance[b] = "starting" THEN [instance EXCEPT ![b] = "running"]
                                               ELSE instance
    /\ UNCHANGED <<boot, step, overtaken, found, portOf, holder, metroProc, wiring, bootHistory>>

-----------------------------------------------------------------------------
(* The boot, one action per stretch between two awaits.                    *)

Goes(s) == step' = s
Throws == step' = "off"
Unboot == UNCHANGED <<boot, overtaken, portOf, landlord, wiring, bootHistory>>

BeginBoot ==
    /\ step = "off" /\ boot < MaxBoots
    /\ boot' = boot + 1 /\ Goes("port") /\ overtaken' = FALSE
    /\ signalled' = {} /\ handedOver' = FALSE
    /\ UNCHANGED <<found, portOf, landlord, wiring, threw>>

CheckPort ==
    /\ step = "port"
    /\ Goes(IF holder[Profile] = Nobody THEN "metro" ELSE "identify")
    /\ UNCHANGED found /\ Unboot

(* isMetroOnPort(): a Metro that does not answer in time is none.          *)
Identify ==
    /\ step = "identify"
    /\ \/ IsMetro(holder[Profile]) /\ Goes("find")
       \/ Throws
    /\ UNCHANGED found /\ Unboot

FindHolder ==
    /\ step = "find" /\ Goes("owner") /\ found' = holder[Profile]
    /\ Unboot

(* Mutant: whoever is on the port is taken for our own.                    *)
CompareCwdNever ==
    /\ step = "owner" /\ Goes("term")
    /\ found' = Nobody /\ Unboot

(* getProcessCwd(): what cannot be read is another worktree's.             *)
CompareCwd ==
    /\ step = "owner"
    /\ Goes(IF Mine(found) /\ \E p \in Ports : holder[p] = found THEN "term" ELSE "fallback")
    /\ found' = Nobody /\ Unboot

(* killProcessOnPort() looks the holder up once more.  Whether SIGTERM     *)
(* ends it is left to MetroExits and ForeignLeaves.                        *)
Terminate ==
    /\ step = "term" /\ Goes("grace")
    /\ signalled' = signalled \cup ({holder[Profile]} \ {Nobody})
    /\ UNCHANGED <<boot, overtaken, found, portOf, landlord, wiring, handedOver, threw>>

GraceEnds ==
    /\ step = "grace"
    /\ Goes(IF holder[Profile] = Nobody THEN "metro" ELSE "kill")
    /\ UNCHANGED found /\ Unboot

(* SIGKILL, and three seconds for the port; it may be taken again.         *)
Kill ==
    LET victim == holder[Profile]
    IN /\ step = "kill"
       /\ signalled' = signalled \cup ({victim} \ {Nobody})
       /\ metroProc' = [b \in Boots |-> IF b = victim THEN "exited" ELSE metroProc[b]]
       /\ instance' = IF victim \in Boots THEN Exited(victim, FALSE) ELSE instance
       /\ \/ Goes("metro") /\ holder' = [holder EXCEPT ![Profile] = Nobody]
          \/ \E h \in Foreign : Throws /\ holder' = [holder EXCEPT ![Profile] = h]
       /\ UNCHANGED <<boot, overtaken, found, portOf, probe, wiring, handedOver, threw>>

(* findFreePortInRange(); the result is put into the artifact, where only  *)
(* allocatePort() would look for it, which no boot calls.                  *)
Fallback ==
    /\ step = "fallback"
    /\ \/ \E p \in Ports :
             /\ holder[p] = Nobody /\ Goes("metro")
             /\ portOf' = [portOf EXCEPT ![boot] = p]
       \/ /\ \A p \in Ports : holder[p] # Nobody
          /\ Throws /\ UNCHANGED portOf
    /\ UNCHANGED <<boot, overtaken, found, landlord, wiring, bootHistory>>

(* The device check is over; metro.start() spawns the local binary or npx. *)
StartMetro ==
    /\ step = "metro" /\ Goes("devtools")
    /\ metroProc' = [metroProc EXCEPT ![boot] = "starting"]
    /\ instance' = [instance EXCEPT ![boot] = "starting"]
    /\ wrapped' \in {wrapped, wrapped \cup {boot}}
    /\ signalled' = {} /\ handedOver' = FALSE
    /\ UNCHANGED <<boot, overtaken, found, portOf, holder, probe, responders, debuggers, threw>>

(* devtools.start() may fail, which is swallowed.                          *)
DevtoolsStarted ==
    /\ step = "devtools" /\ Goes("ipc")
    /\ debuggers' \in {debuggers, debuggers \cup {boot}}
    /\ UNCHANGED <<boot, overtaken, found, portOf, landlord, wrapped, responders, bootHistory>>

RegisterModulesIpc ==
    /\ step = "ipc" /\ Goes("init")
    /\ responders' = responders \cup {boot}
    /\ UNCHANGED <<boot, overtaken, found, portOf, landlord, wrapped, debuggers, bootHistory>>

(* session/init, or the profile's second validation, fails.                *)
InitThrows ==
    /\ step = "init" /\ Throws /\ threw' = threw \cup {boot}
    /\ UNCHANGED <<boot, overtaken, found, portOf, landlord, wiring, signalled, handedOver>>

Unregistered == responders' = responders \ {boot}

(* Mutant: the listener stays.                                             *)
BootEndsRegistered ==
    /\ step = "init" /\ Goes(IF overtaken THEN "dispose" ELSE "up")
    /\ UNCHANGED <<boot, overtaken, found, portOf, landlord, wiring, bootHistory>>

(* The services are returned, and disposed of at once when stop() came.    *)
BootEnds ==
    /\ step = "init"
    /\ IF overtaken THEN Goes("dispose") /\ Unregistered
                    ELSE Goes("up") /\ UNCHANGED responders
    /\ UNCHANGED <<boot, overtaken, found, portOf, landlord, wrapped, debuggers, bootHistory>>

StopOvertakes ==
    /\ step \in Booting /\ ~overtaken /\ overtaken' = TRUE
    /\ UNCHANGED <<boot, step, found, portOf, landlord, wiring, bootHistory>>

StopSession ==
    /\ step = "up" /\ Goes("dispose") /\ Unregistered
    /\ UNCHANGED <<boot, overtaken, found, portOf, landlord, wrapped, debuggers, bootHistory>>

(* devtools.dispose() is over: metro.stopAll() kills the process it knows, *)
(* which is npx, not Metro, when Metro was started through it.             *)
Dispose ==
    /\ step = "dispose" /\ Goes("off")
    /\ debuggers' = debuggers \ {boot}
    /\ instance' = [instance EXCEPT ![boot] = "deleted"]
    /\ IF boot \in wrapped THEN UNCHANGED <<metroProc, holder>>
       ELSE /\ metroProc' = [metroProc EXCEPT ![boot] = "exited"]
            /\ holder' = Freed(boot)
    /\ UNCHANGED <<boot, overtaken, found, portOf, probe, wrapped, responders,
                   bootHistory>>

BootNext ==
    \/ \E p \in Ports, h \in Foreign : ForeignTakes(p, h)
    \/ \E p \in Ports : ForeignLeaves(p)
    \/ \E b \in Boots : \/ MetroBinds(b) \/ Banner(b) \/ Probe(b) \/ ProbeAnswers(b)
                        \/ \E clean \in BOOLEAN : MetroExits(b, clean)
    \/ BeginBoot \/ CheckPort \/ Identify \/ FindHolder \/ CompareCwd \/ Terminate
    \/ GraceEnds \/ Kill \/ Fallback \/ StartMetro \/ DevtoolsStarted
    \/ RegisterModulesIpc \/ InitThrows \/ BootEnds
    \/ StopOvertakes \/ StopSession \/ Dispose
BootSpec == BootInit /\ [][BootNext]_bootVars

-----------------------------------------------------------------------------
(* Another worktree's Metro, or a process that is no Metro, is signalled   *)
(* only when it took the port behind the back of the check: the cwd of     *)
(* one process is compared, and whoever listens by then is killed          *)
(* (boot.ts:264-289, metro.ts:244-262).                                    *)
SignalsOwn == {Neighbour, Service} \cap signalled # {} => handedOver

(* What runs in the daemon belongs to the session that is up or coming up, *)
(* or to a boot that threw with its services started; a Metro may besides  *)
(* be the child of an npx that was killed in its place (boot.ts:494-525,   *)
(* metro.ts:486-507).                                                      *)
LeftoversAreNamed ==
    LET live == IF step = "off" THEN {} ELSE {boot}
    IN /\ responders \cup debuggers \subseteq live \cup threw
       /\ {b \in Boots : Alive(b)} \subseteq live \cup threw \cup wrapped

(* A Metro that has ended never becomes a running one: the answer to a     *)
(* probe that was asked before, perhaps by another process on the port,    *)
(* comes too late (metro.ts:421-449).                                      *)
EndedStaysEnded ==
    [][\A b \in Boots : instance[b] \in {"stopped", "error", "deleted"}
                            => instance'[b] # "running"]_bootVars

(* modulesIpc is the daemon's single fan-out point (boot.ts:427-429): a    *)
(* request for a module has one answer and one subprocess.                 *)
OneResponder == Cardinality(responders) <= 1
==============================================================================

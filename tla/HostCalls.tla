------------------------------ MODULE HostCalls ------------------------------
(***************************************************************************)
(* How a module reaches a capability of the host.                          *)
(*                                                                         *)
(*  - Its panel asks Electron main, which binds the module to its daemon   *)
(*    connection on first use (ensureBound) and passes the call on; the    *)
(*    daemon looks at the connection's bindings, at the module's           *)
(*    permissions, at the method.                                          *)
(*  - Its subprocess asks the SDK, which looks at the capabilities it was  *)
(*    told of at initialize, then sends host/call, where the daemon looks  *)
(*    at the permissions again.                                            *)
(*                                                                         *)
(* Connections come and go with the daemon; Electron main uses the first   *)
(* one published after the last was cleared.  A connection has a number.   *)
(***************************************************************************)
EXTENDS Naturals, FiniteSets

CONSTANTS
    Calls,          \* the calls panels and subprocesses make
    MaxConnections, \* bound: connections to daemons
    MaxChanges      \* bound: installs and uninstalls

VARIABLES
    opened,      \* connections opened so far
    alive,       \* those whose daemon lives
    depsHeld,        \* the connection of Electron's handlers, or 0
    bound,       \* boundModuleIds of Electron main
    listening,   \* connections whose "disconnected" clears `bound'
    attachedOnce,\* disconnectListenerAttached
    bindings,    \* SenderBindings.table: pairs of a connection and a module
    registered,  \* modules in the daemon's registry
    changes,     \* counts to MaxChanges
    doing, owner, method, via,  \* of each call; via: the connection it captured
    told       \* of each call

hostElectronVars == <<depsHeld, bound, listening, attachedOnce>>
hostDaemonVars == <<opened, alive, bindings, registered, changes>>
hostCallVars == <<doing, owner, method, via, told>>
hostVars == <<hostElectronVars, hostDaemonVars, hostCallVars>>

(* "umbrella" declares the permission of before the split into read and    *)
(* mutate, as manifests of that time do.                                   *)
Modules == {"both", "reader", "umbrella"}
permissions(m) == CASE m = "both" -> {"read", "mutate"}
                    [] m = "reader" -> {"read"}
                    [] m = "umbrella" -> {"capture"}
Methods == {"list", "clear", "toString"}
Connections == 1..MaxConnections

(* The capabilities of boot: "devtools" needs read, its clear() mutate.    *)
expandPermissionAliases(granted) ==
    granted \cup (IF "capture" \in granted THEN {"read", "mutate"} ELSE {})
resolve(granted) == "read" \in granted
requiredPermissionForMethod(f) == IF f = "clear" THEN "mutate" ELSE "read"

-----------------------------------------------------------------------------
(* What each gate answers to module m calling f.                           *)
hostCall(c, m, f) ==
    IF <<c, m>> \notin bindings THEN "unbound"
    ELSE IF m \notin registered THEN "unregistered"
    ELSE IF ~resolve(permissions(m)) THEN "denied"
    ELSE "called"                      \* toString is a function of any object

attachHostRpc(m, f) ==
    LET granted == expandPermissionAliases(permissions(m))
    IN IF ~resolve(granted) THEN "denied"
       ELSE IF requiredPermissionForMethod(f) \notin granted THEN "denied"
       ELSE IF f = "toString" THEN "no method" ELSE "called"

(* createHostApi: a capability the manifest does not name the permission   *)
(* of is null to the module's code.                                        *)
createHostApi(m) == IF resolve(permissions(m)) THEN "proxy" ELSE "null"

-----------------------------------------------------------------------------
HostInit ==
    /\ opened = 0 /\ alive = {} /\ depsHeld = 0 /\ bound = {} /\ listening = {}
    /\ attachedOnce = FALSE /\ bindings = {} /\ registered = Modules /\ changes = 0
    /\ doing = [c \in Calls |-> "idle"] /\ told = [c \in Calls |-> "none"]
    /\ owner \in [Calls -> Modules] /\ method \in [Calls -> Methods]
    /\ via = [c \in Calls |-> 0]

(* A tab's session is connected and published; handlers that have a        *)
(* connection keep it.                                                     *)
Publish ==
    /\ opened < MaxConnections /\ opened' = opened + 1
    /\ alive' = alive \cup {opened'}
    /\ depsHeld' = IF depsHeld = 0 THEN opened' ELSE depsHeld
    /\ UNCHANGED <<bound, listening, attachedOnce, bindings, registered, changes, hostCallVars>>

(* The daemon is gone with every connection; the sessions say              *)
(* "disconnected" one after the other, and what waits is rejected.         *)
Rejected == [c \in Calls |-> IF doing[c] \in {"binding", "calling", "tool"} THEN "done" ELSE doing[c]]
HostDaemonDiesKeepsBound ==
    /\ alive # {} /\ alive' = {} /\ bindings' = {} /\ depsHeld' = 0
    /\ doing' = Rejected
    /\ told' = [c \in Calls |-> IF Rejected[c] # doing[c] THEN "rejected" ELSE told[c]]
    /\ listening' = {} /\ attachedOnce' = FALSE
    /\ UNCHANGED <<opened, bound, registered, changes, owner, method, via>>

HostDaemonDies ==
    /\ alive # {} /\ alive' = {} /\ bindings' = {} /\ depsHeld' = 0
    /\ doing' = Rejected
    /\ told' = [c \in Calls |-> IF Rejected[c] # doing[c] THEN "rejected" ELSE told[c]]
    /\ IF listening \cap alive # {}
         THEN bound' = {} /\ attachedOnce' = FALSE
         ELSE UNCHANGED <<bound, attachedOnce>>
    /\ listening' = {}
    /\ UNCHANGED <<opened, registered, changes, owner, method, via>>

Registry(m) ==
    /\ changes < MaxChanges /\ changes' = changes + 1
    /\ registered' = IF m \in registered THEN registered \ {m} ELSE registered \cup {m}
    /\ UNCHANGED <<opened, alive, bindings, hostElectronVars, hostCallVars>>

-----------------------------------------------------------------------------
HostAnswers(c, a) ==
    /\ doing' = [doing EXCEPT ![c] = "done"] /\ told' = [told EXCEPT ![c] = a]

(* modules:host-call of a panel: the handler waits for a connection, then  *)
(* binds the module unless it did before.  (Its own check that the panel   *)
(* is the module's own is passed by every panel.)                          *)
HostCallBegins(c) ==
    /\ doing[c] = "idle" /\ depsHeld # 0
    /\ via' = [via EXCEPT ![c] = depsHeld]
    /\ attachedOnce' = TRUE
    /\ listening' = IF attachedOnce THEN listening ELSE listening \cup {depsHeld}
    /\ doing' = [doing EXCEPT ![c] = IF owner[c] \in bound THEN "calling" ELSE "binding"]
    /\ UNCHANGED <<depsHeld, bound, hostDaemonVars, owner, method, told>>

(* modules/bind-sender at the daemon, and its reply.                       *)
bindSenderAction(c) ==
    /\ doing[c] = "binding" /\ bindings' = bindings \cup {<<via[c], owner[c]>>}
    /\ doing' = [doing EXCEPT ![c] = "bound"]
    /\ UNCHANGED <<opened, alive, registered, changes, hostElectronVars, owner, method, via, told>>

ensureBound(c) ==
    /\ doing[c] = "bound"
    /\ IF via[c] \in alive
         THEN bound' = bound \cup {owner[c]} /\ doing' = [doing EXCEPT ![c] = "calling"]
              /\ UNCHANGED told
         ELSE HostAnswers(c, "rejected") /\ UNCHANGED bound
    /\ UNCHANGED <<depsHeld, listening, attachedOnce, hostDaemonVars, owner, method, via>>

HostCallAnswered(c) ==
    /\ doing[c] = "calling"
    /\ \/ HostAnswers(c, hostCall(via[c], owner[c], method[c]))
       \/ hostCall(via[c], owner[c], method[c]) = "called" /\ HostAnswers(c, "threw")
    /\ UNCHANGED <<hostElectronVars, hostDaemonVars, owner, method, via>>

(* modules:call-tool of a panel goes to the subprocess and binds nothing.  *)
callModuleTool(c) ==
    /\ doing[c] = "idle" /\ depsHeld # 0
    /\ via' = [via EXCEPT ![c] = depsHeld] /\ doing' = [doing EXCEPT ![c] = "tool"]
    /\ UNCHANGED <<hostElectronVars, hostDaemonVars, owner, method, told>>
HostToolAnswered(c) ==
    /\ doing[c] = "tool"
    /\ \E a \in IF owner[c] \in registered THEN {"called", "threw", "failed"}
                                            ELSE {"unregistered"} : HostAnswers(c, a)
    /\ UNCHANGED <<hostElectronVars, hostDaemonVars, owner, method, via>>

(* ctx.host.capability("devtools").f() in the subprocess.                  *)
SubprocessCalls(c) ==
    /\ doing[c] = "idle" /\ alive # {} /\ owner[c] \in registered
    /\ HostAnswers(c, IF createHostApi(owner[c]) = "null" THEN "null"
                  ELSE attachHostRpc(owner[c], method[c]))
    /\ UNCHANGED <<hostElectronVars, hostDaemonVars, owner, method, via>>

HostNext ==
    \/ Publish \/ HostDaemonDies \/ \E m \in Modules : Registry(m)
    \/ \E c \in Calls : \/ HostCallBegins(c) \/ bindSenderAction(c) \/ ensureBound(c)
                        \/ HostCallAnswered(c) \/ callModuleTool(c) \/ HostToolAnswered(c)
                        \/ SubprocessCalls(c)
HostSpec == HostInit /\ [][HostNext]_hostVars

-----------------------------------------------------------------------------
(* Electron main believes a module bound only where the daemon would take  *)
(* its calls, so that no call is refused for want of a binding: the two    *)
(* tables, of two processes, are never apart (ensureBound,                 *)
(* clearBoundModules, SenderBindings).                                     *)
BoundIsBound ==
    /\ depsHeld # 0 => \A m \in bound : <<depsHeld, m>> \in bindings
    /\ \A c \in Calls : told[c] # "unbound"

(* capabilities.ts says of the alias table "so v1 manifests keep working   *)
(* during the grace period": a module with the umbrella permission gets    *)
(* what one with both parts gets.                                          *)
UmbrellaKeepsWorking ==
    \A c \in Calls : owner[c] = "umbrella" => told[c] \notin {"null", "denied"}
=============================================================================

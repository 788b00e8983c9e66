------------------------------- MODULE McpServer -------------------------------
(***************************************************************************)
(* rn-dev's MCP server, next to the daemon it is connected to: the list of *)
(* module tools it offers (src/mcp/server.ts, module-proxy.ts), which it   *)
(* fetches again on module events, and what its tools (src/mcp/tools.ts)   *)
(* send to the daemon over the socket of its session.  Events and replies  *)
(* share that socket, so they arrive in the order they were sent; a        *)
(* request that has no reply after 5 s is given up, and a reply that comes *)
(* after that is dropped (src/core/ipc.ts).                                *)
(***************************************************************************)
EXTENDS Naturals, Sequences, FiniteSets

CONSTANTS
    Plugins,       \* modules that may be installed in the daemon
    Enabled,       \* --enable-module flags
    Suppressed,    \* --disable-module flags
    MaxVersion,    \* bound on changes of what is registered
    MaxEvents      \* bound on module events and on sessions

ASSUME McpAssumption ==
    /\ Enabled \subseteq Plugins /\ Suppressed \subseteq Plugins
    /\ MaxVersion \in Nat /\ MaxEvents \in Nat

VARIABLES
    rows,        \* modules the daemon has registered
    version,     \* changes of that so far
    events,      \* module events and sessions so far
    running,     \* the daemon has a session
    connected,   \* the socket of the MCP server's session is open
    asked,       \* modules/list requests under way to the daemon
    wire,        \* what the daemon has sent and the server has not read
    orphans,     \* how many of the next replies are to requests given up
    serving,     \* "discovering", "connecting", then "listening"
    offered,     \* modules whose tools are in the server's list
    tool, step,  \* the tool an agent has called, and the request it is at
    answer,      \* what the call has come to
    listed,      \* history: the list that was read last, and of which version
    lapsed,      \* history: the fetch that ended last had no list
    heard        \* history: version at the last event the listener was given

daemonVars == <<rows, version, events, running>>
offerVars == <<serving, offered>>
callVars == <<tool, step, answer>>
socketVars == <<asked, wire, orphans>>
mcpHistory == <<listed, lapsed, heard>>
mcpVars == <<daemonVars, connected, socketVars, offerVars, callVars, mcpHistory>>

-----------------------------------------------------------------------------
(* What each tool sends to the daemon, in order.                           *)
SessionTools == [startSession |-> <<"session/status", "session/start">>,
                 stopSession |-> <<"session/stop">>, listSessions |-> <<"session/status">>]
MetroTools == [reload |-> <<"reload">>, devMenu |-> <<"dev-menu">>,
               metroStatus |-> <<"metro-status">>]
BuildTools == [build |-> <<"builder/build">>]
QueryTools == [modulesList |-> <<"modules/list">>, modulesStatus |-> <<"modules/status">>]
SwitchTools == [modulesRestart |-> <<"modules/restart">>, modulesEnable |-> <<"modules/enable">>,
                modulesDisable |-> <<"modules/disable">>]
ConfigTools == [configGet |-> <<"modules/config/get">>, configSet |-> <<"modules/config/set">>]
AvailableTools == [modulesAvailable |-> <<"marketplace/list">>]
(* A module's tool on offer, with the confirmation a destructive one wants. *)
ProxyTools == [proxied |-> <<"modules/call">>]

Sends(t) ==
    CASE t \in DOMAIN SessionTools -> SessionTools[t]
      [] t \in DOMAIN MetroTools -> MetroTools[t]
      [] t \in DOMAIN BuildTools -> BuildTools[t]
      [] t \in DOMAIN QueryTools -> QueryTools[t]
      [] t \in DOMAIN SwitchTools -> SwitchTools[t]
      [] t \in DOMAIN ConfigTools -> ConfigTools[t]
      [] t \in DOMAIN AvailableTools -> AvailableTools[t]
      [] t \in DOMAIN ProxyTools -> ProxyTools[t]
Tools == UNION {DOMAIN SessionTools, DOMAIN MetroTools, DOMAIN BuildTools, DOMAIN QueryTools,
                DOMAIN SwitchTools, DOMAIN ConfigTools, DOMAIN AvailableTools,
                DOMAIN ProxyTools}

(* What the daemon answers to, with a session and without.                 *)
SessionActions == {"session/start", "session/stop", "session/status"}
NeverOnSubscribe == {"session/start", "daemon/shutdown"}
ClientRpcActions == {"metro/reload", "metro/devMenu", "metro/getInstance", "builder/build"}
ModulesActions == {"modules/list", "modules/status", "modules/restart", "modules/enable",
                   "modules/disable", "modules/config/get", "modules/config/set",
                   "marketplace/list", "modules/call"}
Reply(action) ==
    CASE ~connected -> "failed"
      [] connected /\ action \in NeverOnSubscribe -> "refused"
      [] connected /\ action \in SessionActions \ NeverOnSubscribe ->
             IF running \/ action = "session/stop" THEN "ok" ELSE "stopped"
      [] connected /\ action \in ClientRpcActions \cup ModulesActions ->
             IF running THEN "ok" ELSE "not running"
      [] OTHER -> "unknown"
Answers == {"none", "ok", "failed", "refused", "stopped", "not running", "unknown"}

Visible(ms) == {m \in ms \ Suppressed : Enabled = {} \/ m \in Enabled}

McpTypeOK ==
    /\ rows \subseteq Plugins /\ offered \subseteq Plugins
    /\ version \in 0..MaxVersion /\ events \in 0..MaxEvents
    /\ running \in BOOLEAN /\ connected \in BOOLEAN
    /\ serving \in {"discovering", "connecting", "listening"}
    /\ \A i \in DOMAIN wire : wire[i].kind \in {"event", "list"} /\ wire[i].at \in 0..version
    /\ tool \in Tools \cup {"none"} /\ step \in 0..2 /\ answer \in Answers
    /\ orphans \in 0..(MaxEvents + 1) /\ lapsed \in BOOLEAN
    /\ listed \in [at : 0..version, offer : SUBSET Plugins] /\ heard \in 0..version

(* connectToDaemonSession() has returned: the session runs, the first      *)
(* modules/list is on its way.                                             *)
McpInit ==
    /\ rows \in SUBSET Plugins /\ version = 0 /\ events = 0
    /\ running = TRUE /\ connected = TRUE /\ asked = 1 /\ wire = <<>> /\ orphans = 0
    /\ serving = "discovering" /\ offered = {}
    /\ tool = "none" /\ step = 0 /\ answer = "none"
    /\ listed = [at |-> 0, offer |-> {}] /\ lapsed = FALSE /\ heard = 0

-----------------------------------------------------------------------------
(* install, uninstall, enable, disable, rescan: the modules-event they     *)
(* emit goes to modules/subscribe only, not to the session's stream.       *)
RegistryChanges ==
    /\ running /\ version < MaxVersion /\ version' = version + 1
    /\ \E m \in Plugins : rows' = IF m \in rows THEN rows \ {m} ELSE rows \cup {m}
    /\ UNCHANGED <<events, running, connected, socketVars, offerVars, callVars, mcpHistory>>

(* A module's subprocess becomes or ceases to be active, crashes or fails: *)
(* the supervisor forwards it, and the adapter emits modules-event.        *)
ModuleEvent ==
    /\ running /\ connected /\ events < MaxEvents /\ events' = events + 1
    /\ wire' = Append(wire, [kind |-> "event", at |-> version, rows |-> {}])
    /\ UNCHANGED <<rows, version, running, connected, asked, orphans, offerVars, callVars,
                   mcpHistory>>

(* The session ends, or another client begins one.                         *)
SessionFlips ==
    /\ events < MaxEvents /\ events' = events + 1
    /\ running' = ~running
    /\ UNCHANGED <<rows, version, connected, socketVars, offerVars, callVars, mcpHistory>>

(* Without a session the answer is an error, which has no rows.            *)
ServeList ==
    /\ connected /\ asked > 0 /\ asked' = asked - 1
    /\ wire' = Append(wire, [kind |-> "list", at |-> version,
                             rows |-> IF running THEN rows ELSE {}])
    /\ UNCHANGED <<daemonVars, connected, orphans, offerVars, callVars, mcpHistory>>

-----------------------------------------------------------------------------
Lists == {i \in DOMAIN wire : wire[i].kind = "list"}
Awaiting == asked + Cardinality(Lists) > orphans
Discovered == serving' = IF serving = "discovering" THEN "connecting" ELSE serving
Rest == UNCHANGED <<daemonVars, connected, callVars>>

(* discoverModuleContributedTools() takes a request that is rejected for   *)
(* no rows.                                                                *)
FetchFails == offered' = {} /\ lapsed' = TRUE /\ Discovered /\ UNCHANGED <<listed, heard>>

(* The process ends, and requests under way are rejected.                  *)
DaemonDies ==
    /\ connected /\ connected' = FALSE /\ running' = FALSE
    /\ asked' = 0 /\ wire' = <<>> /\ orphans' = 0
    /\ IF Awaiting THEN FetchFails ELSE UNCHANGED <<offerVars, mcpHistory>>
    /\ UNCHANGED <<rows, version, events, callVars>>

(* The oldest request under way has waited for 5 s.                        *)
FetchTimesOut ==
    /\ connected /\ Awaiting
    /\ orphans' = orphans + 1
    /\ FetchFails /\ UNCHANGED <<asked, wire>> /\ Rest

Offers(list) ==
    /\ offered' = Visible(list.rows) /\ Discovered
    /\ listed' = [at |-> list.at, offer |-> offered'] /\ lapsed' = FALSE
    /\ UNCHANGED heard

ReceiveList ==
    /\ wire # <<>> /\ Head(wire).kind = "list" /\ wire' = Tail(wire)
    /\ IF orphans > 0 THEN orphans' = orphans - 1 /\ UNCHANGED <<offerVars, mcpHistory>>
                      ELSE Offers(Head(wire)) /\ UNCHANGED orphans
    /\ UNCHANGED asked /\ Rest

(* Until the transport is connected nobody listens for events.             *)
ReceiveEvent ==
    /\ wire # <<>> /\ Head(wire).kind = "event" /\ wire' = Tail(wire)
    /\ IF serving = "listening" THEN asked' = asked + 1 /\ heard' = Head(wire).at
                                ELSE UNCHANGED <<asked, heard>>
    /\ UNCHANGED <<orphans, offerVars, listed, lapsed>> /\ Rest

Listen ==
    /\ serving = "connecting" /\ serving' = "listening"
    /\ UNCHANGED <<daemonVars, connected, socketVars, offered, callVars, mcpHistory>>

-----------------------------------------------------------------------------
CallTool(t) ==
    /\ serving = "listening" /\ step = 0
    /\ t \in DOMAIN ProxyTools => offered # {}
    /\ tool' = t /\ step' = 1 /\ answer' = "none"
    /\ UNCHANGED <<daemonVars, connected, socketVars, offerVars, mcpHistory>>

(* start-session sends session/start when the status says stopped.         *)
ToolAnswered ==
    /\ step > 0
    /\ LET reply == Reply(Sends(tool)[step]) IN
         IF step < Len(Sends(tool)) /\ reply = "stopped"
           THEN step' = step + 1 /\ UNCHANGED answer
           ELSE step' = 0 /\ answer' = reply
    /\ running' = (running /\ ~(connected /\ tool = "stopSession"))
    /\ UNCHANGED <<rows, version, events, connected, socketVars, offerVars, tool, mcpHistory>>

(* What is asked takes the daemon more than 5 s; it may do it all the same. *)
ToolTimesOut ==
    /\ step > 0 /\ connected
    /\ step' = 0 /\ answer' = "failed"
    /\ running' \in {running, running /\ tool # "stopSession"}
    /\ UNCHANGED <<rows, version, events, connected, socketVars, offerVars, tool, mcpHistory>>

McpNext ==
    \/ RegistryChanges \/ ModuleEvent \/ SessionFlips \/ ServeList \/ DaemonDies
    \/ FetchTimesOut \/ ReceiveList \/ ReceiveEvent \/ Listen
    \/ \E t \in Tools : CallTool(t)
    \/ ToolAnswered \/ ToolTimesOut
McpSpec == McpInit /\ [][McpNext]_mcpVars

-----------------------------------------------------------------------------
NothingUnderWay == serving = "listening" /\ connected /\ asked = 0 /\ wire = <<>>

(* Once every fetch has ended, by its reply or by its timeout, the tools   *)
(* on offer are those of the list that was read last, which is no older    *)
(* than the last event the server was told of: however events, changes and *)
(* fetches overlap, the last list to arrive is the newest, and no late one *)
(* takes its place (mcp/server.ts:209-223, ipc.ts:343-346, 397).  If the   *)
(* last fetch was in vain there are no tools.                              *)
OffersFollowEvents ==
    NothingUnderWay => IF lapsed THEN offered = {}
                       ELSE listed.at >= heard /\ offered = listed.offer

(* "If the refetch fails (daemon flaky), keep the old snapshot"            *)
(* (mcp/server.ts:215): while the daemon is there, the tools on offer are  *)
(* those of the last list.                                                 *)
OldSnapshotIsKept == serving = "listening" /\ connected => offered = listed.offer

(* "When modules change state we refresh the tool snapshot" (mcp/server.ts *)
(* :203-206), "after module installs / crashes" (:104): at rest the tools  *)
(* on offer are those of the modules registered.                           *)
OffersAreCurrent == NothingUnderWay /\ running => offered = Visible(rows)

(* start-session "re-issues session/start with MCP's loaded profile when   *)
(* stopped" (mcp/tools.ts:218): the daemon does not refuse it.             *)
StartSessionBoots == ~(tool = "startSession" /\ answer = "refused")

(* Every tool sends what the daemon knows (mcp/tools.ts:190-198).          *)
CallsAreServed == answer # "unknown"
==============================================================================

------------------------------- MODULE DevTools --------------------------------
(***************************************************************************)
(* DevToolsManager of src/core/devtools.ts for one worktree and the        *)
(* CdpProxy of src/core/devtools/proxy.ts: the states it makes, the proxy  *)
(* each refers to, and the requests that restart, retarget or dispose of   *)
(* it while upstream sockets open and close, target lists are fetched and  *)
(* Metro ends.  What the taps capture is CaptureRing.                      *)
(***************************************************************************)
EXTENDS Naturals, FiniteSets

CONSTANTS
    Calls,       \* devtools/restart, devtools/selectTarget and dispose()
    MaxStates,   \* bound on WorktreeStates
    MaxProxies   \* bound on CdpProxies

ASSUME DevBounds == MaxStates \in Nat \ {0} /\ MaxProxies \in Nat \ {0}

VARIABLES
    tracked,      \* the state instances.get(worktreeKey) finds, 0 when none
    life,         \* WorktreeState.state
    proxyStatus,  \* WorktreeState.proxyStatus
    proxyOf,      \* WorktreeState.proxy
    targeted,     \* states with a selectedTargetId
    ticking,      \* states whose timers run
    checks,       \* states with a checkPreemption() fetch under way
    polls,        \* states with a pollTargets() fetch under way
    server,       \* the WebSocketServer of each proxy
    upstream,     \* the upstream socket of each proxy; "terminated" until
                  \* its close event is delivered
    blind,        \* proxies made without a target: no upstream, no callbacks
    call,         \* where each call is
    callState,    \* the state it works on
    callProxy,    \* the proxy it has made
    overlapped,   \* history: a call began while another was under way
    failed        \* history: proxies whose start() was rejected

devStates == <<tracked, life, proxyStatus, proxyOf, targeted, ticking, checks, polls>>
devProxies == <<server, upstream, blind>>
devCalls == <<call, callState, callProxy, overlapped, failed>>
devVars == <<devStates, devProxies, devCalls>>

States == 1..MaxStates
Proxies == 1..MaxProxies
Busy == {c \in Calls : call[c] \notin {"idle", "done"}}
FreshStates == {s \in States : life[s] = "none"}
FreshProxies == {p \in Proxies : server[p] = "none"}
Lowest(S) == CHOOSE x \in S : \A y \in S : x <= y

DevTypeOK ==
    /\ tracked \in 0..MaxStates /\ overlapped \in BOOLEAN
    /\ life \in [States -> {"none", "IDLE", "RUNNING", "RECONNECTING", "STOPPING"}]
    /\ proxyStatus \in [States -> {"no-target", "connected", "disconnected", "preempted"}]
    /\ proxyOf \in [States -> Proxies]
    /\ targeted \cup ticking \cup checks \cup polls \subseteq States
    /\ server \in [Proxies -> {"none", "bound", "closed"}]
    /\ upstream \in [Proxies -> {"none", "open", "terminated", "closed"}]
    /\ blind \cup failed \subseteq Proxies
    /\ call \in [Calls -> {"idle", "stopping", "disposing", "fetching", "opening",
                           "swapping", "reopening", "done"}]
    /\ callState \in [Calls -> 0..MaxStates] /\ callProxy \in [Calls -> 0..MaxProxies]

(* The boot's start() has found a target, found none, or failed.           *)
DevInit ==
    /\ tracked \in {0, 1}
    /\ targeted \in (SUBSET {tracked}) \ {{0}}
    /\ ticking = {tracked} \ {0}
    /\ life = [s \in States |-> IF s # tracked THEN "none"
                                ELSE IF s \in targeted THEN "RUNNING" ELSE "IDLE"]
    /\ proxyStatus = [s \in States |-> IF s \in targeted THEN "connected" ELSE "no-target"]
    /\ proxyOf = [s \in States |-> 1]
    /\ checks = {} /\ polls = {}
    /\ server = [p \in Proxies |-> IF p = tracked THEN "bound" ELSE "none"]
    /\ upstream = [p \in Proxies |-> IF p \in targeted THEN "open" ELSE "none"]
    /\ blind = {tracked} \ (targeted \cup {0})
    /\ call = [c \in Calls |-> "idle"]
    /\ callState = [c \in Calls |-> 0] /\ callProxy = [c \in Calls |-> 0]
    /\ overlapped = FALSE /\ failed = {}

-----------------------------------------------------------------------------
(* Upstream sockets.  The callbacks look the state up by the worktree.     *)

(* onUpstreamClose()                                                       *)
UpstreamClosed(p) ==
    IF p \in blind \/ tracked = 0 \/ life[tracked] = "STOPPING"
      THEN UNCHANGED <<life, proxyStatus, checks>>
      ELSE /\ life' = [life EXCEPT ![tracked] = "RECONNECTING"]
           /\ proxyStatus' = [proxyStatus EXCEPT ![tracked] = "disconnected"]
           /\ checks' = checks \cup {tracked}

UpstreamDrops(p) ==
    /\ upstream[p] \in {"open", "terminated"}
    /\ upstream' = [upstream EXCEPT ![p] = "closed"]
    /\ UpstreamClosed(p)
    /\ UNCHANGED <<tracked, proxyOf, targeted, ticking, polls, server, blind, devCalls>>

(* A frontend connects to a proxy whose upstream is gone: it is opened     *)
(* again, or fails to.                                                     *)
FrontendConnects(p, ok) ==
    /\ server[p] = "bound" /\ upstream[p] \in {"none", "closed"} /\ p \notin blind
    /\ IF ok
         THEN /\ upstream' = [upstream EXCEPT ![p] = "open"]
              /\ IF tracked = 0 THEN UNCHANGED <<life, proxyStatus>>
                 ELSE /\ life' = [life EXCEPT ![tracked] = "RUNNING"]
                      /\ proxyStatus' = [proxyStatus EXCEPT ![tracked] = "connected"]
              /\ UNCHANGED checks
         ELSE UpstreamClosed(p) /\ UNCHANGED upstream
    /\ UNCHANGED <<tracked, proxyOf, targeted, ticking, polls, server, blind, devCalls>>

(* checkPreemption(): the guard is that the worktree has any state.        *)
CheckResolves(s, listed) ==
    /\ s \in checks /\ checks' = checks \ {s}
    /\ proxyStatus' = IF tracked = 0 THEN proxyStatus
                      ELSE [proxyStatus EXCEPT ![s] = IF listed /\ s \in targeted
                                                        THEN "preempted" ELSE "no-target"]
    /\ UNCHANGED <<tracked, life, proxyOf, targeted, ticking, polls, devProxies, devCalls>>

Poll(s) ==
    /\ s \in ticking \ polls /\ tracked # 0
    /\ polls' = polls \cup {s}
    /\ UNCHANGED <<tracked, life, proxyStatus, proxyOf, targeted, ticking, checks, devProxies,
                   devCalls>>

PollResolves(s, listed) ==
    /\ s \in polls /\ polls' = polls \ {s}
    /\ proxyStatus' =
         IF tracked # 0 /\ ~listed /\ s \in targeted /\ proxyStatus[s] = "connected"
           THEN [proxyStatus EXCEPT ![s] = "no-target"] ELSE proxyStatus
    /\ UNCHANGED <<tracked, life, proxyOf, targeted, ticking, checks, devProxies, devCalls>>

MetroEnds ==
    /\ tracked # 0
    /\ life' = [life EXCEPT ![tracked] = "IDLE"]
    /\ proxyStatus' = [proxyStatus EXCEPT ![tracked] = "no-target"]
    /\ UNCHANGED <<tracked, proxyOf, targeted, ticking, checks, polls, devProxies, devCalls>>

-----------------------------------------------------------------------------
(* The calls, one action per stretch between two awaits.                   *)

At(c, where) == call' = [call EXCEPT ![c] = where]
Begins(c) == call[c] = "idle" /\ overlapped' = (overlapped \/ Busy # {})

(* proxy.stop(): the sockets are terminated, the server closes.            *)
StopProxy(p) ==
    upstream' = IF upstream[p] = "open" THEN [upstream EXCEPT ![p] = "terminated"] ELSE upstream

(* stop() up to its await, for restart() and for dispose().                *)
BeginStop(c, where) ==
    /\ Begins(c) /\ tracked # 0 /\ At(c, where)
    /\ callState' = [callState EXCEPT ![c] = tracked]
    /\ life' = [life EXCEPT ![tracked] = "STOPPING"]
    /\ ticking' = ticking \ {tracked}
    /\ StopProxy(proxyOf[tracked])
    /\ UNCHANGED <<tracked, proxyStatus, proxyOf, targeted, checks, polls, server, blind,
                   callProxy, failed>>

RestartFromNone(c) ==
    /\ Begins(c) /\ tracked = 0 /\ At(c, "fetching")
    /\ UNCHANGED <<devStates, devProxies, callState, callProxy, failed>>

Restart(c) == BeginStop(c, "stopping") \/ RestartFromNone(c)
DisposeTools(c) == BeginStop(c, "disposing")

Closed(s) == server' = [server EXCEPT ![proxyOf[s]] = "closed"]

(* Mutant: the server of the proxy is not closed.                          *)
StopEndsBound(c) ==
    /\ call[c] \in {"stopping", "disposing"} /\ tracked' = 0
    /\ At(c, IF call[c] = "stopping" THEN "fetching" ELSE "done")
    /\ UNCHANGED <<life, proxyStatus, proxyOf, targeted, ticking, checks, polls, devProxies,
                   callState, callProxy, overlapped, failed>>

(* proxy.stop() is over: the worktree's entry goes, whichever it is by     *)
(* now, and restart() begins its start().                                  *)
StopEnds(c) ==
    /\ call[c] \in {"stopping", "disposing"}
    /\ Closed(callState[c]) /\ tracked' = 0
    /\ At(c, IF call[c] = "stopping" THEN "fetching" ELSE "done")
    /\ UNCHANGED <<life, proxyStatus, proxyOf, targeted, ticking, checks, polls, upstream, blind,
                   callState, callProxy, overlapped, failed>>

(* A proxy is made and its server bound.                                   *)
MakeProxy(c, hasTarget) ==
    LET p == Lowest(FreshProxies)
    IN /\ FreshProxies # {}
       /\ server' = [server EXCEPT ![p] = "bound"]
       /\ blind' = IF hasTarget THEN blind ELSE blind \cup {p}
       /\ callProxy' = [callProxy EXCEPT ![c] = p]

Fetched(c, hasTarget) ==
    /\ call[c] = "fetching" /\ At(c, "opening")
    /\ MakeProxy(c, hasTarget)
    /\ UNCHANGED <<devStates, upstream, callState, overlapped, failed>>

(* Close events of terminated sockets come before the next socket opens.   *)
NoneTerminated == \A p \in Proxies : upstream[p] # "terminated"

(* start() goes on: the state replaces what the map has by now.            *)
Started(c) ==
    LET p == callProxy[c]
        s == Lowest(FreshStates)
        sighted == p \notin blind
    IN /\ call[c] = "opening" /\ NoneTerminated /\ FreshStates # {} /\ At(c, "done")
       /\ upstream' = IF sighted THEN [upstream EXCEPT ![p] = "open"] ELSE upstream
       /\ tracked' = s /\ ticking' = ticking \cup {s}
       /\ proxyOf' = [proxyOf EXCEPT ![s] = p]
       /\ targeted' = IF sighted THEN targeted \cup {s} ELSE targeted
       /\ life' = [life EXCEPT ![s] = IF sighted THEN "RUNNING" ELSE "IDLE"]
       /\ proxyStatus' = [proxyStatus EXCEPT ![s] = IF sighted THEN "connected" ELSE "no-target"]
       /\ UNCHANGED <<checks, polls, server, blind, callState, callProxy, overlapped, failed>>

(* The upstream does not open: the proxy is forgotten with its server      *)
(* bound.                                                                  *)
OpeningFails(c) ==
    /\ call[c] \in {"opening", "reopening"} /\ NoneTerminated
    /\ callProxy[c] \notin blind /\ At(c, "done")
    /\ failed' = failed \cup {callProxy[c]}
    /\ UpstreamClosed(callProxy[c])
    /\ UNCHANGED <<tracked, proxyOf, targeted, ticking, polls, devProxies, callState, callProxy,
                   overlapped>>

(* selectTarget(): another target of the list is chosen.                   *)
SelectTarget(c) ==
    /\ Begins(c) /\ tracked # 0 /\ At(c, "swapping")
    /\ callState' = [callState EXCEPT ![c] = tracked]
    /\ targeted' = targeted \cup {tracked}
    /\ StopProxy(proxyOf[tracked])
    /\ UNCHANGED <<tracked, life, proxyStatus, proxyOf, ticking, checks, polls, server, blind,
                   callProxy, failed>>

(* The old proxy is stopped; the new one opens its upstream.               *)
Swapped(c) ==
    /\ call[c] = "swapping" /\ At(c, "reopening")
    /\ LET p == Lowest(FreshProxies)
       IN /\ FreshProxies # {}
          /\ server' = [server EXCEPT ![proxyOf[callState[c]]] = "closed", ![p] = "bound"]
          /\ callProxy' = [callProxy EXCEPT ![c] = p]
    /\ UNCHANGED <<devStates, upstream, blind, callState, overlapped, failed>>

(* The state refers to the new proxy, if it is still in use or not.        *)
Reopened(c) ==
    LET s == callState[c]
        p == callProxy[c]
    IN /\ call[c] = "reopening" /\ NoneTerminated /\ At(c, "done")
       /\ upstream' = [upstream EXCEPT ![p] = "open"]
       /\ proxyOf' = [proxyOf EXCEPT ![s] = p]
       /\ life' = [x \in States |-> IF x \in {s, tracked} THEN "RUNNING" ELSE life[x]]
       /\ proxyStatus' = [x \in States |-> IF x \in {s, tracked} THEN "connected"
                                                                ELSE proxyStatus[x]]
       /\ UNCHANGED <<tracked, targeted, ticking, checks, polls, server, blind, callState,
                      callProxy, overlapped, failed>>

DevNext ==
    \/ \E p \in Proxies : UpstreamDrops(p) \/ \E ok \in BOOLEAN : FrontendConnects(p, ok)
    \/ \E s \in States : \/ Poll(s)
                         \/ \E listed \in BOOLEAN : CheckResolves(s, listed)
                                                    \/ PollResolves(s, listed)
    \/ MetroEnds
    \/ \E c \in Calls : \/ Restart(c) \/ DisposeTools(c) \/ StopEnds(c) \/ Started(c)
                        \/ OpeningFails(c) \/ SelectTarget(c) \/ Swapped(c) \/ Reopened(c)
                        \/ \E hasTarget \in BOOLEAN : Fetched(c, hasTarget)
DevSpec == DevInit /\ [][DevNext]_devVars

-----------------------------------------------------------------------------
(* A proxy that is bound is the tracked state's, or some call still holds  *)
(* it.  It is lost, with its port, its timers and the one debugger session *)
(* the device allows, only by a start() that was rejected, or when two     *)
(* calls overlap (devtools.ts:179-183, 276-291, 305-310).                  *)
ProxiesAreTracked ==
    ~overlapped =>
        \A p \in Proxies : server[p] = "bound" =>
            \/ p \in failed
            \/ tracked # 0 /\ proxyOf[tracked] = p
            \/ \E c \in Busy : p \in {callProxy[c]} \cup {proxyOf[s] : s \in {callState[c]} \ {0}}

(* "connected" is not said of an upstream that is gone: while no call is   *)
(* under way and none has overlapped, it is open (devtools.ts:578-604).    *)
ConnectedMeansOpen ==
    ~overlapped /\ Busy = {} /\ tracked # 0 /\ proxyStatus[tracked] = "connected"
        => \/ upstream[proxyOf[tracked]] = "open"
           \/ \E p \in failed : upstream[p] = "open"

(* No proxy is lost, and none that is lost is reported.                    *)
ProxiesAreTheirs == ProxiesAreTracked /\ ConnectedMeansOpen

(* "preempted" says that somebody else holds the upstream open             *)
(* (devtools.ts:81-87), not the proxy itself.                              *)
PreemptedByOthers ==
    ~overlapped /\ Busy = {} /\ tracked # 0 /\ proxyStatus[tracked] = "preempted"
        => upstream[proxyOf[tracked]] # "open"
==============================================================================

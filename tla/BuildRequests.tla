---------------------------- MODULE BuildRequests -----------------------------
(***************************************************************************)
(* The builder/build request (handleBuilderBuild of src/daemon/            *)
(* client-rpcs.ts), the Builder of src/core/builder.ts and the two hooks   *)
(* around a build.  A request fires build/pre, arranges build/post for the *)
(* next `done` of the Builder, and starts the build; a session has its own *)
(* Builder, and dispose() does not cancel it.                              *)
(***************************************************************************)
EXTENDS Naturals, FiniteSets

CONSTANTS
    Requests,      \* builder/build requests
    MaxSessions,   \* bound on sessions
    NoRequest

ASSUME NoRequestAssumption == NoRequest \notin Requests
ASSUME SessionBound == MaxSessions \in Nat \ {0}

VARIABLES
    session,    \* the session whose services are wired; 0 is none
    begun,      \* sessions begun so far
    request,    \* how far each request is
    services,   \* the session whose services each request holds
    process,    \* Builder.process of each session: the request it builds for
    awaiting,   \* each Builder's once("done") listeners
    build,      \* what came of each request's build
    post,       \* how far each request's build/post is
    early,      \* history: requests whose build/post fired while they built
    refused     \* history: requests that were being built when another was
                \* refused, per the guard against concurrent builds

builder == <<process, awaiting, build, post, early, refused>>
buildVars == <<session, begun, request, services, builder>>

Sessions == 1..MaxSessions
Building == {r \in Requests : build[r] = "running"}

BuildTypeOK ==
    /\ session \in 0..MaxSessions /\ begun \in 0..MaxSessions
    /\ request \in [Requests -> {"idle", "pre", "down", "hookFailed", "answered"}]
    /\ services \in [Requests -> 0..MaxSessions]
    /\ process \in [Sessions -> Requests \cup {NoRequest}]
    /\ awaiting \in [Sessions -> SUBSET Requests]
    /\ build \in [Requests -> {"none", "running", "refused", "unspawned", "done"}]
    /\ post \in [Requests -> {"none", "fired", "settled"}]
    /\ early \subseteq Requests /\ refused \subseteq Requests

BuildInit ==
    /\ session = 0 /\ begun = 0
    /\ request = [r \in Requests |-> "idle"]
    /\ services = [r \in Requests |-> 0]
    /\ process = [s \in Sessions |-> NoRequest]
    /\ awaiting = [s \in Sessions |-> {}]
    /\ build = [r \in Requests |-> "none"]
    /\ post = [r \in Requests |-> "none"]
    /\ early = {} /\ refused = {}

Answer(r, how) == request' = [request EXCEPT ![r] = how]

-----------------------------------------------------------------------------
SessionRuns ==
    /\ session = 0 /\ begun < MaxSessions
    /\ begun' = begun + 1 /\ session' = begun'
    /\ UNCHANGED <<request, services, builder>>

(* The services are disposed of, the Builder among them is left alone.     *)
SessionEnds ==
    /\ session # 0 /\ session' = 0
    /\ UNCHANGED <<begun, request, services, builder>>

(* handleClientRpc() takes the wired services before anything is awaited.  *)
RequestBuild(r) ==
    /\ request[r] = "idle"
    /\ \/ session = 0 /\ Answer(r, "down") /\ UNCHANGED services
       \/ /\ session # 0 /\ Answer(r, "pre")
          /\ services' = [services EXCEPT ![r] = session]
    /\ UNCHANGED <<session, begun, builder>>

PreHookFails(r) ==
    /\ request[r] = "pre" /\ Answer(r, "hookFailed")
    /\ UNCHANGED <<session, begun, services, builder>>

(* `done` is emitted: every listener that waits for it fires build/post,   *)
(* whichever build it is.                                                  *)
EmitDone(s, listeners, running) ==
    /\ awaiting' = [awaiting EXCEPT ![s] = {}]
    /\ post' = [r \in Requests |-> IF r \in listeners THEN "fired" ELSE post[r]]
    /\ early' = early \cup (listeners \cap running)

(* Mutant: the Builder without its guard: the process is overwritten.              *)
PreHookPassesUnguarded(r) ==
    LET s == services[r]
    IN /\ request[r] = "pre" /\ Answer(r, "answered")
       /\ process' = [process EXCEPT ![s] = r]
       /\ build' = [build EXCEPT ![r] = "running"]
       /\ awaiting' = [awaiting EXCEPT ![s] = @ \cup {r}]
       /\ UNCHANGED <<session, begun, services, post, early, refused>>

(* build/pre is through: the listener is put up, and build() begins, or    *)
(* refuses because a process runs, or cannot spawn one.  The last two emit *)
(* `done` at once.                                                         *)
PreHookPasses(r) ==
    LET s == services[r]
        listeners == awaiting[s] \cup {r}
    IN /\ request[r] = "pre" /\ Answer(r, "answered")
       /\ \/ /\ process[s] # NoRequest
             /\ build' = [build EXCEPT ![r] = "refused"]
             /\ refused' = refused \cup {process[s]}
             /\ EmitDone(s, listeners, Building)
             /\ UNCHANGED process
          \/ /\ process[s] = NoRequest
             /\ build' = [build EXCEPT ![r] = "unspawned"]
             /\ EmitDone(s, listeners, Building)
             /\ UNCHANGED <<process, refused>>
          \/ /\ process[s] = NoRequest
             /\ process' = [process EXCEPT ![s] = r]
             /\ build' = [build EXCEPT ![r] = "running"]
             /\ awaiting' = [awaiting EXCEPT ![s] = listeners]
             /\ UNCHANGED <<post, early, refused>>
       /\ UNCHANGED <<session, begun, services>>

BuildExits(r) ==
    /\ build[r] = "running"
    /\ build' = [build EXCEPT ![r] = "done"]
    /\ EmitDone(services[r], awaiting[services[r]], Building \ {r})
    /\ process' = [process EXCEPT ![services[r]] = NoRequest]
    /\ UNCHANGED <<session, begun, request, services, refused>>

(* build/post is not awaited by anyone; its failure is swallowed.          *)
PostHookSettles(r) ==
    /\ post[r] = "fired" /\ post' = [post EXCEPT ![r] = "settled"]
    /\ UNCHANGED <<session, begun, request, services, process, awaiting, build, early, refused>>

BuildNext ==
    \/ SessionRuns \/ SessionEnds
    \/ \E r \in Requests : \/ RequestBuild(r) \/ PreHookFails(r) \/ PreHookPasses(r)
                           \/ BuildExits(r) \/ PostHookSettles(r)

(* Hooks settle, by themselves or by their timeout; builds end.            *)
BuildFairness ==
    /\ \A r \in Requests : WF_buildVars(PreHookFails(r) \/ PreHookPasses(r))
    /\ \A r \in Requests : WF_buildVars(BuildExits(r))
BuildSpec == BuildInit /\ [][BuildNext]_buildVars /\ BuildFairness

-----------------------------------------------------------------------------
(* Two builds of the worktree run at once only when the session of one of  *)
(* them has ended under it: neither its build nor a request that waited    *)
(* for build/pre is called off (boot.ts:504-525, client-rpcs.ts:180-215).  *)
BuildsOverlapAcrossSessions ==
    \A r1, r2 \in Building : r1 # r2 => services[r1] # services[r2]

(* A build's post hook fires while the build still runs only if another    *)
(* request was refused meanwhile, whose `done` it takes for its own.       *)
PostFiresEarlyByRefusal == early \subseteq refused

(* A build overlaps another, or its post hook comes early, in those ways   *)
(* alone.                                                                  *)
BuildsAreApart == BuildsOverlapAcrossSessions /\ PostFiresEarlyByRefusal
==============================================================================

-------------------------- MODULE DaemonSupervisor --------------------------
(***************************************************************************)
(* The DaemonSupervisor of src/daemon/supervisor.ts: the one session a     *)
(* worktree's daemon owns, its boots, and the set of attached connections  *)
(* that keeps it alive.                                                    *)
(*                                                                         *)
(* The class is written with async methods on one JavaScript thread, so an *)
(* action is the code between two awaits.  Every await is a point where    *)
(* other calls run: the boot function, the two dispose() calls, and the    *)
(* short one in attach() between the return of start() and the connection  *)
(* entering the set.  That last window lasts one microtask: no timer and   *)
(* no other socket is served in it, only what the same socket chunk still  *)
(* holds (the IPC server emits all the lines of a chunk in one loop).      *)
(* Pipelined says whether a client ever writes such a chunk; the ones of   *)
(* this repository await each reply and do not.                            *)
(***************************************************************************)
EXTENDS Naturals

CONSTANTS
    Conns,      \* connection ids of the IPC server
    Profiles,   \* profiles a client may ask for (name and worktree)
    NoConn,     \* no connection
    NoProfile,  \* activeProfile = null
    MaxEpoch,   \* bound on bootEpoch: start() is not called beyond it
    Pipelined   \* a chunk may hold a session/stop behind the subscribe

ASSUME NoConnAssumption == NoConn \notin Conns
ASSUME NoProfileAssumption == NoProfile \notin Profiles
ASSUME MaxEpochAssumption == MaxEpoch \in Nat
ASSUME PipelinedAssumption == Pipelined \in BOOLEAN

VARIABLES
    status,         \* state.status
    bootEpoch,      \* bootEpoch
    activeProfile,  \* activeProfile
    attached,       \* attachedConnections
    wired,          \* wired.epoch, 0 for null
    bootInFlight,   \* the boot bootInFlight stands for, 0 for null
    booting,        \* boots whose bootFn has not settled
    discarding,     \* overtaken boots awaiting services.dispose()
    live,           \* boots whose services exist, not disposed
    stopPc,         \* stop(): "idle", "join" (await inFlight) or "dispose"
    taken,          \* stop(): the epoch of the services it took, 0 for none
    resuming,       \* the attach() awaiting start(), NoConn for none
    bare,           \* history: the session was begun by start() alone
    asked           \* history: the profile of a connection's last attach

session == <<status, bootEpoch, activeProfile, bare>>
boots == <<bootInFlight, booting, discarding>>
teardown == <<stopPc, taken>>
vars == <<status, bootEpoch, activeProfile, attached, wired, bootInFlight,
          booting, discarding, live, stopPc, taken, resuming, bare, asked>>

Epochs == 1..MaxEpoch   \* the ones start() hands out

TypeOK ==
    /\ status \in {"stopped", "starting", "running", "stopping"}
    /\ bootEpoch \in Nat
    /\ activeProfile \in Profiles \cup {NoProfile}
    /\ attached \subseteq Conns
    /\ wired \in Nat /\ bootInFlight \in Nat
    /\ booting \subseteq Nat /\ discarding \subseteq Nat
    /\ live \subseteq Nat
    /\ stopPc \in {"idle", "join", "dispose"}
    /\ taken \in Nat
    /\ resuming \in Conns \cup {NoConn}
    /\ bare \in BOOLEAN
    /\ asked \in [Conns -> Profiles \cup {NoProfile}]

Init ==
    /\ status = "stopped"
    /\ bootEpoch = 0
    /\ activeProfile = NoProfile
    /\ attached = {}
    /\ wired = 0
    /\ bootInFlight = 0
    /\ booting = {}
    /\ discarding = {}
    /\ live = {}
    /\ stopPc = "idle"
    /\ taken = 0
    /\ resuming = NoConn
    /\ bare = FALSE
    /\ asked = [c \in Conns |-> NoProfile]

(* No attach() is between its two halves: any event may be served.         *)
Quiet == resuming = NoConn

-----------------------------------------------------------------------------
(* Mutant: start() refuses a session that runs, but not one that stops.    *)
BeginBootWhileStopping(p) ==
    /\ status \in {"stopped", "stopping"}
    /\ bootEpoch < MaxEpoch
    /\ bootEpoch' = bootEpoch + 1
    /\ activeProfile' = p
    /\ status' = "starting"
    /\ booting' = booting \cup {bootEpoch'}
    /\ bootInFlight' = bootEpoch'
    /\ UNCHANGED <<wired, discarding, live, teardown>>

(* start(): only from "stopped"; the boot runs on behind the reply.        *)
BeginBoot(p) ==
    /\ status = "stopped"
    /\ bootEpoch < MaxEpoch
    /\ bootEpoch' = bootEpoch + 1
    /\ activeProfile' = p
    /\ status' = "starting"
    /\ booting' = booting \cup {bootEpoch'}
    /\ bootInFlight' = bootEpoch'
    /\ UNCHANGED <<wired, discarding, live, teardown>>

(* The session/start RPC: nobody is attached.                              *)
Start(p) ==
    /\ Quiet
    /\ BeginBoot(p)
    /\ bare' = TRUE
    /\ UNCHANGED <<attached, resuming, asked>>

(* attach() on a stopped session, up to `await this.start(opts)`.          *)
AttachFirst(c, p) ==
    /\ Quiet
    /\ BeginBoot(p)
    /\ bare' = FALSE
    /\ resuming' = c
    /\ asked' = [asked EXCEPT ![c] = p]
    /\ UNCHANGED attached

(* The rest of that attach(), one microtask later.                         *)
AttachResume ==
    /\ resuming # NoConn
    /\ attached' = attached \cup {resuming}
    /\ resuming' = NoConn
    /\ UNCHANGED <<session, wired, boots, live, teardown, asked>>

(* Mutant: the second attacher's profile is not compared.                  *)
AttachJoinAnyProfile(c, p) ==
    /\ Quiet
    /\ status \in {"starting", "running"}
    /\ attached' = attached \cup {c}
    /\ asked' = [asked EXCEPT ![c] = p]
    /\ UNCHANGED <<session, wired, boots, live, teardown, resuming>>

(* attach() on a session that boots or runs: the profiles have to agree.   *)
(* On "stopping", and on another profile, it answers with an error and     *)
(* changes nothing.                                                        *)
AttachJoin(c, p) ==
    /\ Quiet
    /\ status \in {"starting", "running"}
    /\ activeProfile \in {NoProfile, p}
    /\ attached' = attached \cup {c}
    /\ asked' = [asked EXCEPT ![c] = p]
    /\ UNCHANGED <<session, wired, boots, live, teardown, resuming>>

-----------------------------------------------------------------------------
(* stop() on a session that boots or runs, up to `await inFlight`.  The    *)
(* new epoch disowns the boot that may be under way.                       *)
BeginStop ==
    /\ status \in {"starting", "running"}
    /\ bootEpoch' = bootEpoch + 1
    /\ attached' = {}
    /\ status' = "stopping"
    /\ stopPc' = "join"
    /\ UNCHANGED <<activeProfile, bare, wired, boots, live, taken>>

(* stop() as session/stop or a shutdown calls it.  On "stopping" it        *)
(* returns at once, without waiting for the teardown under way.            *)
Stop ==
    /\ Quiet \/ Pipelined
    /\ \/ BeginStop
       \/ /\ status = "stopped"
          /\ attached' = {}
          /\ UNCHANGED <<session, wired, boots, live, teardown>>
    /\ UNCHANGED <<resuming, asked>>

(* Mutant: the last release stops a session that runs, not one that boots. *)
ReleaseOnlyRunning(c) ==
    /\ Quiet
    /\ c \in attached
    /\ IF attached = {c} /\ status = "running"
         THEN BeginStop
         ELSE /\ attached' = attached \ {c}
              /\ UNCHANGED <<session, wired, boots, live, teardown>>
    /\ UNCHANGED <<resuming, asked>>

(* release(): the last attached connection to go stops the session.  One   *)
(* that is not attached changes nothing.                                   *)
Release(c) ==
    /\ Quiet
    /\ c \in attached
    /\ IF attached = {c} /\ status \in {"starting", "running"}
         THEN BeginStop
         ELSE /\ attached' = attached \ {c}
              /\ UNCHANGED <<session, wired, boots, live, teardown>>
    /\ UNCHANGED <<resuming, asked>>

(* Mutant: stop() does not await the boot in flight.                       *)
StopNotJoined ==
    /\ Quiet
    /\ stopPc = "join"
    /\ activeProfile' = NoProfile
    /\ taken' = wired
    /\ wired' = 0
    /\ IF wired = 0
         THEN stopPc' = "idle" /\ status' = "stopped"
         ELSE stopPc' = "dispose" /\ UNCHANGED status
    /\ UNCHANGED <<bootEpoch, bare, attached, boots, live, resuming, asked>>

(* stop(), its wait for the boot over: take the services, or be done.      *)
StopJoined ==
    /\ Quiet
    /\ stopPc = "join"
    /\ bootInFlight \notin booting \cup discarding
    /\ activeProfile' = NoProfile
    /\ taken' = wired
    /\ wired' = 0
    /\ IF wired = 0
         THEN stopPc' = "idle" /\ status' = "stopped"
         ELSE stopPc' = "dispose" /\ UNCHANGED status
    /\ UNCHANGED <<bootEpoch, bare, attached, boots, live, resuming, asked>>

(* stop(), the services it took disposed of.                               *)
StopDisposed ==
    /\ Quiet
    /\ stopPc = "dispose"
    /\ live' = live \ {taken}
    /\ taken' = 0
    /\ stopPc' = "idle"
    /\ status' = "stopped"
    /\ UNCHANGED <<bootEpoch, activeProfile, bare, attached, wired, boots,
                   resuming, asked>>

-----------------------------------------------------------------------------
(* bootFn returns services and the boot is still the current one.          *)
BootReady(e) ==
    /\ Quiet
    /\ e \in booting
    /\ e = bootEpoch
    /\ booting' = booting \ {e}
    /\ live' = live \cup {e}
    /\ wired' = e
    /\ status' = "running"
    /\ UNCHANGED <<bootEpoch, activeProfile, bare, attached, bootInFlight,
                   discarding, teardown, resuming, asked>>

(* bootFn returns services after a stop(): they are not wired, and the     *)
(* boot goes on until they are disposed of.                                *)
BootOvertaken(e) ==
    /\ Quiet
    /\ e \in booting
    /\ e # bootEpoch
    /\ booting' = booting \ {e}
    /\ live' = live \cup {e}
    /\ discarding' = discarding \cup {e}
    /\ UNCHANGED <<session, attached, wired, bootInFlight, teardown, resuming,
                   asked>>

BootDiscarded(e) ==
    /\ Quiet
    /\ e \in discarding
    /\ discarding' = discarding \ {e}
    /\ live' = live \ {e}
    /\ UNCHANGED <<session, attached, wired, bootInFlight, booting, teardown,
                   resuming, asked>>

(* Mutant: a boot that fails stops the session even if it was overtaken.   *)
BootFailAnyEpoch(e) ==
    /\ Quiet
    /\ e \in booting
    /\ booting' = booting \ {e}
    /\ activeProfile' = NoProfile
    /\ attached' = {}
    /\ status' = "stopped"
    /\ UNCHANGED <<bootEpoch, bare, wired, bootInFlight, discarding, live,
                   teardown, resuming, asked>>

(* bootFn throws.  Only the current boot may touch the session; one that   *)
(* was overtaken leaves it to the stop() that waits for it.                *)
BootFail(e) ==
    /\ Quiet
    /\ e \in booting
    /\ booting' = booting \ {e}
    /\ IF e = bootEpoch
         THEN /\ activeProfile' = NoProfile
              /\ attached' = {}
              /\ status' = "stopped"
         ELSE UNCHANGED <<activeProfile, attached, status>>
    /\ UNCHANGED <<bootEpoch, bare, wired, bootInFlight, discarding, live,
                   teardown, resuming, asked>>

-----------------------------------------------------------------------------
Settle(e) == BootReady(e) \/ BootOvertaken(e) \/ BootFail(e)

Next ==
    \/ \E p \in Profiles : Start(p)
    \/ \E c \in Conns, p \in Profiles : AttachFirst(c, p) \/ AttachJoin(c, p)
    \/ AttachResume
    \/ \E c \in Conns : Release(c)
    \/ Stop
    \/ StopJoined
    \/ StopDisposed
    \/ \E e \in Epochs : Settle(e) \/ BootDiscarded(e)

(* Microtasks and the continuations of settled promises always run, and the *)
(* boot function and dispose() are assumed to settle.  Nobody is obliged to *)
(* attach, to release or to stop.                                          *)
Fairness ==
    /\ WF_vars(AttachResume)
    /\ WF_vars(StopJoined)
    /\ WF_vars(StopDisposed)
    /\ \A e \in Epochs : WF_vars(Settle(e)) /\ WF_vars(BootDiscarded(e))

Safety == Init /\ [][Next]_vars

Spec == Safety /\ Fairness

-----------------------------------------------------------------------------
(* No services outlive the session: whatever was booted and not disposed   *)
(* of is what the session runs with, what stop() is disposing of, or an    *)
(* overtaken boot on its way out, and a stopped session has none of them.  *)
NoOrphanServices ==
    /\ live = ({wired, taken} \cup discarding) \ {0}
    /\ status = "stopped" => live \cup booting = {}

(* Two boots never overlap, and no boot starts over services still alive:  *)
(* the ports, the Metro child and the module host of a worktree are        *)
(* exclusive.                                                              *)
OneBootAtATime ==
    \A e, f \in booting \cup live : e = f

(* A session that came up through attach() is held by someone: once no     *)
(* connection is attached it is on its way down, so none runs on forever   *)
(* with nobody to stop it.                                                 *)
RefcountHoldsSession ==
    status \in {"starting", "running"} /\ ~bare /\ Quiet => attached # {}

(* "second attacher must not silently end up with a different session than *)
(* they asked for" (attach()): every attached connection asked for the     *)
(* profile that is running.                                                *)
AttachersAgree ==
    \A c \in attached : asked[c] = activeProfile

(* The comments of stop() and of the failed boot: a stale entry must not   *)
(* survive the session it was attached to.                                 *)
NobodyAttachedWhenDown ==
    status \in {"stopping", "stopped"} => attached = {}

(* The abstract view: the status is the same, and services exist.          *)
Ladder == INSTANCE SessionLadder WITH holding <- live # {}

(* The supervisor keeps the promises of SessionLadder, fairness included.  *)
ImplementsLadder == Ladder!Spec

=============================================================================

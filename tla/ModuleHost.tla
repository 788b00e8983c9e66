------------------------------ MODULE ModuleHost ------------------------------
(***************************************************************************)
(* One (module, scope unit) of the ModuleHostManager of                    *)
(* src/core/module-host/manager.ts: the key of its map, the subprocesses   *)
(* spawned for it, and the requests of src/app/modules-ipc.ts that acquire,*)
(* release, restart and shut it down.  The manager runs on one thread, so  *)
(* a step is what it does from one await, timer or event to the next.      *)
(*                                                                         *)
(* A subprocess, its ModuleInstance and its InternalEntry are numbered     *)
(* alike, in the order of their spawns.  The supervisor of an entry is     *)
(* attached exactly while its instance is active: it is attached when the  *)
(* handshake ends, and a stop, which detaches it, leaves "active" in the   *)
(* same step.  It counts the crashes of one instance, which has one.       *)
(***************************************************************************)
EXTENDS Naturals

CONSTANTS
    Callers,    \* requests to the daemon; each runs once
    MaxSpawns   \* bound: subprocesses spawned for the key

ASSUME SpawnsAssumption == MaxSpawns \in Nat \ {0}
ASSUME CallersAssumption == Callers \cap Nat = {}  \* a request is no instance
ASSUME StoppersAssumption == Callers \cap {"idle", "all"} = {}

VARIABLES
    global,     \* the module's scope is "global": released, it stays a while
    state,      \* ModuleInstance.state
    proc,       \* the subprocess
    origin,     \* who had it spawned: a caller, or the instance it replaces
    entry,      \* the entry the map has for the key, 0 when it has none
    consumers,  \* InternalEntry.consumers
    handle,     \* InternalEntry.idleTimer: the entry that timer will stop
    timers,     \* the entries whose idle timer has not fired
    stops,      \* calls of stopEntry() that wait: the entry and who called
    caller,     \* how far each request is
    holds,      \* the entry whose rpc a request was handed
    closing,    \* shutdownAll() was called
    overlaps    \* history: what began while something else was under way

subprocess == <<state, proc, origin>>
refs == <<consumers, handle, timers>>
managerVars == <<global, subprocess, entry, refs, stops, caller, holds, closing, overlaps>>

Spawns == 1..MaxSpawns
Stoppers == Callers \cup {"idle", "all"}
Overlaps == {"two acquires", "crash while idle", "stop during respawn",
             "armed on a dead entry", "two stops of a dead entry"}

ManagerTypeOK ==
    /\ global \in BOOLEAN /\ closing \in BOOLEAN
    /\ state \in [Spawns -> {"unborn", "handshaking", "active", "stopping",
                             "idle", "crashed"}]
    /\ proc \in [Spawns -> {"unborn", "booting", "ready", "exited", "gone"}]
    /\ origin \in [Spawns -> Callers \cup Spawns \cup {0}]
    /\ entry \in Spawns \cup {0}
    /\ consumers \in [Spawns -> SUBSET Callers]
    /\ handle \in [Spawns -> Spawns \cup {0}]
    /\ timers \subseteq Spawns
    /\ stops \subseteq Spawns \X Stoppers
    /\ caller \in [Callers -> {"idle", "restarting", "shutting", "acquiring",
                               "spawning", "holding", "releasing", "done"}]
    /\ holds \in [Callers -> Spawns \cup {0}]
    /\ overlaps \subseteq Overlaps

ManagerInit ==
    /\ global \in BOOLEAN
    /\ state = [n \in Spawns |-> "unborn"]
    /\ proc = [n \in Spawns |-> "unborn"]
    /\ origin = [n \in Spawns |-> 0]
    /\ entry = 0
    /\ consumers = [n \in Spawns |-> {}]
    /\ handle = [n \in Spawns |-> 0]
    /\ timers = {} /\ stops = {} /\ overlaps = {}
    /\ caller = [c \in Callers |-> "idle"]
    /\ holds = [c \in Callers |-> 0]
    /\ closing = FALSE

Fresh(n) == state[n] = "unborn" /\ \A m \in 1..(n - 1) : state[m] # "unborn"
Alive(n) == proc[n] \in {"booting", "ready"}
Stopping(e) == \E w \in Stoppers : <<e, w>> \in stops
Respawning(e) == \E n \in Spawns : origin[n] = e /\ state[n] = "handshaking"
Noted(cond, what) == overlaps' = overlaps \cup {o \in {what} : cond}
Status(c, s) == caller' = [caller EXCEPT ![c] = s]

-----------------------------------------------------------------------------
(* acquire() of an entry the map has: no look at the instance's state.     *)
Reuse(c) ==
    /\ consumers' = [consumers EXCEPT ![entry] = @ \cup {c}]
    /\ timers' = timers \ {handle[entry]}
    /\ handle' = [handle EXCEPT ![entry] = 0]

AcquireExisting(c) ==
    /\ caller[c] \in {"idle", "acquiring"} /\ entry # 0
    /\ Reuse(c)
    /\ Status(c, "holding")
    /\ holds' = [holds EXCEPT ![c] = entry]
    /\ UNCHANGED <<global, subprocess, entry, stops, closing, overlaps>>

(* acquire() of a key the map does not have: spawnEntry() up to its await. *)
AcquireSpawns(c) ==
    /\ caller[c] \in {"idle", "acquiring"} /\ entry = 0
    /\ \E n \in Spawns :
         /\ Fresh(n)
         /\ state' = [state EXCEPT ![n] = "handshaking"]
         /\ proc' = [proc EXCEPT ![n] = "booting"]
         /\ origin' = [origin EXCEPT ![n] = c]
    /\ Status(c, "spawning")
    /\ Noted(\E m \in Spawns : state[m] = "handshaking", "two acquires")
    /\ UNCHANGED <<global, entry, refs, stops, holds, closing>>

(* spawner.spawn() throws: the request fails.                              *)
AcquireThrows(c) ==
    /\ caller[c] \in {"idle", "acquiring"} /\ entry = 0
    /\ Status(c, "done")
    /\ UNCHANGED <<global, subprocess, entry, refs, stops, holds, closing, overlaps>>

(* The subprocess answers "initialize"; the answer is in the pipe.         *)
Answer(n) ==
    /\ proc[n] = "booting"
    /\ proc' = [proc EXCEPT ![n] = "ready"]
    /\ UNCHANGED <<global, state, origin, entry, refs, stops, caller, holds,
                   closing, overlaps>>

(* It exits before the manager listens to its exit: nobody is told.        *)
ExitUnheard(n) ==
    /\ state[n] = "handshaking" /\ Alive(n)
    /\ proc' = [proc EXCEPT ![n] = IF @ = "ready" THEN "exited" ELSE "gone"]
    /\ UNCHANGED <<global, state, origin, entry, refs, stops, caller, holds,
                   closing, overlaps>>

(* performInitialize() rejects: a refusal, or no answer in 3 s.  The error *)
(* reaches the request; respawn() swallows it and keeps the dead entry.    *)
HandshakeFails(n) ==
    /\ state[n] = "handshaking"
    /\ state' = [state EXCEPT ![n] = "crashed"]
    /\ proc' = [proc EXCEPT ![n] = "gone"]
    /\ caller' = [c \in Callers |-> IF origin[n] = c THEN "done" ELSE caller[c]]
    /\ UNCHANGED <<global, origin, entry, refs, stops, holds, closing, overlaps>>

Activate(n) ==
    /\ state[n] = "handshaking" /\ proc[n] \in {"ready", "exited"}
    /\ state' = [state EXCEPT ![n] = "active"]
    /\ entry' = n
    /\ UNCHANGED <<global, proc, origin, timers, stops, closing, overlaps>>

(* The handshake of an acquire() ends: whatever the map has is replaced.   *)
Acquired(n) ==
    /\ Activate(n)
    /\ \E c \in Callers :
         /\ origin[n] = c
         /\ consumers' = [consumers EXCEPT ![n] = {c}]
         /\ Status(c, "holding")
         /\ holds' = [holds EXCEPT ![c] = n]
    /\ UNCHANGED handle

(* The handshake of a respawn() ends: references and idle timer go over.   *)
Respawned(n) ==
    /\ Activate(n) /\ origin[n] \in Spawns
    /\ consumers' = [consumers EXCEPT ![n] = consumers[origin[n]]]
    /\ handle' = [handle EXCEPT ![n] = handle[origin[n]]]
    /\ UNCHANGED <<caller, holds>>

-----------------------------------------------------------------------------
(* Mutant: any exit the listener hears is a crash.                         *)
OnCrashedAlways(m) == state[m] \in {"active", "stopping"} /\ proc[m] = "ready"

OnCrashed(m) == state[m] = "active" /\ proc[m] = "ready"

(* The subprocess exits by itself: crashed, and respawn() runs up to its   *)
(* await.  spawner.spawn() may throw there too.                            *)
ModuleCrashes(m) ==
    /\ OnCrashed(m)
    /\ \E n \in Spawns, thrown \in BOOLEAN :
         /\ Fresh(n)
         /\ state' = [state EXCEPT ![m] = "crashed",
                                   ![n] = IF thrown THEN "crashed" ELSE "handshaking"]
         /\ proc' = [proc EXCEPT ![m] = "gone",
                                 ![n] = IF thrown THEN "gone" ELSE "booting"]
         /\ origin' = [origin EXCEPT ![n] = m]
    /\ Noted(handle[m] \in timers, "crash while idle")
    /\ UNCHANGED <<global, entry, refs, stops, caller, holds, closing>>

-----------------------------------------------------------------------------
(* stopEntry() up to its await.                                            *)
StopEntry(e, w) ==
    /\ stops' = stops \cup {<<e, w>>}
    /\ timers' = timers \ {handle[e], e}
    /\ handle' = [handle EXCEPT ![e] = 0]
    /\ state' = [state EXCEPT ![e] = IF @ = "active" THEN "stopping" ELSE @]
    /\ overlaps' = overlaps
         \cup {o \in {"stop during respawn"} : Respawning(e)}
         \cup {o \in {"two stops of a dead entry"} : Stopping(e) /\ ~Alive(e)}

(* release() by a request whose tool call ended: it was answered, or its   *)
(* rpc was disposed, by a crash or a stop, or could not be written.        *)
CallEnds(c) == caller[c] = "holding"

ReleaseNothing(c) ==
    /\ CallEnds(c) /\ entry = 0
    /\ Status(c, "done")
    /\ UNCHANGED <<global, subprocess, entry, refs, stops, holds, closing, overlaps>>

ReleaseShared(c) ==
    /\ CallEnds(c) /\ entry # 0 /\ consumers[entry] \ {c} # {}
    /\ consumers' = [consumers EXCEPT ![entry] = @ \ {c}]
    /\ Status(c, "done")
    /\ UNCHANGED <<global, subprocess, entry, handle, timers, stops, holds,
                   closing, overlaps>>

(* scheduleIdleShutdown(): the timer's closure has this entry.             *)
ReleaseLastGlobal(c) ==
    /\ CallEnds(c) /\ entry # 0 /\ consumers[entry] \ {c} = {} /\ global
    /\ consumers' = [consumers EXCEPT ![entry] = {}]
    /\ timers' = (timers \ {handle[entry]}) \cup {entry}
    /\ handle' = [handle EXCEPT ![entry] = entry]
    /\ Status(c, "done")
    /\ Noted(state[entry] # "active", "armed on a dead entry")
    /\ UNCHANGED <<global, subprocess, entry, stops, holds, closing>>

(* Mutant: the first to leave stops it, whoever else holds it.             *)
ReleaseFirst(c) ==
    /\ CallEnds(c) /\ entry # 0 /\ ~global
    /\ consumers' = [consumers EXCEPT ![entry] = @ \ {c}]
    /\ StopEntry(entry, c)
    /\ Status(c, "releasing")
    /\ UNCHANGED <<global, proc, origin, entry, holds, closing>>

ReleaseLast(c) ==
    /\ CallEnds(c) /\ entry # 0 /\ consumers[entry] \ {c} = {} /\ ~global
    /\ consumers' = [consumers EXCEPT ![entry] = {}]
    /\ StopEntry(entry, c)
    /\ Status(c, "releasing")
    /\ UNCHANGED <<global, proc, origin, entry, holds, closing>>

(* shutdown() for modules/restart, and for disable, uninstall and update.  *)
Shutdown(c, s) ==
    /\ caller[c] = "idle" /\ entry # 0
    /\ s \in {"restarting", "shutting"}
    /\ StopEntry(entry, c)
    /\ Status(c, s)
    /\ UNCHANGED <<global, proc, origin, entry, consumers, holds, closing>>

ShutdownAll ==
    /\ ~closing /\ closing' = TRUE
    /\ IF entry = 0 THEN UNCHANGED <<state, handle, timers, stops, overlaps>>
                    ELSE StopEntry(entry, "all")
    /\ UNCHANGED <<global, proc, origin, entry, consumers, caller, holds>>

(* The idle timer of e fires; 60 s after the last, the stop is over.       *)
IdleTimeout(e) ==
    /\ e \in timers /\ <<e, "idle">> \notin stops
    /\ StopEntry(e, "idle")
    /\ UNCHANGED <<global, proc, origin, entry, consumers, caller, holds, closing>>

(* The waits ws on e are over: idle, and the key is deleted from the map,  *)
(* whatever entry the map has for it by now.                               *)
Stopped(e, ws) ==
    /\ state' = [state EXCEPT ![e] = IF @ = "stopping" THEN "idle" ELSE @]
    /\ entry' = 0
    /\ stops' = stops \ ({e} \X ws)
    /\ caller' = [c \in Callers |->
                    IF <<e, c>> \notin stops \/ c \notin ws THEN caller[c]
                    ELSE IF caller[c] = "restarting" THEN "acquiring" ELSE "done"]

(* The subprocess obeys SIGTERM, or is killed a second after it: all that  *)
(* wait for it go on.                                                      *)
StopEnds(e) ==
    /\ Stopping(e) /\ Alive(e)
    /\ proc' = [proc EXCEPT ![e] = "gone"]
    /\ Stopped(e, Stoppers)
    /\ UNCHANGED <<global, origin, refs, holds, closing, overlaps>>

(* There was no subprocess to exit: the wait lasts its full second.        *)
GraceEnds(e, w) ==
    /\ <<e, w>> \in stops /\ ~Alive(e)
    /\ Stopped(e, {w})
    /\ UNCHANGED <<global, proc, origin, refs, holds, closing, overlaps>>

-----------------------------------------------------------------------------
ManagerNext ==
    \/ \E c \in Callers :
         \/ AcquireExisting(c) \/ AcquireSpawns(c) \/ AcquireThrows(c)
         \/ ReleaseNothing(c) \/ ReleaseShared(c)
         \/ ReleaseLastGlobal(c) \/ ReleaseLast(c)
         \/ \E s \in {"restarting", "shutting"} : Shutdown(c, s)
    \/ \E n \in Spawns :
         \/ Answer(n) \/ ExitUnheard(n) \/ HandshakeFails(n)
         \/ Acquired(n) \/ Respawned(n) \/ ModuleCrashes(n)
         \/ IdleTimeout(n) \/ StopEnds(n)
         \/ \E w \in Stoppers : GraceEnds(n, w)
    \/ ShutdownAll

ManagerSafety == ManagerInit /\ [][ManagerNext]_managerVars

-----------------------------------------------------------------------------
(* A subprocess nobody will ever stop: it runs, the map does not have it,  *)
(* and neither a handshake, nor a stop, nor an idle timer is left for it.  *)
Orphan(n) ==
    /\ Alive(n) /\ state[n] # "handshaking"
    /\ entry # n /\ ~Stopping(n) /\ n \notin timers

(* The manager loses a running subprocess only after one of five overlaps: *)
(* without them, whatever crashes, stops and restarts there were, each     *)
(* subprocess is in the map or on its way in or out.                       *)
LostOnlyByOverlap == (\E n \in Spawns : Orphan(n)) => overlaps # {}

(* The idle timer of the entry in the map runs only while nobody holds it: *)
(* acquire() cancels it, across respawns too.                              *)
IdleTimerMeansUnused ==
    entry # 0 /\ handle[entry] \in timers => consumers[entry] = {}

LineOf(n) == LET line[m \in Spawns] ==
                   IF origin[m] \in 1..(m - 1) THEN line[origin[m]] ELSE m
             IN line[n]

(* Who holds an instance is counted by the entry that replaced it, through *)
(* any number of crashes and whoever came and went during the respawns.    *)
HolderIsCounted ==
    \A c \in Callers :
        caller[c] = "holding" /\ entry # 0 /\ LineOf(entry) = LineOf(holds[c])
            => c \in consumers[entry]

(* A module in use is not stopped under its holder.                        *)
HoldersKeepModule == IdleTimerMeansUnused /\ HolderIsCounted

(* What was stopped on purpose is not taken for crashed and respawned.     *)
StoppedIsNotRespawned ==
    [][\A e, n \in Spawns :
         Stopping(e) /\ Alive(e) /\ origin[n] # e => origin'[n] # e]_managerVars

(* To its users a key is one service: the entry in the map serves whom it  *)
(* counts.  As long as no two things overlapped, it is replaced only when  *)
(* it is down, and dropped only when nobody uses it or somebody asked for  *)
(* that, whatever crashes and timers there are (manager.ts:182-187,        *)
(* 245-302, 480-577).                                                      *)
AskedFor(e) ==
    \/ <<e, "all">> \in stops
    \/ \E c \in Callers : <<e, c>> \in stops /\ caller[c] \in {"restarting", "shutting"}
Runs == entry # 0 /\ proc[entry] = "ready"
UsedBy == IF entry = 0 THEN {} ELSE consumers[entry]
EndsBecause ==
    IF ~Stopping(entry) THEN "no" ELSE IF AskedFor(entry) THEN "asked" ELSE "unused"

Service == INSTANCE ModuleService WITH
    Users   <- Callers, Subprocesses <- Spawns,
    serving <- entry,   running <- Runs,
    users   <- UsedBy,  ending  <- EndsBecause

ImplementsService ==
    /\ Service!OutOfService
    /\ [][overlaps' = {} => [Service!Serve]_(Service!serviceVars)]_managerVars

(* What the class comment of the manager says: it owns the map from        *)
(* (module, scope unit) to the live subprocess.                            *)
LiveIsMapped ==
    \A n \in Spawns : state[n] = "active" /\ proc[n] = "ready" => entry = n
=============================================================================

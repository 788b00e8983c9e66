------------------------------ MODULE DaemonSpawn ------------------------------
(***************************************************************************)
(* How a worktree gets its daemon: the processes that share the directory  *)
(* .rn-dev and nothing else.                                               *)
(*                                                                         *)
(* A client runs connectToDaemon() of src/daemon/spawn.ts: it probes the   *)
(* socket, checks the daemon's version, retires a daemon of another        *)
(* version, removes the two files and spawns a daemon.  A daemon runs the  *)
(* start and the shutdown of src/daemon/index.ts: the pid-file lock of     *)
(* src/core/module-host/lockfile.ts, then the socket.  A step is one       *)
(* file-system call, one request or one signal; processes interleave       *)
(* between any two of them.                                                *)
(***************************************************************************)
CONSTANTS
    Clients,     \* processes that call connectToDaemon()
    Daemons,     \* daemon processes; each pid runs once
    Old,         \* the daemons of another version than the clients
    None,        \* no daemon; a file that does not exist
    Concurrent,  \* clients and starts overlap
    Hasty        \* a deadline may expire though the daemon is only slow

ASSUME OldAssumption == Old \subseteq Daemons
ASSUME NoneAssumption == None \notin Daemons
ASSUME ModeAssumption == Concurrent \in BOOLEAN /\ Hasty \in BOOLEAN

VARIABLES
    daemon,    \* where each daemon process is in its life
    client,    \* where each client is in connectToDaemon()
    target,    \* the daemon whose server accepted the client's probe
    pidFile,   \* the pid in .rn-dev/pid
    sockFile,  \* the daemon whose server .rn-dev/sock reaches
    hurried,   \* history: a client took the lock of a daemon whose server was closing
    robbed     \* history: daemons whose socket the late end of another's server took

files == <<pidFile, sockFile>>
lateness == <<hurried, robbed>>
spawnVars == <<daemon, client, target, pidFile, sockFile, hurried, robbed>>

Starting == {"spawned", "free", "locked"}
Ending == {"stopping", "closing", "closed"}

SpawnTypeOK ==
    /\ daemon \in [Daemons -> {"unborn", "serving", "gone"} \cup Starting \cup Ending]
    /\ client \in [Clients -> {"idle", "probing", "pinging", "retiring",
                               "unlinkSock", "unlinkPid", "spawning",
                               "waiting", "done", "failed"}]
    /\ target \in [Clients -> Daemons \cup {None}]
    /\ \A c \in Clients : client[c] \in {"pinging", "retiring"} => target[c] # None
    /\ {pidFile, sockFile} \subseteq Daemons \cup {None}
    /\ hurried \in BOOLEAN /\ robbed \subseteq Daemons

(* Before the clients come, a daemon of the other version may be serving.  *)
SpawnInit ==
    /\ client = [c \in Clients |-> "idle"]
    /\ target = [c \in Clients |-> None]
    /\ hurried = FALSE /\ robbed = {}
    /\ \E d \in Old \cup {None} :
         /\ pidFile = d /\ sockFile = d
         /\ daemon = [e \in Daemons |->
                        IF e = d THEN "serving"
                        ELSE IF e \in Old THEN "gone" ELSE "unborn"]

Exists(d) == d # None /\ daemon[d] \notin {"unborn", "gone"}

(* The server of d accepts connections until server.stop().                *)
Listens(d) == d # None /\ daemon[d] \in {"serving", "stopping"}

Move(d, s) == daemon' = [daemon EXCEPT ![d] = s]
Step(c, s) == client' = [client EXCEPT ![c] = s]

Working(c) == client[c] \notin {"idle", "done", "failed"}
Calm == /\ \A c \in Clients : ~Working(c)
        /\ \A d \in Daemons : daemon[d] \notin Starting

-----------------------------------------------------------------------------
(* connectToDaemon() is called.                                            *)
Call(c) ==
    /\ client[c] = "idle"
    /\ Concurrent \/ Calm
    /\ Step(c, "probing")
    /\ UNCHANGED <<daemon, target, files, lateness>>

(* isDaemonAlive(): the socket file exists and a server accepts.           *)
Probe(c) ==
    /\ client[c] = "probing"
    /\ IF Listens(sockFile)
         THEN Step(c, "pinging") /\ target' = [target EXCEPT ![c] = sockFile]
         ELSE Step(c, "unlinkSock") /\ UNCHANGED target
    /\ UNCHANGED <<daemon, files, lateness>>

(* daemonVersionMatches(): an answer with the client's own version.        *)
VersionMatches(c) ==
    /\ client[c] = "pinging"
    /\ Listens(target[c]) /\ target[c] \notin Old
    /\ Step(c, "done")
    /\ UNCHANGED <<daemon, target, files, lateness>>

(* No answer in 5 s, or another version: send daemon/shutdown, which a     *)
(* daemon that is gone, or closing, does not hear.                         *)
VersionDiffers(c) ==
    /\ client[c] = "pinging"
    /\ Listens(target[c]) /\ target[c] \notin Old => Hasty
    /\ Step(c, "retiring")
    /\ IF daemon[target[c]] = "serving" THEN Move(target[c], "stopping")
                                        ELSE UNCHANGED daemon
    /\ UNCHANGED <<target, files, lateness>>

(* shutdownStaleDaemon() polls until the socket file is gone, or 5 s pass. *)
StaleDaemonGone(c) ==
    /\ client[c] = "retiring"
    /\ sockFile = None \/ ~Exists(target[c]) \/ Hasty
    /\ Step(c, "unlinkSock")
    /\ UNCHANGED <<daemon, target, files, lateness>>

UnlinkSock(c) ==
    /\ client[c] = "unlinkSock"
    /\ sockFile' = None
    /\ Step(c, "unlinkPid")
    /\ UNCHANGED <<daemon, target, pidFile, lateness>>

UnlinkPid(c) ==
    /\ client[c] = "unlinkPid"
    /\ pidFile' = None
    /\ hurried' = (hurried \/ \E d \in Daemons : pidFile = d /\ daemon[d] = "closing")
    /\ Step(c, "spawning")
    /\ UNCHANGED <<daemon, target, sockFile, robbed>>

(* spawnDetachedDaemon().                                                  *)
Spawn(c) ==
    /\ client[c] = "spawning"
    /\ \/ \E d \in Daemons :
            /\ daemon[d] = "unborn"
            /\ Move(d, "spawned")
            /\ Step(c, "waiting")
       \/ /\ \A d \in Daemons : daemon[d] # "unborn"
          /\ Step(c, "failed")
          /\ UNCHANGED daemon
    /\ UNCHANGED <<target, files, lateness>>

(* waitForSocket(): any socket file will do; after 30 s it throws.         *)
SpawnEnds(c) ==
    /\ client[c] = "waiting"
    /\ \/ sockFile # None /\ Step(c, "done")
       \/ /\ sockFile = None
          /\ Hasty \/ \A d \in Daemons : daemon[d] \notin Starting
          /\ Step(c, "failed")
    /\ UNCHANGED <<daemon, target, files, lateness>>

-----------------------------------------------------------------------------
(* `rn-dev daemon <worktree>` starts a daemon and removes no file.         *)
StartByHand(d) ==
    /\ daemon[d] = "unborn"
    /\ Concurrent \/ Calm
    /\ Move(d, "spawned")
    /\ UNCHANGED <<client, target, files, lateness>>

(* Mutant: the lock looks at no other pid.                                 *)
ReadLockBlindly(d) ==
    /\ daemon[d] = "spawned"
    /\ Move(d, "free")
    /\ UNCHANGED <<client, target, files, lateness>>

(* ModuleLockfile.acquire(), first half: a live holder ends the process.   *)
ReadLock(d) ==
    /\ daemon[d] = "spawned"
    /\ Move(d, IF Exists(pidFile) THEN "gone" ELSE "free")
    /\ UNCHANGED <<client, target, files, lateness>>

(* Its second half writes the file, whatever it holds by now.              *)
WriteLock(d) ==
    /\ daemon[d] = "free"
    /\ pidFile' = d
    /\ Move(d, "locked")
    /\ UNCHANGED <<client, target, sockFile, lateness>>

(* Orphan sweeps, then unlink the socket file, listen in its place, add    *)
(* the worktree's row to the registry (a side channel: not modelled).      *)
Bind(d) ==
    /\ daemon[d] = "locked"
    /\ sockFile' = d
    /\ Move(d, "serving")
    /\ UNCHANGED <<client, target, pidFile, lateness>>

(* A signal, or the daemon/shutdown of somebody else: shutdown() begins    *)
(* with supervisor.stop(), the server still serving.                       *)
Terminate(d) ==
    /\ daemon[d] = "serving"
    /\ Move(d, "stopping")
    /\ UNCHANGED <<client, target, files, lateness>>

(* server.stop(): closing a listening server removes its path.             *)
CloseServer(d) ==
    /\ daemon[d] = "stopping"
    /\ sockFile' = None
    /\ Move(d, "closing")
    /\ UNCHANGED <<client, target, pidFile, lateness>>

(* The callback of close(), which comes when the connections have ended,   *)
(* or the timer of 500 ms removes the path again, whoever listens there.   *)
ServerClosed(d) ==
    /\ daemon[d] = "closing"
    /\ sockFile' = None
    /\ robbed' = robbed \cup {e \in Daemons : e = sockFile /\ Listens(e)}
    /\ Move(d, "closed")
    /\ UNCHANGED <<client, target, pidFile, hurried>>

(* Mutant: release() does not look whose lock it removes.                  *)
ReleaseAnyLock(d) ==
    /\ daemon[d] = "closed"
    /\ pidFile' = None
    /\ Move(d, "gone")
    /\ UNCHANGED <<client, target, sockFile, lateness>>

(* lock.release() leaves the lock of another live process alone; exit.     *)
ReleaseLock(d) ==
    /\ daemon[d] = "closed"
    /\ pidFile' = IF Exists(pidFile) /\ pidFile # d THEN pidFile ELSE None
    /\ Move(d, "gone")
    /\ UNCHANGED <<client, target, sockFile, lateness>>

(* SIGKILL or a crash, at any point: the files stay.                       *)
Crash(d) ==
    /\ Exists(d)
    /\ Move(d, "gone")
    /\ UNCHANGED <<client, target, files, lateness>>

-----------------------------------------------------------------------------
ClientStep(c) ==
    \/ Probe(c) \/ VersionMatches(c) \/ VersionDiffers(c) \/ StaleDaemonGone(c)
    \/ UnlinkSock(c) \/ UnlinkPid(c) \/ Spawn(c) \/ SpawnEnds(c)

DaemonStep(d) ==
    \/ ReadLock(d) \/ WriteLock(d) \/ Bind(d)
    \/ CloseServer(d) \/ ServerClosed(d) \/ ReleaseLock(d)

SpawnNext ==
    \/ \E c \in Clients : Call(c) \/ ClientStep(c)
    \/ \E d \in Daemons :
         StartByHand(d) \/ DaemonStep(d) \/ Terminate(d) \/ Crash(d)

SpawnSafety == SpawnInit /\ [][SpawnNext]_spawnVars

(* Processes that exist are scheduled, and deadlines expire.               *)
SpawnFairness == /\ \A c \in Clients : WF_spawnVars(ClientStep(c))
                 /\ \A d \in Daemons : WF_spawnVars(DaemonStep(d))

SpawnSpec == SpawnSafety /\ SpawnFairness

-----------------------------------------------------------------------------
(* The daemons that own the worktree: from the lock to the end of the      *)
(* session.                                                                *)
Owners == {d \in Daemons : daemon[d] \in {"locked", "serving", "stopping"}}

(* supervisor.ts: "One daemon per worktree"; the tests: "refuses to start  *)
(* a second daemon on the same worktree".  Two would fight over the Metro  *)
(* port and run the session twice.                                         *)
OneDaemonPerWorktree ==
    \A d, e \in Owners : d = e

(* As long as no server that closed has taken the socket of a successor:   *)
OneDaemonUntilRobbed == robbed = {} => OneDaemonPerWorktree

(* A daemon that serves can be found: the files lead to it, so the next    *)
(* client reuses it and the next daemon refuses to start.  Until it is     *)
(* robbed of its socket, that is, which befalls only the successor of a    *)
(* daemon whose lock a client removed while its server was closing.        *)
ServingDaemonIsFound ==
    /\ robbed = {} => \A d \in Daemons : daemon[d] = "serving" => sockFile = d /\ pidFile = d
    /\ robbed # {} => hurried

(* "the unlink + null assignment idempotent" (ipc.ts:173): the second      *)
(* removal of the path finds nothing, or what the first has left.          *)
LateUnlinkIsIdle == robbed = {}

(* Whatever the processes before it left behind, and whatever crashes      *)
(* meanwhile, connectToDaemon() returns or throws.                         *)
ConnectEnds == \A c \in Clients : Working(c) ~> ~Working(c)

=============================================================================

---------------------------- MODULE Connecting_proofs ---------------------------
(***************************************************************************)
(* Proofs about the two halves of a connection.                            *)
(*                                                                         *)
(* DaemonSpawn, for any clients and daemons: where calls and starts do not *)
(* overlap and no deadline expires early, a worktree has one daemon at     *)
(* most, whatever crashes, is signalled or is of another version, and the  *)
(* files lead to it.  Owners are never compared with each other.  Each has *)
(* its pid in the one pid file (OwnersAreFound), and what could take it    *)
(* away again, a client's unlink or another daemon's write, is done only   *)
(* where nobody owns the worktree (ClearsForNobody, LocksForNobody).  This *)
(* ends when a server that closes takes the socket of a successor, and     *)
(* until a client takes its lock it keeps every successor off              *)
(* (ClosingKeepsOff).                                                      *)
(*                                                                         *)
(* ClientSession, for any number of sessions, lines and losses: what is    *)
(* handed out runs and is the joined session, and its loss is told once.   *)
(* The order of the lines in the pipe carries the argument (OwnSession): a *)
(* later session is never said to run before the joined one is said to end.*)
(***************************************************************************)
EXTENDS DaemonSpawn, ClientSession, TLAPS

(* One call or one start at a time; a client that does not wait for its    *)
(* daemon has not spawned one.                                             *)
OneAtATime ==
    /\ \A b, c \in Clients : Working(b) /\ Working(c) => b = c
    /\ \A d, e \in Daemons : daemon[d] \in Starting /\ daemon[e] \in Starting => d = e
    /\ \A c \in Clients, d \in Daemons :
         Working(c) /\ client[c] # "waiting" => daemon[d] \notin Starting

OwnersAreFound ==
    \A d \in Owners : pidFile = d /\ (daemon[d] # "locked" => sockFile = d)

(* A client that removes the files has nobody to take them from, and one   *)
(* that retires a daemon knows the only one there is.                      *)
ClearsForNobody ==
    \A c \in Clients :
        /\ client[c] \in {"unlinkSock", "unlinkPid"} => Owners = {}
        /\ client[c] \in {"pinging", "retiring"} => Owners \subseteq {target[c]}

LocksForNobody == \A d \in Daemons : daemon[d] = "free" => Owners = {}

Found == OwnersAreFound /\ ClearsForNobody /\ LocksForNobody

(* Unless a client has hurried, nobody comes while a server closes: its    *)
(* daemon still has the lock.                                              *)
ClosingKeepsOff ==
    \A d \in Daemons : daemon[d] = "closing" =>
        pidFile = d /\ Owners = {} /\ \A e \in Daemons : daemon[e] # "free"

(* The inductive invariant.                                                *)
SpawnInv ==
    /\ SpawnTypeOK /\ OneAtATime
    /\ robbed = {} => Found
    /\ ~hurried => robbed = {} /\ ClosingKeepsOff

Undisturbed == ~Concurrent /\ ~Hasty

-----------------------------------------------------------------------------
(* The invariant holds of the old daemon that serves before the clients    *)
(* come, and without one.                                                  *)
LEMMA SpawnStartsSo == SpawnInit => SpawnInv
<1> SUFFICES ASSUME SpawnInit PROVE SpawnInv
  OBVIOUS
<1>1. PICK d \in Old \cup {None} :
        /\ pidFile = d /\ sockFile = d
        /\ daemon = [e \in Daemons |-> IF e = d THEN "serving"
                                      ELSE IF e \in Old THEN "gone" ELSE "unborn"]
  BY DEF SpawnInit
<1>2. /\ client = [c \in Clients |-> "idle"] /\ target = [c \in Clients |-> None]
      /\ hurried = FALSE /\ robbed = {}
  BY DEF SpawnInit
<1>3. \A e \in Daemons : daemon[e] \in {"serving", "gone", "unborn"} /\ (daemon[e] = "serving" => e = d)
  BY <1>1
<1>4. SpawnTypeOK
  BY <1>1, <1>2, NoneAssumption, OldAssumption DEF SpawnTypeOK, Starting, Ending
<1>5. OneAtATime /\ ClosingKeepsOff /\ LocksForNobody
  BY <1>2, <1>3 DEF OneAtATime, Working, Starting, ClosingKeepsOff, LocksForNobody
<1>6. OwnersAreFound /\ ClearsForNobody
  BY <1>1, <1>2, <1>3 DEF OwnersAreFound, ClearsForNobody, Owners
<1> QED
  BY <1>2, <1>4, <1>5, <1>6 DEF SpawnInv, Found

(* A client that calls, looks or waits changes no file.                    *)
LEMMA LookKeeps ==
    ASSUME Undisturbed, SpawnInv, NEW c \in Clients,
           Call(c) \/ Probe(c) \/ VersionMatches(c) \/ VersionDiffers(c)
             \/ StaleDaemonGone(c) \/ SpawnEnds(c)
    PROVE  SpawnInv'
<1> USE DEF Undisturbed
<1>1. SpawnTypeOK'
  BY NoneAssumption
     DEF Call, Probe, VersionMatches, VersionDiffers, StaleDaemonGone, SpawnEnds, Step, Move,
         Listens, Ending, SpawnInv, SpawnTypeOK, files, lateness
<1>2. /\ \A b \in Clients \ {c} : client'[b] = client[b]
      /\ \A b \in Clients \ {c} : target'[b] = target[b]
      /\ Owners' = Owners
      /\ \A d \in Daemons : daemon'[d] = daemon[d]
                              \/ (daemon[d] = "serving" /\ daemon'[d] = "stopping")
      /\ UNCHANGED <<files, lateness>>
  BY DEF Call, Probe, VersionMatches, VersionDiffers, StaleDaemonGone, SpawnEnds, Step, Move,
         SpawnInv, SpawnTypeOK, Owners, files, lateness
<1>3. /\ client'[c] \in {"probing", "pinging", "unlinkSock", "done", "retiring", "failed"}
      /\ client[c] = "idle" => Calm
      /\ client[c] # "idle" => Working(c)
      /\ client[c] = "waiting" => client'[c] \in {"done", "failed"}
  BY DEF Call, Probe, VersionMatches, VersionDiffers, StaleDaemonGone, SpawnEnds, Step, Working,
         SpawnInv, SpawnTypeOK
<1>4. OneAtATime'
  BY <1>2, <1>3 DEF SpawnInv, OneAtATime, Working, Starting, Calm
<1>5. ASSUME Found PROVE Found'
  <2>1. OwnersAreFound'
    BY <1>2, <1>5 DEF Found, OwnersAreFound, Owners, files
  <2>2. ASSUME Working(c), client[c] # "waiting", NEW d \in Owners
        PROVE  Listens(d) /\ Exists(d) /\ sockFile = d /\ d # None
    BY <1>5, <2>2, NoneAssumption
       DEF SpawnInv, OneAtATime, Found, OwnersAreFound, Owners, Listens, Exists, Starting
  <2>3. client'[c] = "unlinkSock" => Owners = {}
    BY <1>3, <1>5, <2>2
       DEF Call, Probe, VersionMatches, VersionDiffers, StaleDaemonGone, SpawnEnds, Step,
           SpawnInv, SpawnTypeOK, Found, ClearsForNobody
  <2>4. client'[c] \in {"pinging", "retiring"} => Owners \subseteq {target'[c]}
    BY <1>3, <1>5, <2>2
       DEF Call, Probe, VersionMatches, VersionDiffers, StaleDaemonGone, SpawnEnds, Step,
           SpawnInv, SpawnTypeOK, Found, ClearsForNobody
  <2>5. ClearsForNobody'
    BY <1>2, <1>3, <1>5, <2>3, <2>4 DEF Found, ClearsForNobody
  <2>6. LocksForNobody'
    BY <1>2, <1>5 DEF Found, LocksForNobody
  <2> QED
    BY <2>1, <2>5, <2>6 DEF Found
<1>6. ClosingKeepsOff => ClosingKeepsOff'
  BY <1>2 DEF ClosingKeepsOff, files
<1> QED
  BY <1>1, <1>2, <1>4, <1>5, <1>6 DEF SpawnInv, lateness

(* What a client unlinks is nobody's.                                      *)
LEMMA UnlinkKeeps ==
    ASSUME SpawnInv, NEW c \in Clients, UnlinkSock(c) \/ UnlinkPid(c)
    PROVE  SpawnInv'
<1>1. /\ daemon' = daemon /\ target' = target /\ robbed' = robbed /\ Owners' = Owners
      /\ \A b \in Clients \ {c} : client'[b] = client[b]
      /\ Working(c) /\ client[c] # "waiting"
      /\ client[c] \in {"unlinkSock", "unlinkPid"}
      /\ client'[c] \in {"unlinkPid", "spawning"}
  BY DEF UnlinkSock, UnlinkPid, Step, SpawnInv, SpawnTypeOK, Owners, Working, lateness
<1>2. SpawnTypeOK'
  BY DEF UnlinkSock, UnlinkPid, Step, SpawnInv, SpawnTypeOK, lateness
<1>3. OneAtATime'
  BY <1>1 DEF SpawnInv, OneAtATime, Working
<1>4. ASSUME Found PROVE Found'
  <2>1. Owners = {}
    BY <1>1, <1>4 DEF Found, ClearsForNobody
  <2>2. Owners' = {}
    BY <1>1, <2>1
  <2> QED
    BY <2>2 DEF Found, OwnersAreFound, ClearsForNobody, LocksForNobody
<1>5. /\ hurried => hurried'
      /\ ~hurried' => pidFile' = pidFile \/ \A d \in Daemons : daemon[d] = "closing" => pidFile # d
  <2>1. CASE UnlinkSock(c)
    BY <2>1 DEF UnlinkSock, lateness
  <2>2. CASE UnlinkPid(c)
    <3>1. hurried' = (hurried \/ \E d \in Daemons : pidFile = d /\ daemon[d] = "closing")
      BY <2>2 DEF UnlinkPid
    <3> QED
      BY <3>1
  <2> QED
    BY <2>1, <2>2
<1>6. ASSUME ClosingKeepsOff, ~hurried' PROVE ClosingKeepsOff'
  BY <1>1, <1>5, <1>6 DEF ClosingKeepsOff
<1> QED
  BY <1>1, <1>2, <1>3, <1>4, <1>5, <1>6 DEF SpawnInv

(* A daemon comes to be, by a client or by hand, and owns nothing yet.     *)
LEMMA SpawnKeeps ==
    ASSUME Undisturbed, SpawnInv,
           (\E c \in Clients : Spawn(c)) \/ (\E d \in Daemons : StartByHand(d))
    PROVE  SpawnInv'
<1>1. CASE \E d \in Daemons : StartByHand(d)
  <2>1. PICK d \in Daemons : StartByHand(d)
    BY <1>1
  <2>2. /\ Calm /\ Owners' = Owners /\ UNCHANGED <<client, target, files, lateness>>
        /\ \A e \in Daemons \ {d} : daemon'[e] = daemon[e]
        /\ daemon[d] = "unborn" /\ daemon'[d] = "spawned"
    BY <2>1
       DEF StartByHand, Undisturbed, Move, SpawnInv, SpawnTypeOK, Owners, files, lateness
  <2>3. SpawnTypeOK'
    BY <2>1 DEF StartByHand, Move, Starting, SpawnInv, SpawnTypeOK, files, lateness
  <2>4. OneAtATime'
    BY <2>2 DEF SpawnInv, OneAtATime, Calm, Working
  <2>5. (Found => Found') /\ (ClosingKeepsOff => ClosingKeepsOff')
    BY <2>2 DEF Found, OwnersAreFound, Owners, ClearsForNobody, LocksForNobody, ClosingKeepsOff,
                files
  <2> QED
    BY <2>2, <2>3, <2>4, <2>5 DEF SpawnInv, lateness
<1>2. CASE \E c \in Clients : Spawn(c)
  <2>1. PICK c \in Clients : Spawn(c)
    BY <1>2
  <2>2. /\ Working(c) /\ client[c] # "waiting" /\ client'[c] \in {"waiting", "failed"}
        /\ \A b \in Clients \ {c} : client'[b] = client[b]
        /\ Owners' = Owners /\ UNCHANGED <<target, files, lateness>>
        /\ \A d \in Daemons : daemon'[d] = daemon[d]
                                \/ (daemon[d] = "unborn" /\ daemon'[d] = "spawned")
        /\ daemon' = daemon \/ (client'[c] = "waiting" /\
             \A d, e \in Daemons : daemon'[d] # daemon[d] /\ daemon'[e] # daemon[e] => d = e)
    BY <2>1 DEF Spawn, Step, Move, SpawnInv, SpawnTypeOK, Owners, Working, files, lateness
  <2>3. SpawnTypeOK'
    BY <2>1 DEF Spawn, Step, Move, Starting, SpawnInv, SpawnTypeOK, files, lateness
  <2>4. OneAtATime'
    BY <2>2 DEF SpawnInv, OneAtATime, Working
  <2>5. (Found => Found') /\ (ClosingKeepsOff => ClosingKeepsOff')
    BY <2>2 DEF Found, OwnersAreFound, Owners, ClearsForNobody, LocksForNobody, ClosingKeepsOff,
                files
  <2> QED
    BY <2>2, <2>3, <2>4, <2>5 DEF SpawnInv, lateness
<1> QED
  BY <1>1, <1>2

(* The lock and the socket: only a daemon that found the pid file without  *)
(* a live holder, and so the worktree without an owner, goes on to own it. *)
LEMMA LockKeeps ==
    ASSUME SpawnInv, NEW d \in Daemons, ReadLock(d) \/ WriteLock(d) \/ Bind(d)
    PROVE  SpawnInv'
<1>1. /\ \A e \in Daemons \ {d} : daemon'[e] = daemon[e]
      /\ daemon[d] \in Starting /\ UNCHANGED <<client, target, lateness>>
      /\ daemon'[d] # "closing"
  BY DEF ReadLock, WriteLock, Bind, Move, Starting, SpawnInv, SpawnTypeOK, files
<1>2. SpawnTypeOK'
  BY DEF ReadLock, WriteLock, Bind, Move, Starting, Ending, SpawnInv, SpawnTypeOK, files,
         lateness
<1>3. OneAtATime'
  BY <1>1 DEF SpawnInv, OneAtATime, Working
<1>4. CASE ReadLock(d)
  <2>1. Owners' = Owners /\ UNCHANGED files /\ daemon[d] = "spawned"
    BY <1>4 DEF ReadLock, Move, Owners, SpawnInv, SpawnTypeOK, files
  <2>2. daemon'[d] = "free" => ~Exists(pidFile)
    BY <1>4 DEF ReadLock, Move, SpawnInv, SpawnTypeOK
  <2>3. Found => Found'
    BY <1>1, <2>1, <2>2, NoneAssumption
       DEF Found, OwnersAreFound, Owners, Exists, ClearsForNobody, LocksForNobody, files
  <2>4. ClosingKeepsOff => ClosingKeepsOff'
    BY <1>1, <2>1, <2>2, NoneAssumption DEF ClosingKeepsOff, Exists, files
  <2> QED
    BY <1>1, <1>2, <1>3, <2>3, <2>4 DEF SpawnInv, lateness
<1>5. CASE WriteLock(d)
  <2>1. /\ Owners' = Owners \cup {d} /\ pidFile' = d
        /\ daemon[d] = "free" /\ daemon'[d] = "locked"
    BY <1>5 DEF WriteLock, Move, Owners, SpawnInv, SpawnTypeOK
  <2>2. \A c \in Clients : client[c] \notin {"pinging", "retiring", "unlinkSock", "unlinkPid"}
    BY <1>1 DEF SpawnInv, OneAtATime, Working
  <2>3. \A e \in Daemons : daemon'[e] # "free"
    BY <1>1, <2>1 DEF SpawnInv, OneAtATime, Starting
  <2>4. Found => Found'
    BY <1>1, <2>1, <2>2, <2>3
       DEF Found, OwnersAreFound, ClearsForNobody, LocksForNobody
  <2>5. ClosingKeepsOff => ClosingKeepsOff'
    BY <1>1, <2>1 DEF ClosingKeepsOff
  <2> QED
    BY <1>1, <1>2, <1>3, <2>4, <2>5 DEF SpawnInv, lateness
<1>6. CASE Bind(d)
  <2>1. /\ Owners' = Owners /\ d \in Owners /\ pidFile' = pidFile /\ sockFile' = d
        /\ daemon'[d] = "serving"
    BY <1>6 DEF Bind, Move, Owners, SpawnInv, SpawnTypeOK
  <2>2. Found => Found'
    BY <1>1, <2>1 DEF Found, OwnersAreFound, ClearsForNobody, LocksForNobody
  <2>3. ClosingKeepsOff => ClosingKeepsOff'
    BY <1>1, <2>1 DEF ClosingKeepsOff
  <2> QED
    BY <1>1, <1>2, <1>3, <2>2, <2>3 DEF SpawnInv, lateness
<1> QED
  BY <1>4, <1>5, <1>6

(* A daemon that ends takes away no file of another that owns the worktree,*)
(* unless its server closes late and robs it.                              *)
LEMMA EndKeeps ==
    ASSUME SpawnInv, NEW d \in Daemons,
           Terminate(d) \/ CloseServer(d) \/ ServerClosed(d) \/ ReleaseLock(d) \/ Crash(d)
    PROVE  SpawnInv'
<1>1. /\ \A e \in Daemons \ {d} : daemon'[e] = daemon[e]
      /\ daemon'[d] \in {"stopping", "closing", "closed", "gone"}
      /\ daemon'[d] = "stopping" => daemon[d] = "serving"
      /\ UNCHANGED <<client, target, hurried>>
  BY DEF Terminate, CloseServer, ServerClosed, ReleaseLock, Crash, Move, SpawnInv, SpawnTypeOK,
         files, lateness
<1>2. SpawnTypeOK'
  BY DEF Terminate, CloseServer, ServerClosed, ReleaseLock, Crash, Move, Starting, Ending,
         SpawnInv, SpawnTypeOK, files, lateness
<1>3. OneAtATime'
  BY <1>1 DEF SpawnInv, OneAtATime, Working, Starting
<1>4. Owners' \subseteq Owners
  BY <1>1 DEF Owners
<1>5. ASSUME Found, robbed' = {} PROVE Found'
  <2>1. OwnersAreFound'
    <3>1. CASE Terminate(d) \/ Crash(d)
      BY <1>1, <1>4, <1>5, <3>1 DEF Terminate, Crash, Found, OwnersAreFound, Owners, files
    <3>2. CASE CloseServer(d)
      <4>1. Owners = {d} /\ daemon'[d] = "closing"
        BY <1>5, <3>2
           DEF CloseServer, Move, Owners, SpawnInv, SpawnTypeOK, Found, OwnersAreFound
      <4> QED
        BY <1>4, <4>1 DEF OwnersAreFound, Owners
    <3>3. CASE ServerClosed(d)
      <4>1. /\ daemon[d] = "closing" /\ pidFile' = pidFile
            /\ \A e \in Daemons : ~(e = sockFile /\ Listens(e))
        BY <1>5, <3>3 DEF ServerClosed
      <4>2. \A e \in Owners : daemon[e] = "locked" /\ e # d
        BY <1>5, <4>1, NoneAssumption DEF Owners, Listens, Found, OwnersAreFound
      <4> QED
        BY <1>1, <1>4, <1>5, <4>1, <4>2 DEF Found, OwnersAreFound, Owners
    <3>4. CASE ReleaseLock(d)
      <4>1. \A e \in Owners : pidFile = e /\ e # d /\ Exists(e)
        BY <1>5, <3>4, NoneAssumption DEF ReleaseLock, Owners, Exists, Found, OwnersAreFound
      <4> QED
        BY <1>1, <1>4, <1>5, <3>4, <4>1 DEF ReleaseLock, Found, OwnersAreFound, Owners
    <3> QED
      BY <3>1, <3>2, <3>3, <3>4
  <2>2. ClearsForNobody' /\ LocksForNobody'
    BY <1>1, <1>4, <1>5 DEF Found, ClearsForNobody, LocksForNobody
  <2> QED
    BY <2>1, <2>2 DEF Found
<1>6. robbed \subseteq robbed'
  BY DEF Terminate, CloseServer, ServerClosed, ReleaseLock, Crash, lateness
<1>7. ASSUME ~hurried PROVE robbed' = {} /\ ClosingKeepsOff'
  <2>1. robbed = {} /\ Found /\ ClosingKeepsOff
    BY <1>7 DEF SpawnInv
  <2>2. CASE CloseServer(d)
    <3>1. Owners = {d} /\ pidFile = d /\ daemon[d] = "stopping" /\ pidFile' = pidFile
      BY <2>1, <2>2 DEF CloseServer, Owners, Found, OwnersAreFound
    <3>2. Owners' = {}
      BY <1>4, <3>1, <2>2 DEF CloseServer, Move, Owners, SpawnInv, SpawnTypeOK
    <3>3. \A e \in Daemons : daemon'[e] # "free" /\ (daemon'[e] = "closing" => e = d)
      BY <1>1, <2>1, <3>1 DEF Found, LocksForNobody, ClosingKeepsOff
    <3> QED
      BY <2>1, <2>2, <3>1, <3>2, <3>3 DEF CloseServer, ClosingKeepsOff, lateness
  <2>3. CASE ServerClosed(d)
    <3>1. Owners = {} /\ pidFile' = pidFile /\ daemon'[d] = "closed"
      BY <2>1, <2>3 DEF ServerClosed, Move, ClosingKeepsOff, SpawnInv, SpawnTypeOK
    <3>2. robbed' = {}
      BY <2>1, <2>3, <3>1 DEF ServerClosed, Owners, Listens
    <3> QED
      BY <1>1, <1>4, <2>1, <3>1, <3>2 DEF ClosingKeepsOff
  <2>4. CASE Terminate(d) \/ Crash(d)
    <3>1. daemon'[d] \in {"stopping", "gone"} /\ UNCHANGED <<files, lateness>>
      BY <2>4 DEF Terminate, Crash, Move, SpawnInv, SpawnTypeOK
    <3> QED
      BY <1>1, <1>4, <2>1, <3>1 DEF ClosingKeepsOff, files, lateness
  <2>5. CASE ReleaseLock(d)
    <3>1. /\ daemon[d] = "closed" /\ robbed' = robbed
          /\ pidFile' = IF Exists(pidFile) /\ pidFile # d THEN pidFile ELSE None
      BY <2>5 DEF ReleaseLock, lateness
    <3>2. \A e \in Daemons : daemon[e] = "closing" => Exists(e) /\ e # d
      BY <3>1, NoneAssumption DEF Exists
    <3> QED
      BY <1>1, <1>4, <2>1, <3>1, <3>2, <2>5 DEF ReleaseLock, Move, SpawnInv, SpawnTypeOK,
                                                ClosingKeepsOff
  <2> QED
    BY <2>2, <2>3, <2>4, <2>5
<1> QED
  BY <1>1, <1>2, <1>3, <1>5, <1>6, <1>7 DEF SpawnInv

-----------------------------------------------------------------------------
(* Every step keeps the invariant.                                         *)
LEMMA SpawnNextInv == ASSUME Undisturbed PROVE SpawnInv /\ [SpawnNext]_spawnVars => SpawnInv'
<1> SUFFICES ASSUME SpawnInv, [SpawnNext]_spawnVars PROVE SpawnInv'
  OBVIOUS
<1>1. CASE UNCHANGED spawnVars
  BY <1>1 DEF spawnVars, SpawnInv, SpawnTypeOK, OneAtATime, Found, OwnersAreFound,
              ClearsForNobody, LocksForNobody, ClosingKeepsOff, Owners, Working
<1>2. ASSUME NEW c \in Clients, Call(c) \/ ClientStep(c) PROVE SpawnInv'
  BY <1>2, LookKeeps, UnlinkKeeps, SpawnKeeps DEF ClientStep
<1>3. ASSUME NEW d \in Daemons, StartByHand(d) \/ DaemonStep(d) \/ Terminate(d) \/ Crash(d)
      PROVE  SpawnInv'
  BY <1>3, SpawnKeeps, LockKeeps, EndKeeps DEF DaemonStep
<1> QED
  BY <1>1, <1>2, <1>3 DEF SpawnNext

(* The invariant holds in every state.                                     *)
LEMMA SpawnInductive == ASSUME Undisturbed PROVE SpawnSafety => []SpawnInv
BY SpawnStartsSo, SpawnNextInv, PTL DEF SpawnSafety

(* One daemon per worktree (supervisor.ts, lockfile.ts), where calls and   *)
(* starts do not overlap and deadlines expire on the dead only, until a    *)
(* server that closes late takes the socket of a successor.                *)
THEOREM OneOwner == ASSUME Undisturbed PROVE SpawnSafety => []OneDaemonUntilRobbed
<1>1. SpawnInv => OneDaemonUntilRobbed
  BY DEF SpawnInv, Found, OwnersAreFound, OneDaemonUntilRobbed, OneDaemonPerWorktree
<1> QED
  BY SpawnInductive, <1>1, PTL

(* Under the same assumptions the files lead to the daemon that serves     *)
(* (spawn.ts:43-102), so that the next client finds it, until it is robbed *)
(* of its socket; and it is robbed only if the client that spawned it had  *)
(* removed the lock of a daemon whose server was closing (ipc.ts:152-186). *)
THEOREM ServerIsFound == ASSUME Undisturbed PROVE SpawnSafety => []ServingDaemonIsFound
<1>1. SpawnInv => ServingDaemonIsFound
  BY DEF SpawnInv, Found, OwnersAreFound, ServingDaemonIsFound, Owners
<1> QED
  BY SpawnInductive, <1>1, PTL

-----------------------------------------------------------------------------
(* The lines of a pipe, in any order.                                      *)
LinesOf(queue) == {queue[i] : i \in 1..Len(queue)}

(* What the pipe to the client may hold.                                   *)
AckLines == [kind : {"ack"}, status : {"starting", "running"}, started : BOOLEAN]
StatusLines == [kind : {"status"}, status : Ladder!Statuses, session : 0..MaxSessions]
Lines == StatusLines \cup AckLines \cup [kind : {"nack", "log", "backfill"}]

(* A line that tells of the end of a session, and one that tells that it   *)
(* runs.                                                                   *)
Terminal(line) == line.kind = "status" /\ line.status \in {"stopping", "stopped"}
Runs(line) == line.kind = "status" /\ line.status = "running"

(* The parts of the type invariant that are no queues, and the queues with *)
(* the kinds of lines they hold.  Who goes on past the acknowledgement has *)
(* one.                                                                    *)
Scalars ==
    /\ status \in Ladder!Statuses /\ holding \in BOOLEAN
    /\ session \in 0..MaxSessions /\ joined \in 0..MaxSessions /\ seen \in 0..MaxSessions
    /\ logs \in 0..MaxLogs /\ notified \in 0..1
    /\ daemonUp \in BOOLEAN /\ attached \in BOOLEAN
    /\ progress \in BOOLEAN /\ key \in BOOLEAN /\ ended \in BOOLEAN
    /\ serving \in {"fresh", "open", "gone"}
    /\ pc \in {"idle", "subscribing", "confirmed", "backfilling", "backfilled", "awaiting",
               "connected", "stopping", "closed", "failed"}
    /\ gate \in {"pending", "resolved", "silence", "session", "lost"}
    /\ timer \in {"off", "seed", "idle"}
    /\ sock \in {"open", "broken", "destroyed", "closed"}

Queues ==
    /\ up \in Seq({"subscribe", "status", "stop"})
    /\ down \in Seq(Lines)
    /\ owed \in AckLines \cup {Refusal} /\ ack \in AckLines \cup {Refusal}
    /\ pc \in {"backfilling", "backfilled", "awaiting", "connected", "stopping"}
         => ack \in AckLines

(* The subscription is sent once, and answered once.                       *)
OneSubscription ==
    /\ "subscribe" \in LinesOf(up) => up = <<"subscribe">> /\ serving = "fresh"
    /\ pc = "idle" => up = <<>> /\ serving = "fresh"
    /\ pc \notin {"idle", "subscribing", "failed"} => serving # "fresh"
    /\ \A line \in LinesOf(down) : line.kind \in {"ack", "nack"} => serving # "fresh"

(* A socket that has not joined a session has heard of none; one that has  *)
(* is served until it is closed.                                           *)
Attachment ==
    /\ status # "stopped" => session > 0
    /\ joined = 0 =>
         /\ serving # "open" /\ owed = Refusal /\ ack = Refusal
         /\ timer = "off" /\ gate # "resolved"
         /\ \A line \in LinesOf(down) : line.kind \in {"nack", "backfill"}
    /\ joined # 0 => serving # "fresh" /\ (sock = "open" => serving = "open")

(* While the gate waits, no later session is said to run before the end of *)
(* the joined one is said; the joined one goes on, or its end is in the    *)
(* pipe.                                                                   *)
OwnSession ==
    sock = "open" /\ gate = "pending" =>
      /\ \A i \in 1..Len(down) : Runs(down[i]) =>
           down[i].session = joined \/ \E j \in 1..i-1 : Terminal(down[j])
      /\ joined # 0 =>
           \/ session = joined /\ status \in {"starting", "running"}
           \/ \E line \in LinesOf(down) : Terminal(line)

(* A gate that opened did so on the session that was joined.               *)
Truth == gate = "resolved" => seen = joined

(* When the loss is told, and what is known of a socket that is gone.      *)
Loss ==
    /\ notified = 1 => ended
    /\ ended => notified = 1 \/ pc = "closed"
    /\ pc = "closed" => ended
    /\ notified = 1 /\ pc # "failed" => ~daemonUp
    /\ sock = "broken" \/ (pc = "idle" /\ sock # "open") => ~daemonUp
    /\ sock = "destroyed" => pc \in {"closed", "failed"}
    /\ sock \in {"broken", "closed"} => ended \/ pc = "failed"

(* Where no kind of event is filtered, what the session did since the      *)
(* timer was set is in the pipe.                                           *)
Heard ==
    timer # "off" /\ gate = "pending" /\ sock = "open" /\ progress
      => \E line \in LinesOf(down) : line.kind \in {"status", "log"}

(* The inductive invariant.                                                *)
SessionInv == Scalars /\ Queues /\ OneSubscription /\ Attachment /\ OwnSession /\ Truth /\ Loss
-----------------------------------------------------------------------------
(* What a pipe holds after a line is written to it, and what it held       *)
(* before one was read.                                                    *)
LEMMA QueueAppend ==
    ASSUME NEW S, NEW q \in Seq(S), NEW e \in S
    PROVE  /\ q \o <<e>> \in Seq(S)
           /\ Append(q, e) \in Seq(S) /\ LinesOf(Append(q, e)) = LinesOf(q) \cup {e}
           /\ Len(q \o <<e>>) = Len(q) + 1
           /\ (q \o <<e>>)[Len(q) + 1] = e
           /\ \A i \in 1..Len(q) : (q \o <<e>>)[i] = q[i]
           /\ LinesOf(q \o <<e>>) = LinesOf(q) \cup {e}
<1>1. /\ q \o <<e>> \in Seq(S)
      /\ Append(q, e) = q \o <<e>>
      /\ Len(q \o <<e>>) = Len(q) + 1
      /\ (q \o <<e>>)[Len(q) + 1] = e
      /\ \A i \in 1..Len(q) : (q \o <<e>>)[i] = q[i]
  OBVIOUS
<1>2. 1..(Len(q) + 1) = (1..Len(q)) \cup {Len(q) + 1}
  OBVIOUS
<1> QED
  BY <1>1, <1>2 DEF LinesOf

(* Its lines, when one is appended.                                        *)
LEMMA LinesAppended ==
    ASSUME NEW S, NEW q \in Seq(S), NEW e \in S
    PROVE  LinesOf(Append(q, e)) = LinesOf(q) \cup {e}
<1>1. /\ Len(Append(q, e)) = Len(q) + 1 /\ Append(q, e)[Len(q) + 1] = e
      /\ \A i \in 1..Len(q) : Append(q, e)[i] = q[i]
  OBVIOUS
<1>2. 1..(Len(q) + 1) = (1..Len(q)) \cup {Len(q) + 1}
  OBVIOUS
<1> QED
  BY <1>1, <1>2 DEF LinesOf

(* A request is one more line of the pipe to the daemon.                   *)
LEMMA RequestAppended ==
    ASSUME Queues, NEW request \in {"status", "stop"}
    PROVE  LinesOf(Append(up, request)) = LinesOf(up) \cup {request}
<1> DEFINE S == {"subscribe", "status", "stop"}
<1>1. up \in Seq(S) /\ request \in S
  BY DEF Queues
<1> HIDE DEF S
<1> QED
  BY <1>1, LinesAppended

(* Of a pipe that is read: its first line, and the others.                 *)
LEMMA QueueTail ==
    ASSUME NEW S, NEW q \in Seq(S), q # <<>>
    PROVE  /\ Tail(q) \in Seq(S) /\ Head(q) \in S /\ Head(q) \in LinesOf(q)
           /\ Head(q) = q[1]
           /\ Len(Tail(q)) = Len(q) - 1 /\ Len(q) >= 1
           /\ \A i \in 1..Len(Tail(q)) : Tail(q)[i] = q[i+1] /\ i + 1 \in 1..Len(q)
           /\ LinesOf(q) = {Head(q)} \cup LinesOf(Tail(q))
<1>1. /\ Tail(q) \in Seq(S) /\ Head(q) \in S /\ Head(q) = q[1]
      /\ Len(Tail(q)) = Len(q) - 1 /\ Len(q) >= 1
      /\ \A i \in 1..Len(Tail(q)) : Tail(q)[i] = q[i+1] /\ i + 1 \in 1..Len(q)
  OBVIOUS
<1>2. ASSUME NEW i \in 1..Len(q) PROVE i = 1 \/ (i - 1 \in 1..Len(Tail(q)) /\ Tail(q)[i-1] = q[i])
  BY <1>1
<1>3. LinesOf(q) \subseteq {Head(q)} \cup LinesOf(Tail(q))
  BY <1>1, <1>2 DEF LinesOf
<1>4. {Head(q)} \cup LinesOf(Tail(q)) \subseteq LinesOf(q)
  BY <1>1 DEF LinesOf
<1> QED
  BY <1>1, <1>3, <1>4

(* An empty pipe holds no line.                                            *)
LEMMA QueueEmpty == ASSUME NEW S PROVE /\ <<>> \in Seq(S) /\ LinesOf(<<>>) = {}
  /\ Len(<<>>) = 0 /\ \A q \in Seq(S) : q \o <<>> = q /\ (Len(q) = 0 <=> q = <<>>)
BY DEF LinesOf

(* The kind of a line tells its shape.                                     *)
LEMMA LineKinds ==
    /\ Lines = StatusLines \cup AckLines \cup {Refusal, [kind |-> "log"], [kind |-> "backfill"]}
    /\ \A line \in Lines : line.kind \in {"status", "log", "ack", "nack", "backfill"}
    /\ \A line \in Lines : line.kind = "status" <=> line \in StatusLines
    /\ \A line \in Lines : line.kind = "ack" <=> line \in AckLines
    /\ \A line \in Lines : line.kind = "nack" <=> line = Refusal
    /\ \A line \in StatusLines : line.status \in Ladder!Statuses /\ line.session \in 0..MaxSessions
    /\ \A line \in AckLines : line.status \in {"starting", "running"} /\ line.started \in BOOLEAN
BY DEF Lines, StatusLines, AckLines, Refusal

(* The two parts make the type invariant.                                  *)
LEMMA Types == Scalars /\ Queues => TypeOK
<1> SUFFICES ASSUME Scalars, Queues PROVE TypeOK
  OBVIOUS
<1>1. {session, joined, seen} \subseteq 0..MaxSessions
      /\ {daemonUp, attached, progress, key, ended} \subseteq BOOLEAN
  BY DEF Scalars
<1>2. /\ AckLines \subseteq Lines /\ Refusal \in Lines
      /\ owed.kind \in {"ack", "nack"} /\ ack.kind \in {"ack", "nack"}
      /\ pc \in {"backfilling", "backfilled", "awaiting", "connected", "stopping"}
         => ack.kind = "ack"
  BY LineKinds DEF Queues
<1>3. \A i \in 1..Len(down) : down[i].kind \in {"status", "log", "ack", "nack", "backfill"}
  BY LineKinds DEF Queues
<1> QED
  BY <1>1, <1>2, <1>3 DEF Scalars, Queues, TypeOK

(* A line is sent, or is lost with the socket.                             *)
LEMMA Sends ==
    ASSUME Queues, NEW line \in Lines, Send(<<line>>)
    PROVE  /\ down' \in Seq(Lines)
           /\ sock = "open" => down' = down \o <<line>> /\ LinesOf(down') = LinesOf(down) \cup {line}
           /\ sock # "open" => down' = down
BY QueueAppend DEF Send, Queues

(* No line leaves the pipe as it is.                                       *)
LEMMA SendsNothing == ASSUME Queues, Send(<<>>) PROVE down' = down
BY QueueEmpty DEF Send, Queues

(* The ladder of the session keeps its types.                              *)
LEMMA LadderSteps ==
    ASSUME Scalars,
           Ladder!Begin \/ Ladder!Ready \/ Ladder!Fail \/ Ladder!Halt \/ Ladder!Materialise
             \/ Ladder!Discard \/ Ladder!Halted
    PROVE  status' \in Ladder!Statuses /\ holding' \in BOOLEAN
BY DEF Scalars, Ladder!Begin, Ladder!Ready, Ladder!Fail, Ladder!Halt, Ladder!Materialise,
       Ladder!Discard, Ladder!Halted, Ladder!Statuses

(* A status that is emitted is the last line of a served socket.           *)
LEMMA Emitted ==
    ASSUME Queues, EmitStatus, status' \in Ladder!Statuses, session' \in 0..MaxSessions
    PROVE  /\ down' \in Seq(Lines) /\ progress' = TRUE
           /\ sock = "open" /\ serving = "open" =>
                /\ down' = down \o <<StatusLine(status', session')>>
                /\ LinesOf(down') = LinesOf(down) \cup {StatusLine(status', session')}
           /\ ~(sock = "open" /\ serving = "open") => down' = down
<1>1. StatusLine(status', session') \in Lines
  BY DEF StatusLine, Lines, StatusLines
<1>2. CASE serving = "open"
  BY <1>1, <1>2, Sends DEF EmitStatus, Listening
<1>3. CASE serving # "open"
  BY <1>3, SendsNothing DEF EmitStatus, Listening, Queues
<1> QED
  BY <1>2, <1>3

(* What is received was the first line.                                    *)
LEMMA Received ==
    ASSUME Queues, NEW kind, Receive(kind)
    PROVE  /\ down # <<>> /\ down' = Tail(down) /\ down' \in Seq(Lines)
           /\ Head(down) \in Lines /\ Head(down).kind = kind /\ sock = "open"
           /\ LinesOf(down) = {Head(down)} \cup LinesOf(down')
BY QueueTail DEF Receive, Queues

(* Types, where the daemon moves by itself.                                *)
LEMMA DaemonMoves ==
    ASSUME Scalars, Queues, SessionMoves \/ ServicesMove \/ EmitLog \/ DaemonDies
    PROVE  (Scalars /\ Queues)'
<1> USE BoundsAssumption
<1>1. CASE SessionMoves
  <2>1. status' \in Ladder!Statuses /\ holding' \in BOOLEAN /\ session' \in 0..MaxSessions
        /\ attached' \in BOOLEAN
    <3>1. status' \in Ladder!Statuses /\ holding' \in BOOLEAN /\ session' \in 0..MaxSessions
      BY <1>1, LadderSteps DEF SessionMoves, Scalars
    <3>2. attached' = attached \/ attached' = FALSE
      BY <1>1 DEF SessionMoves
    <3> QED
      BY <3>1, <3>2, Zenon DEF Scalars
  <2>2. down' \in Seq(Lines) /\ progress' = TRUE
    BY <1>1, <2>1, Emitted DEF SessionMoves
  <2> QED
    BY <1>1, <2>1, <2>2 DEF SessionMoves, Scalars, Queues, clientVars
<1>2. CASE ServicesMove
  BY <1>2, LadderSteps DEF ServicesMove, Scalars, Queues, clientVars
<1>3. CASE EmitLog
  <2>1. down' \in Seq(Lines)
    BY <1>3, LineKinds, Sends, SendsNothing DEF EmitLog, Queues
  <2> QED
    BY <1>3, <2>1 DEF EmitLog, Scalars, Queues, clientVars, ladder
<1>4. CASE DaemonDies
  <2>1. daemonUp' \in BOOLEAN
    BY <1>4, Zenon DEF DaemonDies
  <2> QED
    BY <1>4, <2>1 DEF DaemonDies, Scalars, Queues, clientVars, ladder
<1> QED
  BY <1>1, <1>2, <1>3, <1>4

(* Types, where it answers.                                                *)
LEMMA DaemonAnswers ==
    ASSUME Scalars, Queues, Attachment, Answer
    PROVE  (Scalars /\ Queues)'
<1> USE BoundsAssumption
<1>0. ASSUME NEW request, Serve(request)
      PROVE  up' \in Seq({"subscribe", "status", "stop"})
  BY <1>0, QueueTail DEF Serve, Queues
<1>1. CASE ServeFirst
  <2>1. /\ status' \in Ladder!Statuses /\ holding' \in BOOLEAN /\ session' \in 0..MaxSessions
        /\ session' # 0 /\ joined' = session'
    BY <1>1, LadderSteps DEF ServeFirst, Scalars
  <2>2. StatusLine("starting", session') \in Lines
    BY <2>1 DEF StatusLine, Lines, StatusLines, Ladder!Statuses
  <2>3. down' \in Seq(Lines) /\ owed' \in AckLines
    BY <1>1, <2>2, Sends DEF ServeFirst, AckLines
  <2> QED
    BY <1>0, <1>1, <2>1, <2>3 DEF ServeFirst, Scalars, Queues, clientVars
<1>2. CASE ServeJoin
  <2>1. owed' \in AckLines
    BY <1>2 DEF ServeJoin, AckLines
  <2> QED
    BY <1>0, <1>2, <2>1 DEF ServeJoin, Scalars, Queues, clientVars, ladder
<1>3. CASE ServeRefusal
  <2>1. down' \in Seq(Lines)
    BY <1>3, LineKinds, Sends DEF ServeRefusal
  <2> QED
    BY <1>0, <1>3, <2>1 DEF ServeRefusal, Scalars, Queues, clientVars, ladder
<1>4. CASE Confirm
  <2>1. down' \in Seq(Lines)
    BY <1>4, LineKinds, Sends DEF Confirm, Queues
  <2> QED
    BY <1>4, <2>1 DEF Confirm, Scalars, Queues, clientVars, ladder
<1>5. CASE ServeStatus
  <2>1. down' \in Seq(Lines)
    BY <1>5, LineKinds, Sends DEF ServeStatus
  <2> QED
    BY <1>0, <1>5, <2>1 DEF ServeStatus, Scalars, Queues, clientVars, daemonVars, ladder
<1>6. CASE ServeStop
  <2>1. /\ status' \in Ladder!Statuses /\ holding' \in BOOLEAN /\ session' = session
        /\ down' \in Seq(Lines) /\ progress' \in BOOLEAN
    <3>1. CASE status \in {"starting", "running"}
      BY <1>6, <3>1, LadderSteps, Emitted DEF ServeStop, Scalars, Queues
    <3>2. CASE status \notin {"starting", "running"}
      BY <1>6, <3>2 DEF ServeStop, Scalars, Queues, ladder
    <3> QED
      BY <3>1, <3>2
  <2>2. attached' \in BOOLEAN
    BY <1>6, Zenon DEF ServeStop
  <2> QED
    BY <1>0, <1>6, <2>1, <2>2 DEF ServeStop, Scalars, Queues, clientVars
<1>7. CASE ServeClose
  <2>1. attached' \in BOOLEAN
    BY <1>7, Zenon DEF ServeClose
  <2>2. status' \in Ladder!Statuses /\ holding' \in BOOLEAN /\ progress' \in BOOLEAN
    BY <1>7, LadderSteps DEF ServeClose, Scalars, ladder
  <2> QED
    BY <1>7, <2>1, <2>2 DEF ServeClose, Scalars, Queues, clientVars
<1> QED
  BY <1>1, <1>2, <1>3, <1>4, <1>5, <1>6, <1>7 DEF Answer

(* Types, where the client reads a line.                                   *)
LEMMA ClientReads ==
    ASSUME Scalars, Queues, Read
    PROVE  (Scalars /\ Queues)'
<1>1. CASE ReceiveConfirmation
  <2>1. /\ down' \in Seq(Lines) /\ ack' \in AckLines \cup {Refusal}
        /\ UNCHANGED <<daemonVars, sock>>
    BY <1>1, Received, LineKinds DEF ReceiveConfirmation, Receive
  <2> QED
    BY <1>1, <2>1 DEF ReceiveConfirmation, Scalars, Queues, daemonVars, ladder
<1>2. CASE ReceiveStatus
  <2>1. /\ down' \in Seq(Lines) /\ Head(down) \in StatusLines /\ UNCHANGED <<daemonVars, sock>>
    BY <1>2, Received, LineKinds DEF ReceiveStatus, Receive
  <2>2. Head(down).status \in Ladder!Statuses /\ Head(down).session \in 0..MaxSessions
    BY <2>1, LineKinds
  <2>3. /\ gate' \in {"pending", "resolved", "silence", "session", "lost"}
        /\ timer' \in {"off", "seed", "idle"} /\ seen' \in 0..MaxSessions
        /\ progress' \in BOOLEAN /\ key' \in BOOLEAN
    <3>1. CASE Head(down).status = "running"
      BY <1>2, <2>2, <3>1 DEF ReceiveStatus, Scalars, Settle, Disarm
    <3>2. CASE Head(down).status \in {"stopping", "stopped"}
      BY <1>2, <2>2, <3>2 DEF ReceiveStatus, Scalars, Settle, Disarm
    <3>3. CASE Head(down).status = "starting"
      BY <1>2, <2>2, <3>3 DEF ReceiveStatus, Scalars, Arm
    <3> QED
      BY <2>2, <3>1, <3>2, <3>3 DEF Ladder!Statuses
  <2> QED
    BY <1>2, <2>1, <2>3 DEF ReceiveStatus, Scalars, Queues, daemonVars, ladder
<1>3. CASE ReceiveLog
  <2>1. down' \in Seq(Lines) /\ UNCHANGED <<daemonVars, sock>> /\ progress' \in BOOLEAN
    BY <1>3, Received DEF ReceiveLog, Receive, Arm
  <2> QED
    BY <1>3, <2>1 DEF ReceiveLog, Arm, Scalars, Queues, daemonVars, ladder
<1>4. CASE ReceiveBackfill
  <2>1. down' \in Seq(Lines) /\ UNCHANGED <<daemonVars, sock>> /\ key' \in BOOLEAN
    BY <1>4, Received DEF ReceiveBackfill, Receive, Scalars
  <2> QED
    BY <1>4, <2>1 DEF ReceiveBackfill, Scalars, Queues, daemonVars, ladder
<1> QED
  BY <1>1, <1>2, <1>3, <1>4 DEF Read

(* Types, where the client goes on to its next await.                      *)
LEMMA ClientRunsOn ==
    ASSUME Scalars, Queues, RunOn
    PROVE  (Scalars /\ Queues)'
<1> USE QueueEmpty
<1>1. CASE Confirmed
  <2>1. Append(up, "status") \in Seq({"subscribe", "status", "stop"})
    BY QueueAppend DEF Queues
  <2>2. CASE ack.kind = "nack"
    BY <1>1, <2>2 DEF Confirmed, CloseSub, Scalars, Queues, daemonVars, ladder
  <2>3. CASE ack.kind # "nack"
    <3>1. ack \in AckLines
      BY <2>3 DEF Queues, Refusal
    <3>2. /\ gate' \in {"pending", "resolved", "silence", "session", "lost"}
          /\ seen' \in 0..MaxSessions /\ timer' = "seed" /\ progress' \in BOOLEAN
          /\ pc' \in {"awaiting", "backfilling"}
          /\ up' \in Seq({"subscribe", "status", "stop"})
          /\ UNCHANGED <<sock, down, daemonVars, ack, key, ended, notified>>
      <4>1. CASE ack.status # "running" \/ ack.started
        BY <1>1, <2>3, <4>1 DEF Confirmed, Arm, Scalars, Queues
      <4>2. CASE ack.status = "running" /\ ~ack.started /\ key
        BY <1>1, <2>3, <4>2 DEF Confirmed, Arm, Settle, Scalars, Queues
      <4>3. CASE ack.status = "running" /\ ~ack.started /\ ~key
        BY <1>1, <2>1, <2>3, <4>3 DEF Confirmed, Arm, Scalars, Queues
      <4> QED
        BY <4>1, <4>2, <4>3
    <3> QED
      BY <3>1, <3>2 DEF Scalars, Queues, daemonVars, ladder
  <2> QED
    BY <2>2, <2>3
<1>2. CASE Backfilled
  BY <1>2 DEF Backfilled, Settle, Scalars, Queues, daemonVars, ladder
<1>3. CASE Awaited
  <2>1. /\ pc = "awaiting" /\ pc' \in {"connected", "failed"} /\ down' \in Seq(Lines)
        /\ timer' = "off" /\ progress' = progress
        /\ sock' \in {"open", "broken", "destroyed", "closed"}
        /\ UNCHANGED <<daemonVars, up, ack, gate, seen, key, ended, notified>>
    BY <1>3 DEF Awaited, CloseSub, Disarm, Scalars, Queues
  <2> QED
    BY <2>1 DEF Scalars, Queues, daemonVars, ladder
<1> QED
  BY <1>1, <1>2, <1>3 DEF RunOn

(* Types, where a timer, the socket or the caller moves the client.        *)
LEMMA ClientMoves ==
    ASSUME Scalars, Queues, Loss,
           \/ BackfillTimesOut \/ WatchdogExpires \/ StopEnds \/ LoseSocket
           \/ Subscribe \/ Disconnect \/ Stop
    PROVE  (Scalars /\ Queues)'
<1> USE QueueEmpty
<1>1. CASE BackfillTimesOut \/ WatchdogExpires
  BY <1>1 DEF BackfillTimesOut, WatchdogExpires, Settle, Scalars, Queues, daemonVars, ladder
<1>2. CASE LoseSocket
  <2>1. PICK s \in {"broken", "closed"} : SocketEvent(s)
    BY <1>2 DEF LoseSocket, SocketError, SocketClose
  <2>2. CASE pc = "subscribing"
    BY <2>1, <2>2 DEF SocketEvent, Scalars, Queues, daemonVars, ladder
  <2>3. CASE pc # "subscribing"
    <3>1. /\ ended' \in BOOLEAN /\ notified' \in 0..1
          /\ gate' \in {"pending", "resolved", "silence", "session", "lost"}
          /\ timer' \in {"off", "seed", "idle"} /\ progress' \in BOOLEAN /\ seen' = seen
      BY <2>1, <2>3 DEF SocketEvent, NotifyDisconnected, Settle, Disarm, Scalars, Loss
    <3>2. /\ pc' \in {pc, "backfilled", "closed"}
          /\ pc' = "backfilled" => pc \in {"backfilling", "backfilled"}
      BY <2>1, <2>3 DEF SocketEvent, Scalars
    <3> QED
      BY <2>1, <3>1, <3>2 DEF SocketEvent, Scalars, Queues, daemonVars, ladder
  <2> QED
    BY <2>2, <2>3
<1>3. CASE Subscribe
  <2>1. <<"subscribe">> \in Seq({"subscribe", "status", "stop"})
    OBVIOUS
  <2> QED
    BY <1>3, <2>1 DEF Subscribe, Scalars, Queues, daemonVars, ladder
<1>4. CASE StopEnds \/ Disconnect \/ Stop
  <2>1. Append(up, "stop") \in Seq({"subscribe", "status", "stop"})
    BY QueueAppend DEF Queues
  <2>2. up' \in Seq({"subscribe", "status", "stop"})
    BY <1>4, <2>1 DEF StopEnds, Disconnect, Stop, Queues
  <2>3. \/ pc' = "stopping" /\ pc = "connected" /\ UNCHANGED <<down, ended, sock>>
        \/ /\ pc' = "closed" /\ down' \in Seq(Lines) /\ ended' \in BOOLEAN
           /\ sock' \in {"open", "broken", "destroyed", "closed"}
    BY <1>4 DEF StopEnds, Disconnect, Stop, CloseByUser, CloseSub, Queues, Scalars
  <2>4. UNCHANGED <<daemonVars, ack, gate, timer, progress, key, notified, seen>>
    BY <1>4 DEF StopEnds, Disconnect, Stop, CloseByUser
  <2> QED
    BY <2>2, <2>3, <2>4 DEF Scalars, Queues, daemonVars, ladder
<1> QED
  BY <1>1, <1>2, <1>3, <1>4


-----------------------------------------------------------------------------
(* A session that moves tells its status.                                  *)
LEMMA Moved ==
    ASSUME Scalars, Queues, SessionMoves
    PROVE  /\ status' \in Ladder!Statuses /\ session' \in 0..MaxSessions
           /\ progress' = TRUE
           /\ sock = "open" /\ serving = "open" =>
                /\ down' = down \o <<StatusLine(status', session')>>
                /\ LinesOf(down') = LinesOf(down) \cup {StatusLine(status', session')}
           /\ ~(sock = "open" /\ serving = "open") => down' = down
<1>1. status' \in Ladder!Statuses /\ session' \in 0..MaxSessions
  BY LadderSteps, BoundsAssumption DEF SessionMoves, Scalars
<1> QED
  BY <1>1, Emitted DEF SessionMoves

(* A stop that is served begins the end of a session, once.                *)
LEMMA StopServed ==
    ASSUME Scalars, Queues, ServeStop
    PROVE  /\ session' = session /\ UNCHANGED <<daemonUp, serving, owed, joined, logs, clientVars>>
           /\ status \in {"starting", "running"} =>
                /\ status' = "stopping" /\ progress' = TRUE
                /\ sock = "open" /\ serving = "open" =>
                     /\ down' = down \o <<StatusLine("stopping", session)>>
                     /\ LinesOf(down') = LinesOf(down) \cup {StatusLine("stopping", session)}
                /\ ~(sock = "open" /\ serving = "open") => down' = down
           /\ status \notin {"starting", "running"} =>
                UNCHANGED <<status, down, progress>>
<1>1. CASE status \in {"starting", "running"}
  <2>1. status' = "stopping" /\ session' = session /\ EmitStatus
        /\ UNCHANGED <<daemonUp, serving, owed, joined, logs, clientVars>>
    BY <1>1 DEF ServeStop, Ladder!Halt
  <2>2. status' \in Ladder!Statuses /\ session' \in 0..MaxSessions
    BY <2>1 DEF Scalars, Ladder!Statuses
  <2> QED
    BY <1>1, <2>1, <2>2, Emitted
<1>2. CASE status \notin {"starting", "running"}
  BY <1>2 DEF ServeStop, ladder
<1> QED
  BY <1>1, <1>2

(* Every step keeps the subscription single.                               *)
LEMMA OneSubscriptionKept ==
    ASSUME Scalars, Queues, OneSubscription, Attachment, Loss, Next
    PROVE  OneSubscription'
<1> USE DEF OneSubscription
<1>0. ASSUME NEW request, Serve(request)
      PROVE  /\ LinesOf(up') \subseteq LinesOf(up) /\ request \in LinesOf(up)
             /\ up = <<"subscribe">> => up' = <<>>
             /\ pc # "idle"
  BY <1>0, QueueTail, QueueEmpty DEF Serve, Queues
<1>1. ASSUME UNCHANGED <<up, pc, serving>>, LinesOf(down') \subseteq LinesOf(down) PROVE OneSubscription'
  BY <1>1
<1>2. CASE SessionMoves
  BY <1>2, Moved DEF SessionMoves, StatusLine, clientVars
<1>3. CASE EmitLog
  <2>1. LinesOf(down') \subseteq LinesOf(down) \cup {[kind |-> "log"]}
    BY <1>3, LineKinds, Sends, SendsNothing DEF EmitLog
  <2> QED
    BY <1>3, <2>1 DEF EmitLog, clientVars
<1>4. CASE ServicesMove \/ DaemonDies \/ WatchdogExpires
  BY <1>4 DEF ServicesMove, DaemonDies, WatchdogExpires, clientVars, daemonVars
<1>5. CASE ServeFirst \/ ServeJoin
  <2>1. serving' = "open" /\ up' = <<>> /\ pc' = pc /\ pc # "idle"
    BY <1>0, <1>5 DEF ServeFirst, ServeJoin, clientVars
  <2> QED
    BY <2>1, QueueEmpty
<1>6. CASE ServeRefusal
  <2>1. serving' = "gone" /\ up' = <<>> /\ pc' = pc /\ pc # "idle"
    BY <1>0, <1>6 DEF ServeRefusal, clientVars
  <2> QED
    BY <2>1, QueueEmpty
<1>7. CASE Confirm
  <2>1. serving # "fresh" /\ UNCHANGED <<up, pc, serving>>
    BY <1>7 DEF Confirm, Acking, Attachment, clientVars
  <2> QED
    BY <2>1
<1>8. CASE ServeStatus
  <2>1. LinesOf(down') \subseteq LinesOf(down) \cup {[kind |-> "backfill"]}
    BY <1>8, LineKinds, Sends DEF ServeStatus
  <2>2. UNCHANGED <<pc, serving>> /\ pc # "idle" /\ LinesOf(up') \subseteq LinesOf(up)
        /\ "subscribe" \notin LinesOf(up)
    <3>1. "status" \in LinesOf(up)
      BY <1>0, <1>8 DEF ServeStatus
    <3>2. up # <<"subscribe">>
      BY <3>1 DEF LinesOf
    <3> QED
      BY <1>0, <1>8, <3>2 DEF ServeStatus, clientVars, daemonVars
  <2> QED
    BY <2>1, <2>2
<1>9. CASE ServeStop
  <2>1. LinesOf(down') \subseteq LinesOf(down) \cup {StatusLine("stopping", session)}
    BY <1>9, StopServed
  <2>2. UNCHANGED <<pc, serving>> /\ pc # "idle" /\ LinesOf(up') \subseteq LinesOf(up)
        /\ "subscribe" \notin LinesOf(up)
    <3>1. "stop" \in LinesOf(up)
      BY <1>0, <1>9 DEF ServeStop
    <3>2. up # <<"subscribe">>
      BY <3>1 DEF LinesOf
    <3> QED
      BY <1>0, <1>9, <3>2 DEF ServeStop, clientVars
  <2> QED
    BY <2>1, <2>2 DEF StatusLine
<1>10. CASE ServeClose
  BY <1>10, QueueEmpty DEF ServeClose, clientVars, Loss
<1>11. CASE Read
  <2>1. /\ LinesOf(down') \subseteq LinesOf(down) /\ UNCHANGED <<up, serving>>
        /\ pc' # pc => serving # "fresh" /\ pc' # "idle"
    <3>1. CASE ReceiveConfirmation
      BY <1>11, <3>1, Received DEF ReceiveConfirmation, Receive, daemonVars
    <3>2. CASE ReceiveStatus
      BY <3>2, Received DEF ReceiveStatus, Receive, daemonVars
    <3>3. CASE ReceiveLog
      BY <3>3, Received DEF ReceiveLog, Receive, daemonVars
    <3>4. CASE ReceiveBackfill
      BY <3>4, Received DEF ReceiveBackfill, Receive, daemonVars
    <3> QED
      BY <1>11, <3>1, <3>2, <3>3, <3>4 DEF Read
  <2> QED
    BY <2>1
<1>12. ASSUME NEW request \in {"status", "stop"}, serving # "fresh", up' = Append(up, request)
       PROVE  "subscribe" \notin LinesOf(up')
  <2>1. LinesOf(up') = LinesOf(up) \cup {request}
    BY <1>12, RequestAppended
  <2> QED
    BY <1>12, <2>1
<1>13. CASE Confirmed
  <2>1. /\ serving' = serving /\ serving # "fresh" /\ pc' # "idle"
        /\ up' \in {up, Append(up, "status")} /\ LinesOf(down') \subseteq LinesOf(down)
    BY <1>13, QueueEmpty DEF Confirmed, CloseSub, daemonVars
  <2> QED
    BY <1>12, <2>1
<1>14. CASE Backfilled \/ Awaited \/ BackfillTimesOut \/ StopEnds \/ Disconnect
  <2>1. /\ serving' = serving /\ serving # "fresh" /\ pc' # "idle"
        /\ up' = up /\ LinesOf(down') \subseteq LinesOf(down)
    BY <1>14, QueueEmpty
       DEF Backfilled, Awaited, BackfillTimesOut, StopEnds, Disconnect, CloseByUser, CloseSub,
           daemonVars
  <2> QED
    BY <2>1
<1>15. CASE Stop
  <2>1. /\ serving' = serving /\ serving # "fresh" /\ pc' # "idle"
        /\ up' \in {up, Append(up, "stop")} /\ LinesOf(down') \subseteq LinesOf(down)
    BY <1>15, QueueEmpty DEF Stop, CloseByUser, CloseSub, daemonVars
  <2> QED
    BY <1>12, <2>1
<1>16. CASE LoseSocket
  <2>1. PICK s \in {"broken", "closed"} : SocketEvent(s)
    BY <1>16 DEF LoseSocket, SocketError, SocketClose
  <2>2. /\ UNCHANGED <<serving, up>> /\ LinesOf(down') = {}
        /\ pc' = pc \/ (pc' # "idle" /\ (serving # "fresh" \/ pc' = "failed"))
    BY <2>1, QueueEmpty DEF SocketEvent, daemonVars
  <2> QED
    BY <2>2
<1>17. CASE Subscribe
  BY <1>17 DEF Subscribe, daemonVars, LinesOf
<1> QED
  BY <1>2, <1>3, <1>4, <1>5, <1>6, <1>7, <1>8, <1>9, <1>10, <1>11, <1>13, <1>14, <1>15, <1>16, <1>17
     DEF Next, Answer, RunOn

(* Every step keeps what is known of a loss.                               *)
LEMMA LossKept ==
    ASSUME Scalars, Queues, Loss, Next
    PROVE  Loss'
<1> USE DEF Loss
<1>1. CASE SessionMoves \/ ServicesMove \/ EmitLog \/ DaemonDies \/ Answer
  <2>1. UNCHANGED <<notified, ended, pc, sock>> /\ (daemonUp' => daemonUp)
    BY <1>1 DEF SessionMoves, ServicesMove, EmitLog, DaemonDies, Answer, ServeFirst, ServeJoin,
                ServeRefusal, Confirm, ServeStatus, ServeStop, ServeClose, clientVars, daemonVars
  <2> QED
    BY <2>1
<1>2. CASE Read
  <2>1. /\ UNCHANGED <<notified, ended, sock, daemonUp>>
        /\ pc' = pc \/ (pc = "subscribing" /\ pc' = "confirmed") \/ (pc = "backfilling" /\ pc' = "backfilled")
    BY <1>2 DEF Read, ReceiveConfirmation, ReceiveStatus, ReceiveLog, ReceiveBackfill, Receive,
                daemonVars
  <2> QED
    BY <2>1 DEF Scalars
<1>3. CASE RunOn \/ BackfillTimesOut \/ WatchdogExpires \/ Subscribe
  <2>1. /\ UNCHANGED <<notified, ended, daemonUp>>
        /\ pc' \notin {"closed", "idle"} \/ pc' = pc
        /\ pc \notin {"closed", "failed"} \/ pc' = pc
        /\ sock' = sock \/ (sock = "open" /\ sock' = "destroyed" /\ pc' = "failed")
    BY <1>3 DEF RunOn, Confirmed, Backfilled, Awaited, BackfillTimesOut, WatchdogExpires, Subscribe,
                CloseSub, daemonVars
  <2> QED
    BY <2>1 DEF Scalars
<1>4. CASE StopEnds \/ Disconnect \/ Stop
  <2>1. /\ UNCHANGED <<notified, daemonUp>>
        /\ \/ pc' = "stopping" /\ pc = "connected" /\ UNCHANGED <<ended, sock>>
           \/ /\ pc \in {"connected", "stopping"} /\ pc' = "closed" /\ ended' = TRUE
              /\ sock' = sock \/ (sock = "open" /\ sock' = "destroyed")
    BY <1>4 DEF StopEnds, Disconnect, Stop, CloseByUser, CloseSub, daemonVars
  <2> QED
    BY <2>1 DEF Scalars
<1>5. CASE LoseSocket
  <2>1. PICK s \in {"broken", "closed"} :
           /\ SocketEvent(s)
           /\ sock = "open" => ~daemonUp
           /\ s = "broken" => ~daemonUp
    BY <1>5 DEF LoseSocket, SocketError, SocketClose
  <2>2. sock \in {"open", "broken", "destroyed"}
    BY <1>5 DEF LoseSocket, SocketError, SocketClose
  <2>3. sock' = s /\ daemonUp' = daemonUp
    BY <2>1 DEF SocketEvent, daemonVars
  <2>4. CASE pc = "subscribing"
    BY <2>1, <2>2, <2>3, <2>4 DEF SocketEvent
  <2>5. CASE pc # "subscribing" /\ ended
    BY <2>1, <2>2, <2>3, <2>5 DEF SocketEvent, NotifyDisconnected, Scalars
  <2>6. CASE pc # "subscribing" /\ ~ended
    BY <2>1, <2>2, <2>3, <2>6 DEF SocketEvent, NotifyDisconnected, Scalars
  <2> QED
    BY <2>4, <2>5, <2>6
<1> QED
  BY <1>1, <1>2, <1>3, <1>4, <1>5 DEF Next



(* Every step keeps a socket apart from the session it has not joined.     *)
LEMMA AttachmentKept ==
    ASSUME Scalars, Queues, Queues', OneSubscription, Attachment, Next
    PROVE  Attachment'
<1> USE DEF Attachment
<1> DEFINE Quiet(lines) == \A line \in lines : line.kind \in {"nack", "backfill"}
<1>0. joined = 0 => serving \in {"fresh", "gone"} /\ serving # "open"
  BY DEF Scalars
<1>1. CASE SessionMoves
  <2>1. status' # "stopped" => session' > 0
    BY <1>1 DEF SessionMoves, Scalars, Ladder!Begin, Ladder!Ready, Ladder!Halted, Ladder!Fail, Ladder!Halt
  <2>2. UNCHANGED <<joined, serving, owed, ack, timer, gate, sock>> /\ (joined = 0 => down' = down)
    BY <1>1, Moved DEF SessionMoves, clientVars
  <2> QED
    BY <2>1, <2>2
<1>2. CASE ServicesMove \/ DaemonDies \/ EmitLog
  <2>1. /\ UNCHANGED <<status, session, joined, serving, owed, ack, timer, gate, sock>>
        /\ joined = 0 => down' = down
    BY <1>2, SendsNothing
       DEF ServicesMove, DaemonDies, EmitLog, Listening, clientVars, ladder, Ladder!Materialise, Ladder!Discard
  <2> QED
    BY <2>1
<1>3. CASE ServeFirst
  BY <1>3 DEF ServeFirst, Ladder!Begin, Scalars
<1>4. CASE ServeJoin
  BY <1>4 DEF ServeJoin, ladder, Scalars
<1>5. ASSUME NEW line \in Lines, line.kind \in {"nack", "backfill"}, Send(<<line>>), Quiet(LinesOf(down))
      PROVE  Quiet(LinesOf(down'))
  BY <1>5, Sends
<1>6. CASE ServeRefusal
  <2>1. "subscribe" \in LinesOf(up)
    BY <1>6, QueueTail DEF ServeRefusal, Serve, Queues
  <2>2. serving = "fresh" /\ joined = 0 /\ UNCHANGED <<status, session, joined, owed, ack, timer, gate, sock>>
    BY <1>6, <2>1 DEF ServeRefusal, OneSubscription, clientVars, ladder
  <2>3. Refusal \in Lines /\ Refusal.kind = "nack"
    BY LineKinds
  <2>4. Quiet(LinesOf(down'))
    BY <1>5, <1>6, <2>2, <2>3 DEF ServeRefusal
  <2> QED
    BY <1>6, <2>2, <2>4 DEF ServeRefusal
<1>7. CASE Confirm
  <2>1. joined # 0 /\ UNCHANGED <<status, session, joined, serving, sock>>
    BY <1>7 DEF Confirm, Acking, clientVars, ladder
  <2> QED
    BY <2>1
<1>8. CASE ServeStatus
  <2>1. [kind |-> "backfill"] \in Lines
    BY LineKinds
  <2>2. Quiet(LinesOf(down)) => Quiet(LinesOf(down'))
    BY <1>5, <1>8, <2>1 DEF ServeStatus
  <2>3. UNCHANGED <<status, session, joined, serving, owed, ack, timer, gate, sock>>
    BY <1>8 DEF ServeStatus, daemonVars, clientVars, ladder
  <2> QED
    BY <2>2, <2>3
<1>9. CASE ServeStop
  <2>1. UNCHANGED <<session, joined, serving, owed, ack, timer, gate, sock>>
    BY <1>9, StopServed DEF clientVars
  <2>2. status' # "stopped" => status # "stopped"
    BY <1>9, StopServed
  <2>3. joined = 0 => down' = down
    BY <1>9, StopServed
  <2> QED
    BY <2>1, <2>2, <2>3
<1>10. CASE ServeClose
  <2>1. /\ UNCHANGED <<session, joined, owed, ack, timer, gate, sock, down>>
        /\ serving' = "gone" /\ sock # "open"
        /\ status' # "stopped" => status # "stopped"
    BY <1>10 DEF ServeClose, clientVars, ladder, Ladder!Halt
  <2> QED
    BY <2>1
<1>11. CASE Read
  <2>1. UNCHANGED <<status, session, joined, serving, owed, sock>>
        /\ LinesOf(down') \subseteq LinesOf(down)
    BY <1>11, Received
       DEF Read, ReceiveConfirmation, ReceiveStatus, ReceiveLog, ReceiveBackfill, Receive, daemonVars, ladder
  <2>2. joined = 0 => UNCHANGED <<timer, gate>> /\ ack' = Refusal
    <3>1. CASE ReceiveConfirmation
      BY <3>1, Received, LineKinds DEF ReceiveConfirmation
    <3>2. CASE ReceiveStatus \/ ReceiveLog
      <4>1. Head(down) \in LinesOf(down) /\ Head(down).kind \in {"status", "log"}
        BY <3>2, Received DEF ReceiveStatus, ReceiveLog
      <4> QED
        BY <4>1
    <3>3. CASE ReceiveBackfill
      BY <3>3 DEF ReceiveBackfill
    <3> QED
      BY <1>11, <3>1, <3>2, <3>3 DEF Read
  <2> QED
    BY <2>1, <2>2
<1>12. CASE RunOn
  <2>1. /\ UNCHANGED <<status, session, joined, serving, owed, ack>>
        /\ LinesOf(down') \subseteq LinesOf(down) /\ (sock' = "open" => sock = "open")
    BY <1>12, QueueEmpty DEF RunOn, Confirmed, Backfilled, Awaited, CloseSub, daemonVars, ladder
  <2>2. joined = 0 => timer' = "off" /\ gate' # "resolved"
    <3>1. Refusal.kind = "nack" /\ Refusal \notin AckLines
      BY DEF Refusal, AckLines
    <3>2. CASE Confirmed
      BY <3>1, <3>2 DEF Confirmed
    <3>3. CASE Backfilled
      BY <3>1, <3>3 DEF Backfilled, Queues
    <3>4. CASE Awaited
      BY <3>4 DEF Awaited, Disarm
    <3> QED
      BY <1>12, <3>2, <3>3, <3>4 DEF RunOn
  <2> QED
    BY <2>1, <2>2
<1>13. CASE BackfillTimesOut \/ WatchdogExpires \/ StopEnds \/ Subscribe \/ Disconnect \/ Stop
  <2>1. /\ UNCHANGED <<status, session, joined, serving, owed, ack>>
        /\ LinesOf(down') \subseteq LinesOf(down) /\ (sock' = "open" => sock = "open")
        /\ timer' \in {timer, "off"} /\ gate' \in {gate, "silence"}
    BY <1>13, QueueEmpty
       DEF BackfillTimesOut, WatchdogExpires, StopEnds, Subscribe, Disconnect, Stop, CloseByUser,
           CloseSub, Settle, daemonVars, ladder
  <2> QED
    BY <2>1
<1>14. CASE LoseSocket
  <2>1. PICK s \in {"broken", "closed"} : SocketEvent(s)
    BY <1>14 DEF LoseSocket, SocketError, SocketClose
  <2>2. /\ UNCHANGED <<status, session, joined, serving, owed, ack>>
        /\ LinesOf(down') = {} /\ sock' # "open"
        /\ timer' \in {timer, "off"} /\ gate' \in {gate, "lost"}
    BY <2>1, QueueEmpty DEF SocketEvent, NotifyDisconnected, Disarm, Settle, daemonVars, ladder
  <2> QED
    BY <2>2
<1> QED
  BY <1>1, <1>2, <1>3, <1>4, <1>6, <1>7, <1>8, <1>9, <1>10, <1>11, <1>12, <1>13, <1>14
     DEF Next, Answer


(* The gate opens on a running status only, and that is of the session     *)
(* that was joined.                                                        *)
LEMMA TruthKept ==
    ASSUME Scalars, Queues, OneSubscription, Attachment, OwnSession, Truth, Next
    PROVE  Truth'
<1> USE DEF Truth
<1>0. ASSUME NEW request, Serve(request) PROVE request = "subscribe" => joined = 0
  BY <1>0, QueueTail DEF Serve, Queues, OneSubscription, Attachment
<1>1. CASE SessionMoves \/ ServicesMove \/ EmitLog \/ DaemonDies \/ Answer
  <2>1. UNCHANGED <<gate, seen>>
    BY <1>1 DEF SessionMoves, ServicesMove, EmitLog, DaemonDies, Answer, ServeFirst, ServeJoin,
                ServeRefusal, Confirm, ServeStatus, ServeStop, ServeClose, clientVars
  <2>2. joined' = joined \/ (joined = 0)
    BY <1>0, <1>1 DEF SessionMoves, ServicesMove, EmitLog, DaemonDies, Answer, ServeFirst, ServeJoin,
                ServeRefusal, Confirm, ServeStatus, ServeStop, ServeClose, daemonVars
  <2> QED
    BY <2>1, <2>2 DEF Attachment
<1>2. CASE ReceiveStatus
  <2>1. down # <<>> /\ sock = "open" /\ joined' = joined /\ Head(down) = down[1] /\ 1 \in 1..Len(down)
        /\ Head(down).kind = "status"
    BY <1>2, Received, QueueTail DEF ReceiveStatus, Receive, daemonVars, Queues
  <2>2. CASE Head(down).status = "running"
    <3>1. gate = "pending" => Head(down).session = joined
      BY <2>1, <2>2 DEF OwnSession, Runs, Terminal
    <3> QED
      BY <1>2, <2>1, <2>2, <3>1 DEF ReceiveStatus, Settle
  <2>3. CASE Head(down).status # "running"
    BY <1>2, <2>1, <2>3 DEF ReceiveStatus, Settle
  <2> QED
    BY <2>2, <2>3
<1>3. CASE RunOn
  BY <1>3 DEF RunOn, Confirmed, Backfilled, Awaited, Settle, daemonVars
<1>4. CASE ReceiveConfirmation \/ ReceiveLog \/ ReceiveBackfill \/ BackfillTimesOut \/ WatchdogExpires
             \/ StopEnds \/ LoseSocket \/ Subscribe \/ Disconnect \/ Stop
  <2>1. /\ UNCHANGED <<joined, seen>> /\ (gate' = "resolved" => gate = "resolved")
    BY <1>4 DEF ReceiveConfirmation, ReceiveLog, ReceiveBackfill, Receive, BackfillTimesOut, WatchdogExpires,
             StopEnds, LoseSocket, SocketError, SocketClose, SocketEvent, NotifyDisconnected,
             Subscribe, Disconnect, Stop, CloseByUser, Settle, daemonVars
  <2> QED
    BY <2>1
<1> QED
  BY <1>1, <1>2, <1>3, <1>4 DEF Next, Read

(* Every step keeps the order in which a client hears of its session and   *)
(* of a later one.                                                         *)
LEMMA OwnSessionKept ==
    ASSUME Scalars, Queues, Queues', OneSubscription, Attachment, OwnSession, Next
    PROVE  OwnSession'
<1> USE DEF OwnSession
<1>1. CASE sock' # "open" \/ gate' # "pending"
  BY <1>1
<1> SUFFICES ASSUME sock' = "open", gate' = "pending" PROVE OwnSession'
  BY <1>1
<1>2. sock = "open" /\ gate = "pending"
  BY DEF Next, SessionMoves, ServicesMove, EmitLog, DaemonDies, Answer, ServeFirst, ServeJoin,
         ServeRefusal, Confirm, ServeStatus, ServeStop, ServeClose, clientVars, daemonVars,
         Read, ReceiveConfirmation, ReceiveStatus, ReceiveLog, ReceiveBackfill, Receive,
         RunOn, Confirmed, Backfilled, Awaited, BackfillTimesOut, WatchdogExpires, StopEnds,
         LoseSocket, SocketError, SocketClose, SocketEvent, Subscribe, Disconnect, Stop,
         CloseByUser, CloseSub, Settle, NotifyDisconnected
<1> DEFINE
      Ordered(queue, n) ==
        \A i \in 1..Len(queue) : Runs(queue[i]) =>
          queue[i].session = n \/ \E j \in 1..i-1 : Terminal(queue[j])
      Over(queue) == \E line \in LinesOf(queue) : Terminal(line)
<1>3. ASSUME NEW line \in Lines, down' = down \o <<line>>, Ordered(down, joined'),
             Runs(line) => line.session = joined' \/ Over(down)
      PROVE  Ordered(down', joined') /\ (Over(down') <=> Over(down) \/ Terminal(line))
  <2>1. /\ Len(down') = Len(down) + 1 /\ down'[Len(down) + 1] = line
        /\ \A i \in 1..Len(down) : down'[i] = down[i]
        /\ LinesOf(down') = LinesOf(down) \cup {line} /\ Len(down) \in Nat
    BY <1>3, QueueAppend DEF Queues
  <2>2. Over(down) => \E j \in 1..Len(down) : Terminal(down'[j])
    BY <2>1 DEF LinesOf
  <2>3. ASSUME NEW i \in 1..Len(down'), Runs(down'[i])
        PROVE  down'[i].session = joined' \/ \E j \in 1..i-1 : Terminal(down'[j])
    <3>1. CASE i = Len(down) + 1
      BY <1>3, <2>1, <2>2, <2>3, <3>1
    <3>2. CASE i \in 1..Len(down)
      BY <1>3, <2>1, <2>3, <3>2
    <3> QED
      BY <2>1, <3>1, <3>2
  <2> QED
    BY <2>1, <2>3
<1>4. CASE SessionMoves
  <2>1. joined' = joined /\ (joined # 0 => serving = "open")
    BY <1>2, <1>4 DEF SessionMoves, Attachment
  <2>2. CASE serving # "open"
    BY <1>2, <1>4, <2>1, <2>2, Moved
  <2>3. CASE serving = "open"
    <3> DEFINE line == StatusLine(status', session')
    <3>1. /\ down' = down \o <<line>> /\ line \in Lines
          /\ line.status = status' /\ line.session = session' /\ line.kind = "status"
      BY <1>2, <1>4, <2>3, Moved DEF StatusLine, Lines, StatusLines
    <3>2. joined # 0 /\ Ordered(down, joined)
      BY <1>2, <2>3 DEF Attachment
    <3>3. /\ Runs(line) => session' = joined \/ Over(down)
          /\ (session' = joined /\ status' \in {"starting", "running"}) \/ Over(down) \/ Terminal(line)
      <4>1. \/ session = joined /\ status \in {"starting", "running"}
            \/ Over(down)
        BY <1>2, <3>2
      <4>2. CASE Over(down)
        BY <4>2
      <4>3. CASE session = joined /\ status \in {"starting", "running"}
        BY <1>4, <3>1, <4>3
           DEF SessionMoves, Ladder!Begin, Ladder!Ready, Ladder!Halted, Ladder!Fail, Ladder!Halt,
               Runs, Terminal
      <4> QED
        BY <4>1, <4>2, <4>3
    <3>4. Ordered(down', joined') /\ (Over(down') <=> Over(down) \/ Terminal(line))
      <4> HIDE DEF line, Ordered, Over
      <4> QED
        BY <1>3, <2>1, <3>1, <3>2, <3>3
    <3> QED
      BY <2>1, <3>3, <3>4
  <2> QED
    BY <2>2, <2>3
<1>5. CASE ServicesMove \/ DaemonDies
  <2>1. UNCHANGED <<down, joined, session, status>>
    BY <1>5 DEF ServicesMove, DaemonDies, ladder, Ladder!Materialise, Ladder!Discard
  <2> QED
    BY <1>2, <2>1
<1>6. ASSUME UNCHANGED <<joined, session, status>>, NEW line \in Lines, line.kind # "status",
             down' \in {down, down \o <<line>>}
      PROVE  OwnSession'
  <2>1. ~Runs(line) /\ ~Terminal(line)
    BY <1>6 DEF Runs, Terminal
  <2>2. CASE down' = down
    BY <1>2, <1>6, <2>2
  <2>3. CASE down' = down \o <<line>>
    <3>1. Ordered(down', joined') /\ (Over(down') <=> Over(down))
      <4>1. Ordered(down, joined')
        BY <1>2, <1>6
      <4> HIDE DEF Ordered, Over
      <4> QED
        BY <1>3, <1>6, <2>1, <2>3, <4>1
    <3> QED
      BY <1>2, <1>6, <3>1
  <2> QED
    BY <1>6, <2>2, <2>3
<1>7. CASE EmitLog
  <2>1. [kind |-> "log"] \in Lines
    BY LineKinds
  <2>2. down' \in {down, down \o <<[kind |-> "log"]>>} /\ UNCHANGED <<joined, session, status>>
    BY <1>2, <1>7, SendsNothing DEF EmitLog, Send, ladder
  <2> QED
    BY <1>6, <2>1, <2>2
<1>8. CASE ServeRefusal \/ Confirm \/ ServeStatus
  <2>1. UNCHANGED <<joined, session, status>>
    BY <1>8 DEF ServeRefusal, Confirm, ServeStatus, daemonVars, ladder
  <2>2. owed \in Lines /\ Refusal \in Lines /\ [kind |-> "backfill"] \in Lines
        /\ owed.kind # "status" /\ Refusal.kind # "status"
    BY LineKinds DEF Queues
  <2>3. \E line \in {owed, Refusal, [kind |-> "backfill"]} : down' = down \o <<line>>
    BY <1>2, <1>8 DEF ServeRefusal, Confirm, ServeStatus, Send
  <2> QED
    BY <1>6, <2>1, <2>2, <2>3
<1>9. CASE ServeFirst \/ ServeJoin
  <2>1. "subscribe" \in LinesOf(up)
    BY <1>9, QueueTail DEF ServeFirst, ServeJoin, Serve, Queues
  <2>2. joined = 0
    BY <2>1 DEF OneSubscription, Attachment
  <2>3. \A line \in LinesOf(down) : ~Runs(line) /\ ~Terminal(line)
    BY <2>2 DEF Attachment, Runs, Terminal
  <2>4. Ordered(down, joined')
    BY <2>3 DEF LinesOf
  <2>5. session' = joined' /\ status' \in {"starting", "running"}
    BY <1>9 DEF ServeFirst, ServeJoin, ladder, Ladder!Begin
  <2>6. CASE ServeJoin
    BY <2>4, <2>5, <2>6 DEF ServeJoin
  <2>7. CASE ServeFirst
    <3> DEFINE line == StatusLine("starting", session')
    <3>1. down' = down \o <<line>> /\ line \in Lines /\ ~Runs(line)
      BY <1>2, <2>7, BoundsAssumption
         DEF ServeFirst, Send, StatusLine, Lines, StatusLines, Runs, Scalars, Ladder!Statuses
    <3>2. Ordered(down', joined')
      <4> HIDE DEF line, Ordered, Over
      <4> QED
        BY <1>3, <2>4, <3>1
    <3> QED
      BY <2>5, <3>2
  <2> QED
    BY <1>9, <2>6, <2>7
<1>10. CASE ServeStop
  <2>1. UNCHANGED <<joined, session>>
    BY <1>10, StopServed
  <2>2. CASE status \notin {"starting", "running"} \/ serving # "open"
    <3>1. down' = down /\ (serving = "open" => status' = status)
      BY <1>2, <1>10, <2>2, StopServed
    <3> QED
      BY <1>2, <2>1, <3>1 DEF Attachment
  <2>3. CASE status \in {"starting", "running"} /\ serving = "open"
    <3> DEFINE line == StatusLine("stopping", session)
    <3>1. down' = down \o <<line>> /\ line \in Lines /\ ~Runs(line) /\ Terminal(line)
      BY <1>2, <1>10, <2>3, StopServed
         DEF StatusLine, Lines, StatusLines, Runs, Terminal, Scalars, Ladder!Statuses
    <3>2. Ordered(down', joined') /\ Over(down')
      <4>1. Ordered(down, joined')
        BY <1>2, <2>1
      <4> HIDE DEF line, Ordered, Over
      <4> QED
        BY <1>3, <3>1, <4>1
    <3> QED
      BY <3>2
  <2> QED
    BY <2>2, <2>3
<1>11. CASE ServeClose
  BY <1>2, <1>11 DEF ServeClose
<1>12. ASSUME NEW kind, Receive(kind), ~Terminal(Head(down)), ~Runs(Head(down))
       PROVE  OwnSession'
  <2>1. /\ Len(down') = Len(down) - 1 /\ Head(down) = down[1] /\ Len(down) \in Nat
        /\ \A i \in 1..Len(down') : down'[i] = down[i+1] /\ i + 1 \in 1..Len(down)
        /\ LinesOf(down) = {Head(down)} \cup LinesOf(down')
    BY <1>12, QueueTail DEF Receive, Queues
  <2>2. UNCHANGED <<joined, session, status>>
    BY <1>12 DEF Receive, daemonVars, ladder
  <2>3. Over(down) => Over(down')
    BY <1>12, <2>1
  <2>4. ASSUME NEW i \in 1..Len(down'), Runs(down'[i])
        PROVE  down'[i].session = joined \/ \E j \in 1..i-1 : Terminal(down'[j])
    <3>1. down[i+1].session = joined \/ \E j \in 1..i : Terminal(down[j])
      BY <1>2, <2>1, <2>4
    <3>2. ASSUME NEW j \in 1..i, Terminal(down[j]) PROVE j - 1 \in 1..i-1 /\ Terminal(down'[j-1])
      <4>1. j # 1
        BY <1>12, <2>1, <3>2
      <4>2. j - 1 \in 1..i-1 /\ j - 1 \in 1..Len(down')
        BY <2>1, <4>1
      <4>3. down'[j-1] = down[j]
        BY <2>1, <4>2
      <4> QED
        BY <3>2, <4>2, <4>3
    <3> QED
      BY <2>1, <3>1, <3>2
  <2> QED
    BY <1>2, <2>2, <2>3, <2>4
<1>13. CASE Read
  <2>1. ASSUME NEW kind \in {"ack", "nack", "log", "backfill"}, Receive(kind)
        PROVE  OwnSession'
    <3>1. ~Terminal(Head(down)) /\ ~Runs(Head(down))
      BY <2>1, Received DEF Terminal, Runs
    <3> QED
      BY <1>12, <2>1, <3>1
  <2>2. CASE ReceiveStatus
    <3>1. ~Terminal(Head(down)) /\ ~Runs(Head(down))
      BY <1>2, <2>2 DEF ReceiveStatus, Settle, Terminal, Runs
    <3> QED
      BY <1>12, <2>2, <3>1 DEF ReceiveStatus
  <2> QED
    BY <1>13, <2>1, <2>2 DEF Read, ReceiveConfirmation, ReceiveLog, ReceiveBackfill
<1>14. CASE RunOn \/ BackfillTimesOut \/ WatchdogExpires \/ StopEnds \/ LoseSocket \/ Subscribe
              \/ Disconnect \/ Stop
  <2>1. UNCHANGED <<down, joined, session, status>>
    BY <1>2, <1>14
       DEF RunOn, Confirmed, Backfilled, Awaited, BackfillTimesOut, WatchdogExpires, StopEnds,
           LoseSocket, SocketError, SocketClose, SocketEvent, Subscribe, Disconnect, Stop,
           CloseByUser, CloseSub, daemonVars, ladder
  <2> QED
    BY <1>2, <2>1
<1> QED
  BY <1>4, <1>5, <1>7, <1>8, <1>9, <1>10, <1>11, <1>13, <1>14 DEF Next, Answer


(* Where no kind is filtered, every step keeps what moved in the pipe until *)
(* the timer is set again.                                                 *)
LEMMA HeardKept ==
    ASSUME ~Filtered, Scalars, Queues, OneSubscription, Attachment, Heard, Next
    PROVE  Heard'
<1> USE DEF Heard
<1> DEFINE Told(lines) == \E line \in lines : line.kind \in {"status", "log"}
<1> SUFFICES ASSUME timer' # "off", gate' = "pending", sock' = "open", progress' = TRUE
             PROVE  Told(LinesOf(down'))
  OBVIOUS
<1>1. CASE SessionMoves \/ EmitLog
  <2>1. timer = timer' /\ sock = "open" /\ serving = "open"
    BY <1>1 DEF SessionMoves, EmitLog, clientVars, Attachment
  <2>2. \E line \in LinesOf(down') : line.kind \in {"status", "log"}
    <3>1. CASE SessionMoves
      BY <2>1, <3>1, Moved DEF StatusLine
    <3>2. CASE EmitLog
      BY <2>1, <3>2, LineKinds, Sends DEF EmitLog, Listening
    <3> QED
      BY <1>1, <3>1, <3>2
  <2> QED
    BY <2>2
<1>2. CASE ServeFirst \/ ServeJoin \/ ServeRefusal
  <2>1. "subscribe" \in LinesOf(up) /\ timer' = timer
    BY <1>2, QueueTail DEF ServeFirst, ServeJoin, ServeRefusal, Serve, Queues, clientVars
  <2> QED
    BY <2>1 DEF OneSubscription, Attachment
<1>3. ASSUME NEW line \in Lines, Send(<<line>>), UNCHANGED <<timer, gate, sock, progress>>
      PROVE  Told(LinesOf(down'))
  BY <1>3, Sends
<1>4. CASE Confirm \/ ServeStatus
  <2>1. owed \in Lines /\ [kind |-> "backfill"] \in Lines
    BY LineKinds DEF Queues
  <2> QED
    BY <1>3, <1>4, <2>1 DEF Confirm, ServeStatus, clientVars
<1>5. CASE ServeStop
  <2>1. UNCHANGED <<timer, gate, sock>> /\ serving = "open"
    BY <1>5, StopServed DEF clientVars, Attachment
  <2>2. CASE status \in {"starting", "running"}
    BY <1>5, <2>1, <2>2, StopServed DEF StatusLine
  <2>3. CASE status \notin {"starting", "running"}
    BY <1>5, <2>1, <2>3, StopServed
  <2> QED
    BY <2>2, <2>3
<1>6. CASE ServeClose
  BY <1>6 DEF ServeClose, clientVars
<1>7. CASE ServicesMove \/ DaemonDies \/ Subscribe \/ BackfillTimesOut \/ Backfilled
  <2>1. UNCHANGED <<timer, sock, progress, down>> /\ gate = "pending"
    BY <1>7 DEF ServicesMove, DaemonDies, Subscribe, BackfillTimesOut, Backfilled, Settle, clientVars
  <2> QED
    BY <2>1
<1>8. CASE WatchdogExpires \/ Awaited
  BY <1>8 DEF WatchdogExpires, Awaited, Disarm
<1>9. CASE Confirmed
  <2>1. progress' = FALSE \/ sock' # "open"
    BY <1>9 DEF Confirmed, Arm, CloseSub
  <2> QED
    BY <2>1
<1>10. CASE StopEnds \/ Disconnect \/ Stop
  <2>1. UNCHANGED <<timer, sock, progress, down, gate>>
    BY <1>10 DEF StopEnds, Disconnect, Stop, CloseByUser, CloseSub
  <2> QED
    BY <2>1
<1>11. CASE LoseSocket
  BY <1>11 DEF LoseSocket, SocketError, SocketClose, SocketEvent
<1>12. CASE ReceiveConfirmation \/ ReceiveBackfill
  <2>1. UNCHANGED <<timer, sock, progress, gate>>
    BY <1>12 DEF ReceiveConfirmation, ReceiveBackfill, Receive
  <2>2. LinesOf(down) = {Head(down)} \cup LinesOf(down') /\ Head(down).kind \in {"ack", "nack", "backfill"}
    BY <1>12, Received DEF ReceiveConfirmation, ReceiveBackfill
  <2> QED
    BY <2>1, <2>2
<1>13. CASE ReceiveLog
  BY <1>13 DEF ReceiveLog, Arm
<1>14. CASE ReceiveStatus
  <2>1. timer' = "off" \/ progress' = FALSE
    BY <1>14 DEF ReceiveStatus, Arm, Disarm
  <2> QED
    BY <2>1
<1> QED
  BY <1>1, <1>2, <1>4, <1>5, <1>6, <1>7, <1>8, <1>9, <1>10, <1>11, <1>12, <1>13, <1>14
     DEF Next, Answer, Read, RunOn

-----------------------------------------------------------------------------
(* The invariant holds before the client subscribes.                       *)
LEMMA SessionInit == Init => SessionInv /\ Heard
<1> SUFFICES ASSUME Init PROVE SessionInv /\ Heard
  OBVIOUS
<1>0. /\ daemonUp \in BOOLEAN /\ attached \in BOOLEAN /\ progress \in BOOLEAN
      /\ key \in BOOLEAN /\ ended \in BOOLEAN /\ holding \in BOOLEAN
  BY Zenon DEF Init, Ladder!Init
<1>1. /\ status \in {"stopped", "running"} /\ session \in 0..MaxSessions
      /\ status # "stopped" => session > 0
  BY BoundsAssumption DEF Init, Ladder!Init
<1>2. Scalars
  BY <1>0, <1>1, BoundsAssumption DEF Init, Scalars, Ladder!Statuses
<1>3. Queues
  BY QueueEmpty DEF Init, Queues
<1>4. LinesOf(up) = {} /\ LinesOf(down) = {} /\ Len(down) = 0
  BY QueueEmpty DEF Init
<1>5. OneSubscription /\ Attachment
  BY <1>1, <1>4 DEF Init, OneSubscription, Attachment
<1>6. OwnSession /\ Truth /\ Loss /\ Heard
  BY <1>4 DEF Init, OwnSession, Truth, Loss, Heard
<1> QED
  BY <1>2, <1>3, <1>5, <1>6 DEF SessionInv

(* It holds where nothing changes.                                         *)
LEMMA SessionStutters == UNCHANGED vars /\ SessionInv => SessionInv'
BY DEF vars, daemonVars, clientVars, ladder, SessionInv, Scalars, Queues, OneSubscription, Attachment,
       OwnSession, Truth, Loss

(* Every step keeps it.                                                    *)
LEMMA SessionNext == SessionInv /\ [Next]_vars => SessionInv'
<1> SUFFICES ASSUME SessionInv, Next PROVE SessionInv'
  BY SessionStutters
<1> USE DEF SessionInv
<1>1. Scalars' /\ Queues'
  BY DaemonMoves, DaemonAnswers, ClientReads, ClientRunsOn, ClientMoves DEF Next
<1> QED
  BY <1>1, OneSubscriptionKept, AttachmentKept, OwnSessionKept, TruthKept, LossKept

(* So it always holds.                                                     *)
LEMMA SessionInductive == Safety => []SessionInv
BY SessionInit, SessionNext, PTL DEF Safety

(* The variables of a connection keep their types.                         *)
THEOREM SessionTypes == Safety => []TypeOK
<1>1. SessionInv => TypeOK
  BY Types DEF SessionInv
<1> QED
  BY <1>1, SessionInductive, PTL

(* A session that is handed out ran when the client heard of it, and is the *)
(* one it joined, whatever ran before or after on the same daemon          *)
(* (client/session.ts, the gate).                                          *)
THEOREM HandedOutIsRunning == Safety => []GateTellsTruth
<1>1. SessionInv => GateTellsTruth
  BY DEF SessionInv, Attachment, Truth, GateTellsTruth
<1> QED
  BY <1>1, SessionInductive, PTL

(* The loss of the daemon is told once, and never after the client let go  *)
(* (client/session.ts, handleDisconnect).                                  *)
THEOREM LossToldOnce == Safety => []LossIsToldOnce
<1>1. SessionInv => LossIsToldOnce
  BY DEF SessionInv, Scalars, Loss, LossIsToldOnce
<1> QED
  BY <1>1, SessionInductive, PTL

(* Where no kind of event is filtered, an expired watchdog means that the  *)
(* session said nothing at all since the timer was set.                    *)
THEOREM SilenceStalls == ASSUME ~Filtered PROVE Safety => []OnlySilenceStalls
<1>1. SessionInv /\ Heard /\ [Next]_vars => Heard'
  <2>1. UNCHANGED vars /\ Heard => Heard'
    BY DEF vars, daemonVars, clientVars, ladder, Heard
  <2> QED
    BY <2>1, HeardKept DEF SessionInv
<1>2. Safety => []Heard
  BY <1>1, SessionInit, SessionInductive, PTL DEF Safety
<1>3. Scalars /\ Heard => OnlySilenceStalls
  BY QueueEmpty DEF Scalars, Heard, OnlySilenceStalls
<1> QED
  BY <1>2, <1>3, SessionInductive, PTL DEF SessionInv
==============================================================================

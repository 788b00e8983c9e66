------------------------------ MODULE MCConnecting -----------------------------
(* Instances for TLC of the two halves of connectToDaemonSession(): how    *)
(* processes get the daemon of their worktree, and how one of them attaches *)
(* to its session.  The halves share no state; a behaviour is one of one.  *)
EXTENDS DaemonSpawn, ClientSession

VARIABLE half

MCInit == /\ half \in {"spawn", "attach"} /\ SpawnInit /\ Init
          /\ half = "attach" => sockFile = None
          /\ half = "spawn" => status = "stopped"

MCSpawning == half = "spawn" /\ SpawnNext /\ UNCHANGED <<half, vars>>
MCAttaching == half = "attach" /\ Next /\ UNCHANGED <<half, spawnVars>>

(* The half that was not chosen has no fair action that is enabled.        *)
MCSpec == /\ MCInit /\ [][MCSpawning \/ MCAttaching]_<<half, spawnVars, vars>>
          /\ SpawnFairness /\ SessionFairness

(* Both calls return, and a client whose call failed, or that has let go,  *)
(* keeps nothing alive, whoever hangs, crashes or goes away.               *)
CallsEnd == ConnectEnds /\ CallsReturn /\ LettingGo
=============================================================================

----------------------------- MODULE RegistryFile -----------------------------
(***************************************************************************)
(* src/daemon/registry.ts: the file in which the daemons of all worktrees  *)
(* keep one row each, rewritten under a lock file that is taken for stale  *)
(* when it names nobody alive, and given up on after 200 ms.  A daemon     *)
(* registers once it serves its socket, and unregisters when it has        *)
(* released its worktree's lock (daemon/index.ts:223-268).                 *)
(***************************************************************************)
EXTENDS Naturals, FiniteSets

CONSTANTS
    Daemons,      \* daemon processes, in the life of the machine
    Worktrees,
    WorktreeOf,   \* the worktree each daemon serves
    NoDaemon

ASSUME RegistryAssumption ==
    WorktreeOf \in [Daemons -> Worktrees] /\ NoDaemon \notin Daemons

VARIABLES
    rows,        \* the file: the daemon each worktree's row names
    rowLock,     \* registry.lock: "none", "unnamed", or "named"
    named,       \* the daemon the lock names, when it names one
    at,          \* where each daemon is
    leaving,     \* daemons that unregister; the others register
    inside,      \* daemons that hold a lock file they created
    next,        \* the rows each daemon is about to write
    entered,  \* history: daemons whose registerDaemon() has returned
    mishaps      \* history: what can lose a row

registryVars == <<rows, rowLock, named, at, leaving, inside, next, entered, mishaps>>

Locking == {"lock", "held", "reclaim"}
Transacting == {"pid", "read", "write", "release"}
Living(d) == at[d] \notin {"off", "gone"}
(* The worktree's own lock is held until the daemon unregisters.           *)
Owns(d) == Living(d) /\ d \notin leaving

RegistryTypeOK ==
    /\ rows \in [Worktrees -> Daemons \cup {NoDaemon}]
    /\ rowLock \in {"none", "unnamed", "named"} /\ named \in Daemons \cup {NoDaemon}
    /\ at \in [Daemons -> {"off", "up", "gone"} \cup Locking \cup Transacting]
    /\ leaving \cup inside \cup entered \subseteq Daemons
    /\ next \in [Daemons -> [Worktrees -> Daemons \cup {NoDaemon}]]
    /\ mishaps \subseteq {"overlap", "late unregister"}

RegistryInit ==
    /\ rows = [w \in Worktrees |-> NoDaemon]
    /\ rowLock = "none" /\ named = NoDaemon
    /\ at = [d \in Daemons |-> "off"]
    /\ leaving = {} /\ inside = {} /\ entered = {} /\ mishaps = {}
    /\ next = [d \in Daemons |-> rows]

-----------------------------------------------------------------------------
Dies(d, from, to) == at[d] = from /\ at' = [at EXCEPT ![d] = to]
Unlink == rowLock' = "none" /\ named' = NoDaemon

StartDaemon(d) ==
    /\ \A e \in Daemons : WorktreeOf[e] = WorktreeOf[d] => ~Owns(e)
    /\ Dies(d, "off", "lock")
    /\ UNCHANGED <<rows, rowLock, named, leaving, inside, next, entered, mishaps>>

StopDaemon(d) ==
    /\ Dies(d, "up", "lock") /\ leaving' = leaving \cup {d}
    /\ UNCHANGED <<rows, rowLock, named, inside, next, entered, mishaps>>

(* acquireRegistryLock()                                                   *)
CreateLock(d) ==
    /\ rowLock = "none" /\ rowLock' = "unnamed" /\ named' = NoDaemon
    /\ Dies(d, "lock", "pid") /\ inside' = inside \cup {d}
    /\ UNCHANGED <<rows, leaving, next, entered, mishaps>>

LockIsThere(d) ==
    /\ rowLock # "none" /\ Dies(d, "lock", "held")
    /\ UNCHANGED <<rows, rowLock, named, leaving, inside, next, entered, mishaps>>

(* Nobody is named, nobody alive is, or the file went: it is reclaimed.    *)
LookAtHolder(d) ==
    /\ Dies(d, "held", IF rowLock = "named" /\ Living(named) THEN "lock" ELSE "reclaim")
    /\ UNCHANGED <<rows, rowLock, named, leaving, inside, next, entered, mishaps>>

ReclaimLock(d) ==
    /\ Dies(d, "reclaim", "lock") /\ Unlink
    /\ UNCHANGED <<rows, leaving, inside, next, entered, mishaps>>

(* 200 ms of attempts have passed: go on without the lock.                 *)
Deadline(d) ==
    /\ rowLock # "none" /\ Dies(d, "lock", "read")
    /\ UNCHANGED <<rows, rowLock, named, leaving, inside, next, entered, mishaps>>

(* Through the descriptor: a file that was unlinked since is not named.    *)
NameHolder(d) ==
    /\ Dies(d, "pid", "read")
    /\ IF rowLock = "unnamed" /\ \A e \in inside : at[e] = "pid" => e = d
         THEN rowLock' = "named" /\ named' = d ELSE UNCHANGED <<rowLock, named>>
    /\ UNCHANGED <<rows, leaving, inside, next, entered, mishaps>>

-----------------------------------------------------------------------------
(* Mutant: the others' rows are not copied.                                *)
RegisterRowsAlone(d) == [w \in Worktrees |-> IF w = WorktreeOf[d] THEN d ELSE NoDaemon]

(* registerDaemon(): rows of the dead are swept, the own one is set.       *)
RegisterRows(d) ==
    [w \in Worktrees |-> IF w = WorktreeOf[d] THEN d
                         ELSE IF rows[w] # NoDaemon /\ Living(rows[w]) THEN rows[w]
                         ELSE NoDaemon]

(* unregisterDaemon(): the row of the worktree, whoever it names.          *)
UnregisterRows(d) == [rows EXCEPT ![WorktreeOf[d]] = NoDaemon]

ReadRows(d) ==
    /\ IF d \in leaving /\ rows[WorktreeOf[d]] = NoDaemon
         THEN Dies(d, "read", "release") /\ UNCHANGED <<next, mishaps>>
         ELSE /\ Dies(d, "read", "write")
              /\ next' = [next EXCEPT ![d] = IF d \in leaving THEN UnregisterRows(d)
                                                              ELSE RegisterRows(d)]
              /\ mishaps' = mishaps
                   \cup (IF \E e \in Daemons \ {d} : at[e] = "write" THEN {"overlap"} ELSE {})
                   \cup (IF d \in leaving /\ rows[WorktreeOf[d]] # d
                           THEN {"late unregister"} ELSE {})
    /\ UNCHANGED <<rows, rowLock, named, leaving, inside, entered>>

(* A file beside it, then a rename.                                        *)
WriteRows(d) ==
    /\ Dies(d, "write", "release") /\ rows' = next[d]
    /\ UNCHANGED <<rowLock, named, leaving, inside, next, entered, mishaps>>

ReleaseLock(d) ==
    /\ Dies(d, "release", IF d \in leaving THEN "gone" ELSE "up")
    /\ IF d \in inside THEN Unlink ELSE UNCHANGED <<rowLock, named>>
    /\ inside' = inside \ {d}
    /\ entered' = IF d \in leaving THEN entered \ {d} ELSE entered \cup {d}
    /\ UNCHANGED <<rows, leaving, next, mishaps>>

DaemonDies(d) ==
    /\ Living(d) /\ at' = [at EXCEPT ![d] = "gone"]
    /\ inside' = inside \ {d} /\ entered' = entered \ {d}
    /\ UNCHANGED <<rows, rowLock, named, leaving, next, mishaps>>

RegistryNext ==
    \E d \in Daemons :
        \/ StartDaemon(d) \/ StopDaemon(d) \/ DaemonDies(d)
        \/ CreateLock(d) \/ LockIsThere(d) \/ LookAtHolder(d) \/ ReclaimLock(d) \/ Deadline(d)
        \/ NameHolder(d) \/ ReadRows(d) \/ WriteRows(d) \/ ReleaseLock(d)
RegistrySpec == RegistryInit /\ [][RegistryNext]_registryVars

-----------------------------------------------------------------------------
(* A daemon that has registered and goes on is found under its worktree,   *)
(* unless two read-modify-writes have overlapped (a lock without a name,   *)
(* or a reclaim that raced, or the deadline), or a daemon that left        *)
(* unregistered the row of the one that follows it.                        *)
RowKept ==
    mishaps = {} => \A d \in entered : at[d] = "up" => rows[WorktreeOf[d]] = d

(* "The worst case is one entry briefly missing, which the next boot's     *)
(* sweep adds back" (registry.ts:29-32, 196-199): a boot that reads the    *)
(* file writes a row for every daemon that goes on.                        *)
NextBootAddsBack ==
    [][\A d \in Daemons \ leaving, e \in entered :
          at[d] = "read" /\ at'[d] = "write" /\ at[e] = "up"
              => next'[d][WorktreeOf[e]] # NoDaemon]_registryVars
==============================================================================

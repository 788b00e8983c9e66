---------------------------- MODULE Stores_proofs -----------------------------
(***************************************************************************)
(* Proofs about what several processes keep on disk.                       *)
(*                                                                         *)
(* RegistryFile, for any daemons and worktrees: the file keeps every row   *)
(* as long as no two read-modify-writes overlap and nobody removes the row *)
(* of another. The lock file does not occur in the argument: all that it   *)
(* is for is that writers do not overlap, and its weaknesses are the ways  *)
(* to an overlap. What else the rows need is the worktree's own lock, by   *)
(* which one daemon at most owns a row (OwnersApart).                      *)
(*                                                                         *)
(* Preparation, for any number of boots, cleans and fixes: a clean that    *)
(* nothing overlapped keeps its promise. What it has not done is still     *)
(* ahead of it (StillToDo), in the order of its program.                   *)
(*                                                                         *)
(* ModuleCatalog, for any modules and requests: disk, registry and         *)
(* subscribers agree. The argument is one of ownership: a module that is   *)
(* clean is worked on by one request at a time (ApartUnlessOverlapped), so *)
(* what a request knew of it when it began is so at each of its steps      *)
(* (DisablingFits, InstallFits, ChangesFit).                               *)
(*                                                                         *)
(* AuditLog, for any writers and generations, however many entries: the    *)
(* log is evidence. The invariant says of each file what a verifier will   *)
(* see, and of the writer inside that it knows what its entry is to be     *)
(* linked to (KnowsTail). Links go over generations that are empty         *)
(* (Nearest), which is where a rotation is half-way.                       *)
(* As long as nothing has happened that breaks the chain, it also grows as *)
(* EvidenceLog says, at its end: the numbers ascend through the files, and *)
(* the last entry is in one of them (OrderInv), so it is the one that the  *)
(* writer inside knows (TailIsLast).                                       *)
(***************************************************************************)
EXTENDS RegistryFile, Preparation, ModuleCatalog, AuditLog, WellFoundedInduction, TLAPS

(* The row of these is in the file; they have written it and go on.        *)
Registered(d) == at[d] \in {"release", "up"} /\ d \notin leaving

OwnersApart == \A d, e \in Daemons : Owns(d) /\ Owns(e) /\ WorktreeOf[d] = WorktreeOf[e] => d = e

(* Before it stops, a daemon that serves is not leaving.                   *)
UpIsNotLeaving == \A d \in Daemons : d \in leaving => at[d] \notin {"off", "up"}

RowsOfRegistered == \A d \in Daemons : Registered(d) => rows[WorktreeOf[d]] = d

OneWriter == \A d, e \in Daemons : at[d] = "write" /\ at[e] = "write" => d = e

(* What is about to be written has the rows of all who are registered, and *)
(* the writer's own when it registers.                                     *)
NextKeepsRows ==
    \A d \in Daemons : at[d] = "write" =>
        /\ \A e \in Daemons : Registered(e) => next[d][WorktreeOf[e]] = e
        /\ d \notin leaving => next[d][WorktreeOf[d]] = d

(* The inductive invariant.                                                *)
RegistryInv ==
    /\ RegistryTypeOK
    /\ OwnersApart
    /\ UpIsNotLeaving
    /\ mishaps = {} => RowsOfRegistered /\ OneWriter /\ NextKeepsRows

-----------------------------------------------------------------------------
(* The invariant holds of an empty file.                                   *)
LEMMA RegistryInvInit == RegistryInit => RegistryInv
BY RegistryAssumption
   DEF RegistryInit, RegistryInv, RegistryTypeOK, OwnersApart, UpIsNotLeaving, RowsOfRegistered,
       OneWriter, NextKeepsRows, Registered, Owns, Living, Locking, Transacting

(* A step on the way through the lock, or a crash: nobody becomes an owner,*)
(* registered or a writer by it, and no rows change.                       *)
Quietly(d) ==
    /\ at' \in [Daemons -> {"off", "up", "gone"} \cup Locking \cup Transacting]
    /\ \A e \in Daemons \ {d} : at'[e] = at[e]
    /\ Living(d) /\ at'[d] \notin {"off", "up", "write"}
    /\ at'[d] = "release" => d \in leaving
    /\ UNCHANGED <<rows, leaving, next, mishaps>>

(* A step at which nobody comes to write or is registered keeps the       *)
(* invariant.                                                              *)
LEMMA QuietlyKeeps ==
    ASSUME RegistryInv, NEW d \in Daemons, Quietly(d)
    PROVE  OwnersApart' /\ UpIsNotLeaving'
           /\ (mishaps' = {} => RowsOfRegistered' /\ OneWriter' /\ NextKeepsRows')
<1> USE DEF Quietly
<1>1. \A e \in Daemons : Owns(e)' => Owns(e)
  BY DEF Owns, Living
<1>2. OwnersApart'
  BY <1>1 DEF RegistryInv, OwnersApart
<1>3. UpIsNotLeaving'
  BY DEF RegistryInv, UpIsNotLeaving
<1>4. \A e \in Daemons : Registered(e)' => Registered(e)
  BY DEF Registered
<1>5. \A e \in Daemons : at'[e] = "write" => at[e] = "write"
  OBVIOUS
<1> QED
  BY <1>2, <1>3, <1>4, <1>5 DEF RegistryInv, RowsOfRegistered, OneWriter, NextKeepsRows

-----------------------------------------------------------------------------
(* Every step keeps the types.                                             *)
LEMMA RegistryTypeKept == RegistryInv /\ RegistryNext => RegistryTypeOK'
<1> SUFFICES ASSUME RegistryInv, NEW d \in Daemons,
                    \/ StartDaemon(d) \/ StopDaemon(d) \/ DaemonDies(d)
                    \/ CreateLock(d) \/ LockIsThere(d) \/ LookAtHolder(d) \/ ReclaimLock(d)
                    \/ Deadline(d) \/ NameHolder(d) \/ ReadRows(d) \/ WriteRows(d)
                    \/ ReleaseLock(d)
             PROVE  RegistryTypeOK'
  BY DEF RegistryNext
<1> USE DEF RegistryInv, RegistryTypeOK, Dies, Locking, Transacting, Unlink
<1>1. CASE StartDaemon(d)
  BY <1>1 DEF StartDaemon
<1>2. CASE StopDaemon(d)
  BY <1>2 DEF StopDaemon
<1>3. CASE DaemonDies(d)
  BY <1>3 DEF DaemonDies
<1>4. CASE CreateLock(d)
  BY <1>4 DEF CreateLock
<1>5. CASE LockIsThere(d)
  BY <1>5 DEF LockIsThere
<1>6. CASE LookAtHolder(d)
  BY <1>6 DEF LookAtHolder
<1>7. CASE ReclaimLock(d)
  BY <1>7 DEF ReclaimLock
<1>8. CASE Deadline(d)
  BY <1>8 DEF Deadline
<1>9. CASE NameHolder(d)
  BY <1>9 DEF NameHolder
<1>10. CASE ReadRows(d)
  <2>1. WorktreeOf[d] \in Worktrees
    BY RegistryAssumption
  <2>2. RegisterRows(d) \in [Worktrees -> Daemons \cup {NoDaemon}]
    BY DEF RegisterRows
  <2>3. UnregisterRows(d) \in [Worktrees -> Daemons \cup {NoDaemon}]
    BY <2>1 DEF UnregisterRows
  <2>4. next' \in [Daemons -> [Worktrees -> Daemons \cup {NoDaemon}]]
    <3>1. \/ next' = next \/ next' = [next EXCEPT ![d] = UnregisterRows(d)]
          \/ next' = [next EXCEPT ![d] = RegisterRows(d)]
      BY <1>10 DEF ReadRows
    <3>2. next \in [Daemons -> [Worktrees -> Daemons \cup {NoDaemon}]]
      OBVIOUS
    <3>3. [next EXCEPT ![d] = UnregisterRows(d)]
              \in [Daemons -> [Worktrees -> Daemons \cup {NoDaemon}]]
      BY <2>3, <3>2
    <3>4. [next EXCEPT ![d] = RegisterRows(d)]
              \in [Daemons -> [Worktrees -> Daemons \cup {NoDaemon}]]
      BY <2>2, <3>2
    <3> QED
      BY <3>1, <3>2, <3>3, <3>4
  <2> QED
    BY <1>10, <2>4 DEF ReadRows
<1>11. CASE WriteRows(d)
  BY <1>11 DEF WriteRows
<1>12. CASE ReleaseLock(d)
  BY <1>12 DEF ReleaseLock
<1> QED
  BY <1>1, <1>2, <1>3, <1>4, <1>5, <1>6, <1>7, <1>8, <1>9, <1>10, <1>11, <1>12

(* A daemon starts only where the worktree has no owner.                   *)
LEMMA StartKeeps ==
    ASSUME RegistryInv, NEW d \in Daemons, StartDaemon(d)
    PROVE  OwnersApart' /\ UpIsNotLeaving'
           /\ (mishaps' = {} => RowsOfRegistered' /\ OneWriter' /\ NextKeepsRows')
<1>1. /\ \A e \in Daemons \ {d} : at'[e] = at[e]
      /\ at[d] = "off" /\ at'[d] = "lock"
      /\ UNCHANGED <<rows, leaving, next, mishaps>>
  BY DEF StartDaemon, Dies, RegistryInv, RegistryTypeOK
<1>2. \A e \in Daemons : WorktreeOf[e] = WorktreeOf[d] => ~Owns(e)
  BY DEF StartDaemon
<1>3. \A e \in Daemons : Owns(e)' => Owns(e) \/ e = d
  BY <1>1 DEF Owns, Living
<1>4. OwnersApart'
  BY <1>2, <1>3 DEF RegistryInv, OwnersApart
<1>5. UpIsNotLeaving'
  BY <1>1 DEF RegistryInv, UpIsNotLeaving
<1>6. \A e \in Daemons : /\ Registered(e)' => Registered(e)
                         /\ at'[e] = "write" => at[e] = "write"
  BY <1>1 DEF Registered
<1> QED
  BY <1>1, <1>4, <1>5, <1>6 DEF RegistryInv, RowsOfRegistered, OneWriter, NextKeepsRows

(* A daemon that stops begins to take back its own row.                    *)
LEMMA StopKeeps ==
    ASSUME RegistryInv, NEW d \in Daemons, StopDaemon(d)
    PROVE  OwnersApart' /\ UpIsNotLeaving'
           /\ (mishaps' = {} => RowsOfRegistered' /\ OneWriter' /\ NextKeepsRows')
<1>1. /\ \A e \in Daemons \ {d} : at'[e] = at[e]
      /\ at[d] = "up" /\ at'[d] = "lock"
      /\ leaving' = leaving \cup {d}
      /\ UNCHANGED <<rows, next, mishaps>>
  BY DEF StopDaemon, Dies, RegistryInv, RegistryTypeOK
<1>2. \A e \in Daemons : Owns(e)' => Owns(e)
  BY <1>1 DEF Owns, Living
<1>3. OwnersApart'
  BY <1>2 DEF RegistryInv, OwnersApart
<1>4. UpIsNotLeaving'
  BY <1>1 DEF RegistryInv, UpIsNotLeaving
<1>5. \A e \in Daemons : /\ Registered(e)' => Registered(e)
                         /\ at'[e] = "write" =>
                               at[e] = "write" /\ (e \in leaving <=> e \in leaving')
  BY <1>1 DEF Registered
<1> QED
  BY <1>1, <1>3, <1>4, <1>5 DEF RegistryInv, RowsOfRegistered, OneWriter, NextKeepsRows

(* What a registering daemon is about to write has the row of everybody    *)
(* who is registered: of the same worktree there is nobody but itself.     *)
LEMMA ReadKeeps ==
    ASSUME RegistryInv, NEW d \in Daemons, ReadRows(d)
    PROVE  OwnersApart' /\ UpIsNotLeaving'
           /\ (mishaps' = {} => RowsOfRegistered' /\ OneWriter' /\ NextKeepsRows')
<1>1. CASE d \in leaving /\ rows[WorktreeOf[d]] = NoDaemon
  <2>1. Quietly(d)
    BY <1>1 DEF ReadRows, Quietly, Dies, RegistryInv, RegistryTypeOK, Living, Locking, Transacting
  <2> QED
    BY <2>1, QuietlyKeeps
<1>2. CASE ~(d \in leaving /\ rows[WorktreeOf[d]] = NoDaemon)
  <2>1. /\ \A e \in Daemons \ {d} : at'[e] = at[e]
        /\ at[d] = "read" /\ at'[d] = "write"
        /\ next' = [next EXCEPT ![d] = IF d \in leaving THEN UnregisterRows(d)
                                                        ELSE RegisterRows(d)]
        /\ mishaps' = mishaps
                   \cup (IF \E e \in Daemons \ {d} : at[e] = "write" THEN {"overlap"} ELSE {})
                   \cup (IF d \in leaving /\ rows[WorktreeOf[d]] # d
                           THEN {"late unregister"} ELSE {})
        /\ UNCHANGED <<rows, leaving>>
    BY <1>2 DEF ReadRows, Dies, RegistryInv, RegistryTypeOK
  <2>2. \A e \in Daemons : Owns(e)' => Owns(e)
    BY <2>1 DEF Owns, Living
  <2>3. OwnersApart'
    BY <2>2 DEF RegistryInv, OwnersApart
  <2>4. UpIsNotLeaving'
    BY <2>1 DEF RegistryInv, UpIsNotLeaving
  <2>5. ASSUME mishaps' = {}
        PROVE  RowsOfRegistered' /\ OneWriter' /\ NextKeepsRows'
    <3>1. /\ mishaps = {}
          /\ \A e \in Daemons \ {d} : at[e] # "write"
          /\ d \in leaving => rows[WorktreeOf[d]] = d
      BY <2>1, <2>5
    <3>2. RowsOfRegistered /\ OneWriter /\ NextKeepsRows
      BY <3>1 DEF RegistryInv
    <3>3. \A e \in Daemons : Registered(e)' => Registered(e) /\ e # d
      BY <2>1 DEF Registered
    <3>4. RowsOfRegistered'
      BY <2>1, <3>2, <3>3 DEF RowsOfRegistered
    <3>5. OneWriter'
      BY <2>1, <3>1 DEF OneWriter
    <3>6. \A e \in Daemons : Registered(e)' => next'[d][WorktreeOf[e]] = e
      <4> SUFFICES ASSUME NEW e \in Daemons, Registered(e), e # d
                   PROVE  next'[d][WorktreeOf[e]] = e
        BY <3>3
      <4>1. rows[WorktreeOf[e]] = e /\ WorktreeOf[e] \in Worktrees /\ Owns(e) /\ e # NoDaemon
        BY <3>2, RegistryAssumption DEF RowsOfRegistered, Registered, Owns, Living
      <4>2. CASE d \in leaving
        <5>1. WorktreeOf[e] # WorktreeOf[d]
          BY <3>1, <4>1, <4>2
        <5>2. next'[d] = UnregisterRows(d)
          BY <2>1, <4>2 DEF RegistryInv, RegistryTypeOK
        <5> QED
          BY <4>1, <5>1, <5>2 DEF UnregisterRows, RegistryInv, RegistryTypeOK
      <4>3. CASE d \notin leaving
        <5>1. Owns(d)
          BY <2>1, <4>3 DEF Owns, Living
        <5>2. WorktreeOf[e] # WorktreeOf[d]
          BY <4>1, <5>1 DEF RegistryInv, OwnersApart
        <5>3. next'[d] = RegisterRows(d)
          BY <2>1, <4>3 DEF RegistryInv, RegistryTypeOK
        <5> QED
          BY <4>1, <5>2, <5>3 DEF RegisterRows, Owns
      <4> QED
        BY <4>2, <4>3
    <3>7. d \notin leaving' => next'[d][WorktreeOf[d]] = d
      BY <2>1, RegistryAssumption DEF RegisterRows, RegistryInv, RegistryTypeOK
    <3>8. NextKeepsRows'
      <4> SUFFICES ASSUME NEW x \in Daemons, at'[x] = "write"
                   PROVE  /\ \A e \in Daemons : Registered(e)' => next'[x][WorktreeOf[e]] = e
                          /\ x \notin leaving' => next'[x][WorktreeOf[x]] = x
        BY DEF NextKeepsRows
      <4>1. x = d
        BY <2>1, <3>1
      <4> QED
        BY <3>6, <3>7, <4>1
    <3> QED
      BY <3>4, <3>5, <3>8
  <2> QED
    BY <2>3, <2>4, <2>5
<1> QED
  BY <1>1, <1>2

(* The write puts in place what was made of the rows that were read.       *)
LEMMA WriteKeeps ==
    ASSUME RegistryInv, NEW d \in Daemons, WriteRows(d)
    PROVE  OwnersApart' /\ UpIsNotLeaving'
           /\ (mishaps' = {} => RowsOfRegistered' /\ OneWriter' /\ NextKeepsRows')
<1>1. /\ \A e \in Daemons \ {d} : at'[e] = at[e]
      /\ at[d] = "write" /\ at'[d] = "release" /\ rows' = next[d]
      /\ UNCHANGED <<leaving, next, mishaps>>
  BY DEF WriteRows, Dies, RegistryInv, RegistryTypeOK
<1>2. \A e \in Daemons : Owns(e)' => Owns(e)
  BY <1>1 DEF Owns, Living
<1>3. OwnersApart'
  BY <1>2 DEF RegistryInv, OwnersApart
<1>4. UpIsNotLeaving'
  BY <1>1 DEF RegistryInv, UpIsNotLeaving
<1>5. ASSUME mishaps' = {}
      PROVE  RowsOfRegistered' /\ OneWriter' /\ NextKeepsRows'
  <2>1. OneWriter /\ NextKeepsRows
    BY <1>1, <1>5 DEF RegistryInv
  <2>2. \A e \in Daemons : at'[e] # "write"
    BY <1>1, <2>1 DEF OneWriter
  <2>3. \A e \in Daemons : Registered(e)' => Registered(e) \/ (e = d /\ d \notin leaving)
    BY <1>1 DEF Registered
  <2>4. RowsOfRegistered'
    BY <1>1, <2>1, <2>3 DEF RowsOfRegistered, NextKeepsRows
  <2> QED
    BY <2>2, <2>4 DEF OneWriter, NextKeepsRows
<1> QED
  BY <1>3, <1>4, <1>5

(* The release of the lock file ends a read-modify-write.                  *)
LEMMA ReleaseKeeps ==
    ASSUME RegistryInv, NEW d \in Daemons, ReleaseLock(d)
    PROVE  OwnersApart' /\ UpIsNotLeaving'
           /\ (mishaps' = {} => RowsOfRegistered' /\ OneWriter' /\ NextKeepsRows')
<1>1. /\ \A e \in Daemons \ {d} : at'[e] = at[e]
      /\ at[d] = "release" /\ at'[d] = (IF d \in leaving THEN "gone" ELSE "up")
      /\ UNCHANGED <<rows, leaving, next, mishaps>>
  BY DEF ReleaseLock, Dies, RegistryInv, RegistryTypeOK
<1>2. \A e \in Daemons : Owns(e)' => Owns(e)
  BY <1>1 DEF Owns, Living
<1>3. OwnersApart'
  BY <1>2 DEF RegistryInv, OwnersApart
<1>4. UpIsNotLeaving'
  BY <1>1 DEF RegistryInv, UpIsNotLeaving
<1>5. \A e \in Daemons : /\ Registered(e)' => Registered(e)
                         /\ at'[e] = "write" => at[e] = "write"
  BY <1>1 DEF Registered
<1> QED
  BY <1>1, <1>3, <1>4, <1>5 DEF RegistryInv, RowsOfRegistered, OneWriter, NextKeepsRows

(* Every step keeps the invariant.                                         *)
LEMMA RegistryInvNext == RegistryInv /\ [RegistryNext]_registryVars => RegistryInv'
<1> SUFFICES ASSUME RegistryInv, [RegistryNext]_registryVars PROVE RegistryInv'
  OBVIOUS
<1>1. CASE UNCHANGED registryVars
  BY <1>1 DEF registryVars, RegistryInv, RegistryTypeOK, OwnersApart, UpIsNotLeaving,
              RowsOfRegistered,
              OneWriter, NextKeepsRows, Registered, Owns, Living
<1>2. ASSUME NEW d \in Daemons,
             \/ StartDaemon(d) \/ StopDaemon(d) \/ DaemonDies(d)
             \/ CreateLock(d) \/ LockIsThere(d) \/ LookAtHolder(d) \/ ReclaimLock(d)
             \/ Deadline(d) \/ NameHolder(d) \/ ReadRows(d) \/ WriteRows(d)
             \/ ReleaseLock(d)
      PROVE  RegistryInv'
  <2>0. RegistryTypeOK'
    BY <1>2, RegistryTypeKept DEF RegistryNext
  <2>1. CASE StartDaemon(d)
    BY <2>0, <2>1, StartKeeps DEF RegistryInv
  <2>2. CASE StopDaemon(d)
    BY <2>0, <2>2, StopKeeps DEF RegistryInv
  <2>3. CASE ReadRows(d)
    BY <2>0, <2>3, ReadKeeps DEF RegistryInv
  <2>4. CASE WriteRows(d)
    BY <2>0, <2>4, WriteKeeps DEF RegistryInv
  <2>5. CASE ReleaseLock(d)
    BY <2>0, <2>5, ReleaseKeeps DEF RegistryInv
  <2>6. CASE DaemonDies(d) \/ CreateLock(d) \/ LockIsThere(d) \/ LookAtHolder(d)
             \/ ReclaimLock(d) \/ Deadline(d) \/ NameHolder(d)
    <3>1. Quietly(d)
      <4>1. at \in [Daemons -> {"off", "up", "gone"} \cup Locking \cup Transacting]
        BY DEF RegistryInv, RegistryTypeOK
      <4>2. ASSUME NEW from \in {"lock", "held", "reclaim", "pid"},
                   NEW to \in {"lock", "held", "reclaim", "pid", "read"}, Dies(d, from, to),
                   UNCHANGED <<rows, leaving, next, mishaps>>
            PROVE  Quietly(d)
        BY <4>1, <4>2 DEF Dies, Quietly, Living, Locking, Transacting
      <4>3. CASE DaemonDies(d)
        BY <4>1, <4>3 DEF DaemonDies, Quietly, Living
      <4>4. CASE CreateLock(d)
        BY <4>2, <4>4 DEF CreateLock
      <4>5. CASE LockIsThere(d)
        BY <4>2, <4>5 DEF LockIsThere
      <4>6. CASE LookAtHolder(d)
        BY <4>2, <4>6 DEF LookAtHolder
      <4>7. CASE ReclaimLock(d)
        BY <4>2, <4>7 DEF ReclaimLock
      <4>8. CASE Deadline(d)
        BY <4>2, <4>8 DEF Deadline
      <4>9. CASE NameHolder(d)
        BY <4>2, <4>9 DEF NameHolder
      <4> QED
        BY <2>6, <4>3, <4>4, <4>5, <4>6, <4>7, <4>8, <4>9
    <3> QED
      BY <2>0, <3>1, QuietlyKeeps DEF RegistryInv
  <2> QED
    BY <1>2, <2>1, <2>2, <2>3, <2>4, <2>5, <2>6
<1> QED
  BY <1>1, <1>2 DEF RegistryNext

(* A daemon that has registered and goes on is found under its worktree as *)
(* long as writers have not overlapped and nobody has removed another's    *)
(* row (daemon/registry.ts), for any number of daemons and worktrees.      *)
THEOREM RowsKept == RegistrySpec => []RowKept
<1>1. RegistryInv => RowKept
  BY DEF RegistryInv, RowKept, RowsOfRegistered, Registered, UpIsNotLeaving, RegistryTypeOK
<1> QED
  BY RegistryInvInit, RegistryInvNext, <1>1, PTL DEF RegistrySpec

-----------------------------------------------------------------------------
(* The modes that clean,                                                   *)
Cleans == {"clean", "ultra-clean"}

(* and all; fix() has none.                                                *)
Modes == {"none", "dirty"} \cup Cleans

(* What the programs of the two processes are made of.                     *)
StepNames == Checks \cup {"settle", "preflight", "auto-install", "remove-pods",
                         "remove-node-modules", "install-dependencies", "pod-install"}

(* An installer runs only for a process with a step under way.             *)
PrepTypes ==
    /\ steps \in [Processes -> Seq(StepNames)]
    /\ with \in [Processes -> Managers \cup {"none"}]
    /\ spoiled \in [Processes -> BOOLEAN] /\ marred \in [Processes -> BOOLEAN]
    /\ latest \in Processes \X Modes
    /\ \A p \in Processes : with[p] # "none" => steps[p] # <<>>
    /\ declared \in Managers \cup {"none"} /\ newer \in Managers

(* The last to begin has promised to leave the worktree whole.             *)
Promises(p) == latest[1] = p /\ latest[2] \in Cleans /\ ~marred[p]

(* Only the pods are left to install,                                      *)
PodsLeft(s) == Len(s) = 1 /\ s[1] = "pod-install"

(* or everything is.                                                       *)
Ahead(s) ==
    /\ Len(s) >= 2
    /\ s[Len(s)] = "pod-install" /\ s[Len(s) - 1] = "install-dependencies"
    /\ \A i \in 1..(Len(s) - 2) : s[i] \notin {"install-dependencies", "pod-install"}

(* What is not there yet is still to be done, by the steps that are left.  *)
StillToDo(p) ==
    \/ Len(steps[p]) = 0 /\ with[p] = "none" /\ modules.whole /\ pods = batch
    \/ PodsLeft(steps[p]) /\ with[p] = "none" /\ modules.whole
    \/ Ahead(steps[p])

(* The other process does nothing, and its installers run no more.         *)
Undisturbed(p) == Idle(Other(p)) /\ (with[p] # "none" => ~spoiled[p])

(* The inductive invariant of Preparation.                                 *)
PrepInv ==
    /\ PrepTypes
    /\ \A p \in Processes : Promises(p) => Undisturbed(p) /\ StillToDo(p)

(* There are two processes.                                                *)
LEMMA TheOther ==
    ASSUME NEW p \in Processes
    PROVE  /\ Other(p) \in Processes /\ Other(p) # p
           /\ \A q \in Processes : q = p \/ q = Other(p)
BY DEF Processes, Other

(* A step before the last two leaves those to be done.                     *)
LEMMA StepByStep ==
    ASSUME NEW s \in Seq(StepNames), Ahead(s)
    PROVE  /\ s # <<>> /\ Head(s) # "pod-install"
           /\ Head(s) # "install-dependencies" => Ahead(Tail(s))
           /\ Head(s) = "install-dependencies" => PodsLeft(Tail(s))
<1>1. Len(s) \in Nat /\ Len(s) >= 2 /\ Head(s) = s[1] /\ s # <<>>
  BY DEF Ahead
<1>2. /\ Tail(s) \in Seq(StepNames) /\ Len(Tail(s)) = Len(s) - 1
      /\ \A i \in 1..(Len(s) - 1) : Tail(s)[i] = s[i + 1]
  BY <1>1
<1>3. CASE Len(s) = 2
  <2>1. s[1] = "install-dependencies" /\ s[2] = "pod-install"
    BY <1>3 DEF Ahead
  <2>2. PodsLeft(Tail(s))
    BY <1>2, <1>3, <2>1 DEF PodsLeft
  <2>3. Head(s) = "install-dependencies"
    BY <1>1, <2>1
  <2> QED
    BY <1>1, <2>2, <2>3
<1>4. CASE Len(s) > 2
  <2>1. s[1] \notin {"install-dependencies", "pod-install"}
    BY <1>1, <1>4 DEF Ahead
  <2>2. Tail(s)[Len(s) - 1] = s[Len(s)] /\ Tail(s)[Len(s) - 2] = s[Len(s) - 1]
    BY <1>1, <1>2, <1>4
  <2>3. \A i \in 1..(Len(s) - 3) : Tail(s)[i] = s[i + 1] /\ i + 1 \in 1..(Len(s) - 2)
    BY <1>1, <1>2
  <2>4. Ahead(Tail(s))
    BY <1>1, <1>2, <1>4, <2>2, <2>3 DEF Ahead
  <2> QED
    BY <1>1, <2>1, <2>4
<1>5. Len(s) = 2 \/ Len(s) > 2
  BY <1>1
<1> QED
  BY <1>3, <1>4, <1>5

(* The programs that clean end with the installs,                          *)
LEMMA CleanPrograms ==
    ASSUME NEW mode \in Cleans
    PROVE  Ahead(getStepsForMode(mode))
<1>1. CASE mode = "clean"
  BY <1>1 DEF getStepsForMode, Ahead
<1>2. CASE mode = "ultra-clean"
  BY <1>2 DEF getStepsForMode, Ahead
<1> QED
  BY <1>1, <1>2 DEF Cleans

(* all are made of steps,                                                  *)
LEMMA ProgramsAre ==
    ASSUME NEW mode \in Modes \ {"none"}
    PROVE  getStepsForMode(mode) \in Seq(StepNames)
<1>1. CASE mode = "dirty"
  BY <1>1 DEF getStepsForMode
<1>2. CASE mode = "clean"
  BY <1>2 DEF getStepsForMode, StepNames
<1>3. CASE mode = "ultra-clean"
  BY <1>3 DEF getStepsForMode, StepNames
<1> QED
  BY <1>1, <1>2, <1>3 DEF Modes, Cleans

(* (where a sequence ends the next begins)                                 *)
LEMMA OneAfterTheOther ==
    ASSUME NEW S, NEW s \in Seq(S), NEW t \in Seq(S)
    PROVE  /\ s \o t \in Seq(S) /\ Len(s \o t) = Len(s) + Len(t)
           /\ \A i \in 1..Len(s) : (s \o t)[i] = s[i]
           /\ \A i \in 1..Len(t) : (s \o t)[Len(s) + i] = t[i]
OBVIOUS

(* and so are those of a boot, which has steps of its own before.          *)
LEMMA BootPrograms ==
    ASSUME NEW s \in Seq(StepNames)
    PROVE  /\ <<"settle", "preflight", "auto-install">> \o s \in Seq(StepNames)
           /\ Ahead(s) => Ahead(<<"settle", "preflight", "auto-install">> \o s)
<1> SUFFICES ASSUME NEW t, t = <<"settle", "preflight", "auto-install">>
             PROVE  t \o s \in Seq(StepNames) /\ (Ahead(s) => Ahead(t \o s))
  OBVIOUS
<1>1. /\ t \in Seq(StepNames) /\ Len(t) = 3
      /\ \A i \in 1..3 : t[i] \notin {"install-dependencies", "pod-install"}
  BY DEF StepNames
<1>4. /\ t \o s \in Seq(StepNames) /\ Len(t \o s) = Len(t) + Len(s)
      /\ \A i \in 1..Len(t) : (t \o s)[i] = t[i]
      /\ \A i \in 1..Len(s) : (t \o s)[Len(t) + i] = s[i]
  <2>1. t \in Seq(StepNames)
    BY <1>1
  <2> QED
    BY <2>1, OneAfterTheOther
<1>2. /\ t \o s \in Seq(StepNames) /\ Len(t \o s) = 3 + Len(s) /\ Len(s) \in Nat
      /\ \A i \in 1..3 : (t \o s)[i] = t[i]
      /\ \A i \in 1..Len(s) : (t \o s)[3 + i] = s[i]
  BY <1>1, <1>4
<1>3. ASSUME Ahead(s) PROVE Ahead(t \o s)
  <2> DEFINE n == Len(s)
  <2>1. n \in Nat /\ n >= 2
    BY <1>2, <1>3 DEF Ahead
  <2>2. (t \o s)[3 + n] = s[n] /\ (t \o s)[3 + (n - 1)] = s[n - 1]
    BY <1>2, <2>1
  <2>3. \A i \in 1..(3 + n - 2) : (t \o s)[i] \notin {"install-dependencies", "pod-install"}
    <3>0. \A i \in 1..Len(s) : (t \o s)[3 + i] = s[i]
      BY <1>2
    <3> TAKE i \in 1..(3 + n - 2)
    <3>1. CASE i \in 1..3
      BY <1>1, <1>2, <3>1
    <3>2. CASE i > 3
      <4>1. i - 3 \in 1..(n - 2) /\ i - 3 \in 1..n /\ 3 + (i - 3) = i
        BY <2>1, <3>2
      <4>2. (t \o s)[3 + (i - 3)] = s[i - 3]
        BY <3>0, <4>1
      <4> QED
        BY <1>3, <4>1, <4>2 DEF Ahead
    <3>3. i \in 1..3 \/ i > 3
      BY <2>1
    <3> QED
      BY <3>1, <3>2, <3>3
  <2>4. 3 + (n - 1) = 3 + n - 1
    BY <2>1
  <2> QED
    BY <1>2, <1>3, <2>1, <2>2, <2>3, <2>4 DEF Ahead
<1> QED
  BY <1>2, <1>3

(* No check installs.                                                      *)
LEMMA ChecksAreNoSteps == \A c \in Checks : c \notin {"install-dependencies", "pod-install"}
BY ChecksAssumption
   DEF MachineChecks, EnvironmentChecks, VersionChecks, InstalledChecks, ServiceChecks,
       ProjectChecks, SigningChecks

(* Who begins is idle, has it all before it, and promises something only   *)
(* when the other is idle.                                                 *)
LEMMA BeginKeeps ==
    ASSUME PrepInv, NEW p \in Processes, NEW program \in Seq(StepNames), NEW mode \in Modes,
           mode \in Cleans => Ahead(program), Begin(p, program, mode)
    PROVE  PrepInv'
<1>1. /\ steps' = [steps EXCEPT ![p] = program] /\ latest' = <<p, mode>>
      /\ marred' = [q \in Processes |-> IF q = p THEN ~Idle(Other(p))
                                                 ELSE marred[q] \/ ~Idle(Other(p))]
      /\ UNCHANGED <<modules, pods, batch, with, spoiled, declared, newer>> /\ with[p] = "none"
  BY Zenon DEF Begin, Idle, fileVars, userVars
<1>2. PrepTypes'
  <2>1. marred' \in [Processes -> BOOLEAN]
    <3>1. \A q \in Processes :
             (IF q = p THEN ~Idle(Other(p)) ELSE marred[q] \/ ~Idle(Other(p))) \in BOOLEAN
      OBVIOUS
    <3> QED
      BY <1>1, <3>1, Zenon
  <2>2. steps' \in [Processes -> Seq(StepNames)] /\ with' \in [Processes -> Managers \cup {"none"}]
        /\ spoiled' \in [Processes -> BOOLEAN] /\ latest' \in Processes \X Modes
        /\ UNCHANGED <<declared, newer>>
    BY <1>1 DEF PrepInv, PrepTypes
  <2>3. \A q \in Processes : with'[q] # "none" => steps'[q] # <<>>
    BY <1>1 DEF PrepInv, PrepTypes
  <2> QED
    BY <2>1, <2>2, <2>3 DEF PrepInv, PrepTypes
<1>3. ASSUME NEW q \in Processes, Promises(q)' PROVE Undisturbed(q)' /\ StillToDo(q)'
  <2>1. q = p /\ mode \in Cleans /\ Idle(Other(p))
    <3>1. q = p /\ mode \in Cleans
      BY <1>1, <1>3 DEF Promises
    <3>2. marred'[p] = ~Idle(Other(p))
      BY <1>1
    <3> QED
      BY <1>3, <3>1, <3>2 DEF Promises
  <2>2. steps'[p] = program /\ steps'[Other(p)] = steps[Other(p)]
    BY <1>1, TheOther DEF PrepInv, PrepTypes
  <2> QED
    BY <1>1, <2>1, <2>2 DEF Undisturbed, StillToDo, Idle
<1> QED
  BY <1>2, <1>3 DEF PrepInv

(* Only the process that has promised moves, or the promise is off.        *)
LEMMA WhoMoves ==
    ASSUME PrepInv, NEW p \in Processes, ~Idle(p), UNCHANGED latest,
           PrepTypes', \A q \in Processes \ {p} : marred'[q] = marred[q],
           marred[p] => marred'[p],
           \A q \in Processes \ {p} : steps'[q] = steps[q] /\ with'[q] = with[q],
           Promises(p) /\ Promises(p)' /\ Undisturbed(p) /\ StillToDo(p)
              => (with'[p] # "none" => ~spoiled'[p]) /\ StillToDo(p)'
    PROVE  PrepInv'
<1> SUFFICES ASSUME NEW q \in Processes, Promises(q)' PROVE Undisturbed(q)' /\ StillToDo(q)'
  BY DEF PrepInv
<1>1. CASE q = p
  <2>1. Promises(p)
    BY <1>1 DEF Promises
  <2>2. Undisturbed(p) /\ StillToDo(p)
    BY <2>1 DEF PrepInv
  <2>3. Idle(Other(p))'
    BY <2>2, TheOther DEF Undisturbed, Idle
  <2> QED
    BY <1>1, <2>1, <2>2, <2>3 DEF Undisturbed
<1>2. CASE q # p
  <2>1. Promises(q) /\ p = Other(q)
    BY <1>2, TheOther DEF Promises
  <2> QED
    BY <2>1 DEF PrepInv, Undisturbed
<1> QED
  BY <1>1, <1>2

(* A step that is done leaves the rest of the program, or nothing when it  *)
(* failed.                                                                 *)
LEMMA DoneIs ==
    ASSUME PrepTypes, NEW p \in Processes, steps[p] # <<>>, NEW ok \in BOOLEAN, Done(p, ok)
    PROVE  /\ steps' \in [Processes -> Seq(StepNames)] /\ marred' \in [Processes -> BOOLEAN]
           /\ steps'[p] = Tail(steps[p])
           /\ \A q \in Processes \ {p} : steps'[q] = steps[q] /\ marred'[q] = marred[q]
           /\ marred[p] => marred'[p]
           /\ ~marred'[p] => ok
<1>1. steps[p] \in Seq(StepNames)
  BY DEF PrepTypes
<1>2. Tail(steps[p]) \in Seq(StepNames)
  BY <1>1
<1>3. steps' = [steps EXCEPT ![p] = Tail(steps[p])]
  BY DEF Done
<1>4. marred' = IF ok THEN marred ELSE [marred EXCEPT ![p] = TRUE]
  BY DEF Done
<1>5. /\ steps' \in [Processes -> Seq(StepNames)] /\ steps'[p] = Tail(steps[p])
      /\ \A q \in Processes \ {p} : steps'[q] = steps[q]
  BY <1>2, <1>3 DEF PrepTypes
<1>6. /\ marred' \in [Processes -> BOOLEAN]
      /\ \A q \in Processes \ {p} : marred'[q] = marred[q]
      /\ marred[p] => marred'[p]
      /\ ~marred'[p] => ok
  BY <1>4 DEF PrepTypes
<1>7. \A q \in Processes \ {p} : steps'[q] = steps[q] /\ marred'[q] = marred[q]
  BY <1>5, <1>6
<1> QED
  BY <1>5, <1>6, <1>7, Zenon

(* Steps that are not installs keep the invariant,                         *)
LEMMA AnotherStep ==
    ASSUME PrepInv, NEW p \in Processes, NEW name, AtStep(p, name), NEW ok \in BOOLEAN,
           Done(p, ok), name \notin {"install-dependencies", "pod-install"},
           UNCHANGED <<latest, with, declared, newer>>, spoiled' \in [Processes -> BOOLEAN]
    PROVE  PrepInv'
<1>1. steps[p] # <<>> /\ Head(steps[p]) = name /\ with[p] = "none" /\ steps[p] \in Seq(StepNames)
  BY DEF AtStep, PrepInv, PrepTypes
<1>2. ASSUME StillToDo(p) PROVE StillToDo(p)'
  <2>1. ~PodsLeft(steps[p]) /\ Len(steps[p]) # 0
    BY <1>1 DEF PodsLeft
  <2>2. Ahead(steps[p]) /\ steps'[p] = Tail(steps[p])
    BY <1>1, <1>2, <2>1, DoneIs DEF StillToDo, PrepInv
  <2> QED
    BY <1>1, <2>2, StepByStep DEF StillToDo
<1>3. PrepTypes'
  BY <1>1, DoneIs DEF PrepInv, PrepTypes
<1>4. ~Idle(p) /\ UNCHANGED latest /\ with'[p] = "none"
  BY <1>1 DEF Idle
<1>5. /\ \A q \in Processes \ {p} :
            steps'[q] = steps[q] /\ with'[q] = with[q] /\ marred'[q] = marred[q]
      /\ marred[p] => marred'[p]
  BY <1>1, DoneIs DEF PrepInv
<1> QED
  BY <1>2, <1>3, <1>4, <1>5, WhoMoves

(* and so do the beginning of an installer,                                *)
LEMMA InstallsKeeps ==
    ASSUME PrepInv, NEW p \in Processes, NEW name, AtStep(p, name), name # "pod-install",
           NEW m \in Managers, Installs(p, m), UNCHANGED <<latest, steps, marred, declared, newer>>
    PROVE  PrepInv'
<1>0. name # "pod-install"
  OBVIOUS
<1>1. steps[p] # <<>> /\ Head(steps[p]) = name
  BY DEF AtStep
<1>2. /\ with' = [with EXCEPT ![p] = m]
      /\ spoiled' = [q \in Processes |-> (q # p /\ spoiled[q]) \/ with[Other(p)] # "none"]
  BY DEF Installs
<1>3. PrepTypes'
  <2>1. spoiled' \in [Processes -> BOOLEAN]
    <3>1. \A q \in Processes : ((q # p /\ spoiled[q]) \/ with[Other(p)] # "none") \in BOOLEAN
      OBVIOUS
    <3> QED
      BY <1>2, <3>1, Zenon
  <2>2. with' \in [Processes -> Managers \cup {"none"}]
    BY <1>2 DEF PrepInv, PrepTypes
  <2>3. \A q \in Processes : with'[q] # "none" => steps'[q] # <<>>
    BY <1>1, <1>2 DEF PrepInv, PrepTypes
  <2> QED
    BY <2>1, <2>2, <2>3 DEF PrepInv, PrepTypes
<1>4. ASSUME Undisturbed(p), StillToDo(p) PROVE ~spoiled'[p] /\ StillToDo(p)'
  <2>1. with[Other(p)] = "none"
    BY <1>4 DEF Undisturbed, Idle
  <2>2. ~spoiled'[p]
    BY <1>2, <2>1
  <2>3. Ahead(steps[p])
    <3>1. steps[p] \in Seq(StepNames) /\ steps[p] # <<>>
      BY <1>1 DEF PrepInv, PrepTypes
    <3>2. ~PodsLeft(steps[p]) /\ Len(steps[p]) # 0
      BY <1>0, <1>1, <3>1 DEF PodsLeft
    <3> QED
      BY <1>4, <3>2 DEF StillToDo
  <2> QED
    BY <2>2, <2>3 DEF StillToDo
<1>5. \A q \in Processes \ {p} : with'[q] = with[q]
  BY <1>2 DEF PrepInv, PrepTypes
<1> QED
  BY <1>1, <1>3, <1>4, <1>5, WhoMoves DEF Idle

(* its end,                                                                *)
LEMMA EndsKeeps ==
    ASSUME PrepInv, NEW p \in Processes, InstallationEnds(p)
    PROVE  PrepInv'
<1>1. PICK ok \in BOOLEAN, whole \in BOOLEAN, podded \in BOOLEAN :
         /\ ~spoiled[p] => whole = ok
         /\ modules' = [by |-> with[p], whole |-> whole]
         /\ Done(p, ok /\ (Head(steps[p]) = "auto-install" => podded))
  BY DEF InstallationEnds
<1>2. /\ with[p] # "none" /\ with' = [with EXCEPT ![p] = "none"]
      /\ UNCHANGED <<latest, declared, newer>>
      /\ spoiled' = [spoiled EXCEPT ![p] = FALSE]
  BY DEF InstallationEnds, userVars
<1> DEFINE well == ok /\ (Head(steps[p]) = "auto-install" => podded)
<1>3. steps[p] # <<>> /\ steps[p] \in Seq(StepNames)
  BY <1>2 DEF PrepInv, PrepTypes
<1>4. /\ steps' \in [Processes -> Seq(StepNames)] /\ marred' \in [Processes -> BOOLEAN]
      /\ steps'[p] = Tail(steps[p])
      /\ \A q \in Processes \ {p} : steps'[q] = steps[q] /\ marred'[q] = marred[q]
      /\ marred[p] => marred'[p]
      /\ ~marred'[p] => well
  <2>1. well \in BOOLEAN
    OBVIOUS
  <2>2. Done(p, well)
    BY <1>1
  <2> HIDE DEF well
  <2> QED
    BY <1>3, <2>1, <2>2, DoneIs DEF PrepInv
<1>5. PrepTypes'
  BY <1>2, <1>4 DEF PrepInv, PrepTypes
<1>6. with'[p] = "none" /\ \A q \in Processes \ {p} : with'[q] = with[q]
  BY <1>2 DEF PrepInv, PrepTypes
<1>7. ASSUME ~marred'[p], Undisturbed(p), StillToDo(p) PROVE StillToDo(p)'
  <2>1. modules'.whole
    BY <1>1, <1>2, <1>4, <1>7 DEF Undisturbed
  <2>2. Ahead(steps[p])
    BY <1>2, <1>7 DEF StillToDo
  <2>3. Ahead(Tail(steps[p])) \/ PodsLeft(Tail(steps[p]))
    BY <1>3, <2>2, StepByStep
  <2> QED
    BY <1>4, <1>6, <2>1, <2>3 DEF StillToDo
<1> QED
  BY <1>2, <1>4, <1>5, <1>6, <1>7, WhoMoves DEF Idle, Promises

(* and the install of pods.                                                *)
LEMMA PodsKeep ==
    ASSUME PrepInv, NEW p \in Processes, podInstall(p)
    PROVE  PrepInv'
<1>1. PICK ok \in BOOLEAN : Done(p, ok) /\ (ok => modules.whole /\ pods' = batch)
  BY DEF podInstall
<1>2. /\ steps[p] # <<>> /\ Head(steps[p]) = "pod-install" /\ with[p] = "none"
      /\ UNCHANGED <<modules, batch, with, spoiled, latest, declared, newer>>
  BY DEF podInstall, AtStep, userVars
<1>3. PrepTypes'
  BY <1>1, <1>2, DoneIs DEF PrepInv, PrepTypes
<1>4. ASSUME ~marred'[p], StillToDo(p) PROVE StillToDo(p)'
  <2>1. steps[p] \in Seq(StepNames)
    BY DEF PrepInv, PrepTypes
  <2>2. PodsLeft(steps[p])
    BY <1>2, <1>4, <2>1, StepByStep DEF StillToDo
  <2>3. Len(Tail(steps[p])) = 0
    BY <2>1, <2>2 DEF PodsLeft
  <2>5. Len(steps'[p]) = 0
    BY <1>1, <1>2, <2>3, DoneIs DEF PrepInv
  <2>4. modules.whole /\ pods' = batch
    BY <1>1, <1>2, <1>4, DoneIs DEF PrepInv
  <2> QED
    BY <1>2, <2>4, <2>5 DEF StillToDo
<1> QED
  BY <1>1, <1>2, <1>3, <1>4, DoneIs, WhoMoves DEF PrepInv, Idle, Promises

(* The invariant holds at the beginning                                    *)
LEMMA PrepInvInit == PrepInit => PrepInv
<1> SUFFICES ASSUME PrepInit PROVE PrepInv
  OBVIOUS
<1>1. /\ steps = [p \in Processes |-> <<>>] /\ with = [p \in Processes |-> "none"]
      /\ spoiled = [p \in Processes |-> FALSE] /\ marred = [p \in Processes |-> TRUE]
      /\ latest = <<"mcp", "none">>
  BY DEF PrepInit
<1>2. <<>> \in Seq(StepNames)
  OBVIOUS
<1>3. PrepTypes
  BY <1>1, <1>2 DEF PrepTypes, Processes, Modes, Managers, PrepInit
<1> QED
  BY <1>1, <1>3 DEF PrepInv, Promises, Cleans

(* and after every step.                                                   *)
LEMMA PrepInvNext == PrepInv /\ [PrepNext]_prepVars => PrepInv'
<1> SUFFICES ASSUME PrepInv, [PrepNext]_prepVars PROVE PrepInv'
  OBVIOUS
<1>0. "daemon" \in Processes /\ "mcp" \in Processes /\ TRUE \in BOOLEAN
  BY DEF Processes
<1>1. CASE bootSessionServices
  <2>1. PICK mode \in {"dirty", "clean", "ultra-clean"} :
           Begin("daemon", <<"settle", "preflight", "auto-install">> \o getStepsForMode(mode), mode)
    BY <1>1 DEF bootSessionServices
  <2> QED
    BY <1>0, <2>1, ProgramsAre, CleanPrograms, BootPrograms, BeginKeeps DEF Cleans, Modes
<1>2. CASE cleanTool
  <2>1. PICK mode \in {"clean", "ultra-clean"} : Begin("mcp", getStepsForMode(mode), mode)
    BY <1>2 DEF cleanTool
  <2> QED
    BY <1>0, <2>1, ProgramsAre, CleanPrograms, BootPrograms, BeginKeeps DEF Cleans, Modes
<1>3. CASE fix
  <2>1. PICK c \in Checks : Begin("mcp", <<c>>, "none")
    BY <1>3 DEF fix
  <2>2. <<c>> \in Seq(StepNames) /\ "none" \notin Cleans /\ "none" \in Modes
    BY DEF StepNames, Cleans, Modes
  <2> QED
    BY <1>0, <2>1, <2>2, BeginKeeps
<1>4. CASE settlePackageManager \/ BootPreflight
  <2>1. /\ \E name \in {"settle", "preflight"} : AtStep("daemon", name)
        /\ Done("daemon", TRUE) /\ UNCHANGED <<latest, with, spoiled, declared, newer>>
    BY <1>4 DEF settlePackageManager, BootPreflight, userVars
  <2> QED
    BY <1>0, <2>1, AnotherStep DEF PrepInv, PrepTypes
<1>5. CASE AutoInstall
  <2>1. CASE modules.by = "none"
    <3>1. autoInstaller \in Managers
      BY DEF autoInstaller, Managers
    <3> QED
      BY <1>0, <1>5, <2>1, <3>1, InstallsKeeps DEF AutoInstall, userVars
  <2>2. CASE modules.by # "none"
    <3>1. AtStep("daemon", "auto-install") /\ Done("daemon", TRUE)
          /\ UNCHANGED <<latest, with, spoiled, declared, newer>>
      BY <1>5, <2>2 DEF AutoInstall, userVars
    <3>2. spoiled' \in [Processes -> BOOLEAN]
      BY <3>1 DEF PrepInv, PrepTypes
    <3>3. PICK ok \in BOOLEAN, name \in {"auto-install"} :
              AtStep("daemon", name) /\ Done("daemon", ok)
      BY <1>0, <3>1
    <3> QED
      BY <1>0, <3>1, <3>2, <3>3, AnotherStep
  <2> QED
    BY <2>1, <2>2
<1>6. CASE FixModules
  BY <1>0, <1>6, InstallsKeeps DEF FixModules, Managers, userVars
<1>7. ASSUME NEW c \in Checks, FixCheck(c) PROVE PrepInv'
  <2>1. /\ AtStep("mcp", c) /\ Done("mcp", TRUE)
        /\ UNCHANGED <<latest, with, spoiled, declared, newer>>
    BY <1>7 DEF FixCheck, userVars
  <2> QED
    BY <1>0, <2>1, ChecksAreNoSteps, AnotherStep DEF PrepInv, PrepTypes
<1>8. ASSUME NEW p \in Processes, installDependencies(p) PROVE PrepInv'
  <2>1. detectPackageManager \in Managers
    BY DEF detectPackageManager, Managers, PrepInv, PrepTypes
  <2> QED
    BY <1>8, <2>1, InstallsKeeps DEF installDependencies, userVars
<1>9. ASSUME NEW p \in Processes, removeNodeModules(p) PROVE PrepInv'
  <2>1. PICK ok \in BOOLEAN : Done(p, ok)
    BY <1>9 DEF removeNodeModules, userVars
  <2>2. /\ AtStep(p, "remove-node-modules") /\ UNCHANGED <<latest, with, declared, newer>>
        /\ spoiled' = [spoiled EXCEPT ![Other(p)] = @ \/ with[Other(p)] # "none"]
    BY <1>9 DEF removeNodeModules, userVars
  <2>3. spoiled' \in [Processes -> BOOLEAN]
    BY <2>2, TheOther DEF PrepInv, PrepTypes
  <2> QED
    BY <2>1, <2>2, <2>3, AnotherStep
<1>10. ASSUME NEW p \in Processes, removePods(p) PROVE PrepInv'
  <2>1. /\ AtStep(p, "remove-pods") /\ Done(p, TRUE)
        /\ UNCHANGED <<latest, with, spoiled, declared, newer>>
    BY <1>10 DEF removePods, userVars
  <2>2. spoiled' \in [Processes -> BOOLEAN]
    BY <2>1 DEF PrepInv, PrepTypes
  <2>3. PICK ok \in BOOLEAN, name \in {"remove-pods"} : AtStep(p, name) /\ Done(p, ok)
    BY <1>0, <2>1
  <2> QED
    BY <2>1, <2>2, <2>3, AnotherStep
<1>11. CASE UNCHANGED prepVars
  BY <1>11 DEF prepVars, PrepInv, PrepTypes, Promises, Undisturbed, StillToDo, Idle, fileVars,
               userVars, checkVars
<1> QED
  BY <1>1, <1>2, <1>3, <1>4, <1>5, <1>6, <1>7, <1>8, <1>9, <1>10, <1>11, EndsKeeps, PodsKeep
     DEF PrepNext

(* Nothing is left to be done when an undisturbed clean is over.           *)
LEMMA PromiseHolds == PrepInv => CleanLeavesWhole
<1> SUFFICES ASSUME PrepInv, NEW p \in Processes, latest[1] = p, latest[2] \in Cleans,
                    Idle(p), ~marred[p]
             PROVE  modules.whole /\ pods = batch
  BY DEF PrepInv, PrepTypes, CleanLeavesWhole, Cleans
<1>1. StillToDo(p) /\ steps[p] = <<>>
  BY DEF PrepInv, Promises, Idle
<1>2. ~Ahead(<<>>) /\ ~PodsLeft(<<>>)
  BY DEF Ahead, PodsLeft
<1> QED
  BY <1>1, <1>2 DEF StillToDo

(* A clean that no other program of the worktree overlapped and that did   *)
(* not fail leaves all modules, of one manager, and the pods of this batch *)
(* of them, for any number of boots, cleans and fixes (clean.ts:205-330,   *)
(* preflight.ts:311-340).                                                  *)
THEOREM CleansLeaveWhole == PrepSpec => []CleanLeavesWhole
<1>1. PrepInv => CleanLeavesWhole
  BY PromiseHolds
<1> QED
  BY PrepInvInit, PrepInvNext, <1>1, PTL DEF PrepSpec

-----------------------------------------------------------------------------
(* A module none of the three exceptions has been made for.                *)
Clean(m) == m \notin overlapped \cup disturbed \cup quiet

(* The modules of which the flag decides.                                  *)
Decided == (AnyRange \cap HostRange) \ PerWorktree

(* Where a rescan may be,                                                  *)
Rescans == {"rescanning", "updating", "removing"}

(* and where an install may be.                                            *)
Installing == {"downloading", "extracting", "reifying"}

(* The modules a request works on now.                                     *)
WorksOn(r) == IF op[r] \in Rescans THEN {c.module : c \in changes[r]} ELSE {target[r]}

(* No two requests work on a module, unless the history says so.           *)
ApartUnlessOverlapped ==
    \A m \in Modules : Clean(m) =>
        \A r, q \in Requests : Pending(r) /\ Pending(q) /\ m \in WorksOn(r) \cap WorksOn(q) => r = q

(* Between the two steps of disable() the flag is set; of a global module  *)
(* nothing was registered if it was before.                                *)
DisablingFits(r) ==
    op[r] = "disabling" => \A m \in Modules : m = target[r] /\ Clean(m) =>
        m \in flagged /\ (r \in wasDisabled => m \in PerWorktree)

(* During an install the module is not flagged, and not registered if the  *)
(* flag decides; it has a manifest once it is extracted.                   *)
InstallFits(r) ==
    op[r] \in Installing => \A m \in Modules : m = target[r] /\ Clean(m) =>
        /\ m \notin flagged
        /\ m \in Decided => Known(m) = {} /\ (manifest[m] # 0 <=> op[r] = "reifying")

(* A rescan has one change at most for a module, and what it says of       *)
(* registry and flag is still so.                                          *)
ChangesFit(r) ==
    /\ op[r] \notin Rescans => changes[r] = {}
    /\ \A c, d \in changes[r] : c.module = d.module => c = d
    /\ op[r] = "updating" => \E c \in changes[r] : c.module = target[r] /\ c.kind = "update"
    /\ op[r] = "removing" => \E c \in changes[r] : c.module = target[r] /\ c.kind = "uninstall"
    /\ \A c \in changes[r] : Clean(c.module) =>
          /\ c.kind # "uninstall" => c.module \notin flagged
          /\ c.kind = "install" => Known(c.module) = {} /\ c.unit = IpcUnit
          /\ c.kind = "update" => c.unit = LastUnit(c.module)
          /\ c.module \in Decided => c.kind = "update" /\ Known(c.module) # {}

(* A global module with a flag is not registered, but during a disable().  *)
FlaggedIsUnknown(m) ==
    m \in flagged \ PerWorktree =>
        Known(m) = {} \/ \E r \in Requests : op[r] = "disabling" /\ target[r] = m

(* The flag decides, but during a disable() and at the end of an install.  *)
DecidedFits(m) ==
    m \in Decided =>
        FlagDecidesOf(m) \/ \E r \in Requests : op[r] \in {"disabling", "reifying"} /\ target[r] = m

(* Subscribers have read what is registered.                               *)
ListFits(m) == m \notin DisabledTwice => \A u \in Units : registered[<<m, u>>] = listed[<<m, u>>]

(* A global module is registered as such only.                             *)
GlobalsInOne == \A m \in Modules \ PerWorktree : registered[<<m, "worktree">>] = 0

(* Only disable() looks at the flag.                                       *)
WasDisabling == \A r \in wasDisabled : op[r] \in {"disabling", "done"}

(* The inductive invariant of ModuleCatalog.                               *)
CatInv ==
    /\ CatalogTypeOK /\ GlobalsInOne
    /\ WasDisabling
    /\ ApartUnlessOverlapped
    /\ \A r \in Requests : DisablingFits(r) /\ InstallFits(r) /\ ChangesFit(r)
    /\ \A m \in Modules : Clean(m) => FlaggedIsUnknown(m) /\ DecidedFits(m) /\ ListFits(m)

-----------------------------------------------------------------------------

(* Where a request may be.                                                 *)
Phases == {"idle", "disabling", "downloading", "extracting", "reifying",
           "uninstalling", "rescanning", "updating", "removing", "done"}

(* What a rescan may find.                                                 *)
ChangeSet == [kind : {"install", "update", "uninstall"}, module : Modules, version : Versions,
              unit : Units]

(* Nothing is changed of modules but these,                                *)
Frame(A) ==
    \A m \in Modules \ A :
        /\ manifest'[m] = manifest[m] /\ (m \in flagged' <=> m \in flagged)
        /\ \A u \in Units : registered'[<<m, u>>] = registered[<<m, u>>]

(* and of requests but these.                                              *)
OthersStay(R) ==
    \A q \in Requests \ R :
        /\ op'[q] = op[q] /\ target'[q] = target[q] /\ changes'[q] = changes[q]
        /\ q \in wasDisabled' <=> q \in wasDisabled

(* Nobody but these requests works on the module, if it stays clean.       *)
Private(m, R) == Clean(m)' => \A q \in Requests \ R : Pending(q) => m \notin WorksOn(q)

(* What it is to be registered nowhere.                                    *)
LEMMA KnownOf ==
    ASSUME NEW m
    PROVE  /\ Known(m) = {} <=>
                 registered[<<m, "global">>] = 0 /\ registered[<<m, "worktree">>] = 0
           /\ Known(m)' = {} <=>
                 registered'[<<m, "global">>] = 0 /\ registered'[<<m, "worktree">>] = 0
<1>1. /\ \A u : u \in Known(m) <=> u \in {"global", "worktree"} /\ registered[<<m, u>>] # 0
      /\ \A u : u \in Known(m)' <=> u \in {"global", "worktree"} /\ registered'[<<m, u>>] # 0
  BY DEF Known, Units
<1> QED
  BY <1>1

(* What is said of a module is still so when nothing is changed of it.     *)
LEMMA SameOf ==
    ASSUME NEW A, Frame(A), NEW m \in Modules \ A
    PROVE  /\ Known(m)' = Known(m) /\ LastUnit(m)' = LastUnit(m)
           /\ (FlagDecidesOf(m)' <=> FlagDecidesOf(m))
<1>1. \A u \in Units : registered'[<<m, u>>] = registered[<<m, u>>]
  BY DEF Frame
<1>2. Known(m)' = Known(m) /\ LastUnit(m)' = LastUnit(m)
  BY <1>1 DEF Known, LastUnit, IpcUnit, Units
<1>3. manifest'[m] = manifest[m] /\ (m \in flagged' <=> m \in flagged)
  BY DEF Frame
<1> QED
  BY <1>2, <1>3 DEF FlagDecidesOf

(* So the invariant holds on of other requests, whose modules are left     *)
(* alone,                                                                  *)
LEMMA OthersFit ==
    ASSUME CatInv, NEW A, NEW R, Frame(A), OthersStay(R),
           \A m \in Modules : Clean(m)' => Clean(m),
           \A m \in A : Private(m, R), NEW q \in Requests \ R
    PROVE  DisablingFits(q)' /\ InstallFits(q)' /\ ChangesFit(q)'
<1>1. /\ op'[q] = op[q] /\ target'[q] = target[q] /\ changes'[q] = changes[q]
      /\ (q \in wasDisabled' <=> q \in wasDisabled)
  BY DEF OthersStay
<1>2. target[q] \in Modules /\ \A c \in changes[q] : c.module \in Modules
  <2>1. /\ target \in [Requests -> Modules] /\ changes \in [Requests -> SUBSET ChangeSet]
    BY DEF CatInv, CatalogTypeOK, ChangeSet
  <2>2. \A c \in ChangeSet : c.module \in Modules
    BY DEF ChangeSet
  <2>3. changes[q] \subseteq ChangeSet
    BY <2>1
  <2> QED
    BY <2>1, <2>2, <2>3
<1>3. ASSUME op[q] \in Installing \cup {"disabling"}, NEW m \in Modules, m = target[q], Clean(m)'
      PROVE  m \notin A
  <2>1. Pending(q) /\ WorksOn(q) = {target[q]}
    BY <1>3 DEF Pending, WorksOn, Installing, Rescans
  <2> QED
    BY <1>3, <2>1 DEF Private
<1>4. ASSUME NEW c \in changes[q], Clean(c.module)' PROVE c.module \notin A
  <2>1. op[q] \in Rescans
    BY DEF CatInv, ChangesFit
  <2> QED
    BY <1>4, <2>1 DEF Private, Pending, WorksOn, Rescans
<1>5. DisablingFits(q)'
  BY <1>1, <1>2, <1>3 DEF DisablingFits, CatInv, Frame
<1>6. InstallFits(q)'
  <2> SUFFICES ASSUME op[q] \in Installing, NEW m \in Modules, m = target[q], Clean(m)'
               PROVE  /\ m \notin flagged'
                      /\ m \in Decided =>
                            Known(m)' = {} /\ (manifest'[m] # 0 <=> op'[q] = "reifying")
    BY <1>1, Zenon DEF InstallFits
  <2>1. InstallFits(q) /\ Clean(m) /\ m \in Modules \ A
    BY <1>3 DEF CatInv
  <2>2. /\ m \notin flagged
        /\ m \in Decided => Known(m) = {} /\ (manifest[m] # 0 <=> op[q] = "reifying")
    BY <2>1 DEF InstallFits
  <2> QED
    BY <1>1, <2>1, <2>2, SameOf DEF Frame
<1>7. ChangesFit(q)'
  <2>1. ChangesFit(q)
    BY DEF CatInv
  <2>2. ASSUME NEW c \in changes[q], Clean(c.module)'
        PROVE  /\ c.kind # "uninstall" => c.module \notin flagged'
               /\ c.kind = "install" => Known(c.module)' = {} /\ c.unit = IpcUnit
               /\ c.kind = "update" => c.unit = LastUnit(c.module)'
               /\ c.module \in Decided => c.kind = "update" /\ Known(c.module)' # {}
    <3>1. c.module \in Modules \ A /\ Clean(c.module)
      BY <1>2, <1>4, <2>2
    <3>2. Known(c.module)' = Known(c.module) /\ LastUnit(c.module)' = LastUnit(c.module)
      BY <3>1, SameOf
    <3> QED
      BY <2>1, <3>1, <3>2 DEF ChangesFit, Frame
  <2> QED
    BY <1>1, <2>1, <2>2 DEF ChangesFit
<1> QED
  BY <1>5, <1>6, <1>7

(* and as a whole, if it holds of the requests and modules that change.    *)
LEMMA Keeping ==
    ASSUME CatInv, NEW A \in SUBSET Modules, NEW R \in SUBSET Requests,
           Frame(A), OthersStay(R), CatalogTypeOK', GlobalsInOne', WasDisabling',
           \A m \in Modules : Clean(m)' => Clean(m),
           \A m \in A : Private(m, R),
           \A r, q \in R : r = q,
           \A r \in R :
               /\ op[r] \in {"disabling", "reifying"} => target[r] \in A
               /\ Pending(r)' => \A m \in WorksOn(r)' : Private(m, R)
               /\ DisablingFits(r)' /\ InstallFits(r)' /\ ChangesFit(r)',
           \A m \in DisabledTwice : m \in DisabledTwice',
           \/ listed' = registered'
           \/ /\ listed' = listed
              /\ \A m \in A : Clean(m)' =>
                    \/ m \in DisabledTwice'
                    \/ \A u \in Units : registered'[<<m, u>>] = registered[<<m, u>>],
           \A m \in A : Clean(m)' => FlaggedIsUnknown(m)' /\ DecidedFits(m)'
    PROVE  CatInv'
<1>1. ASSUME NEW r \in Requests PROVE DisablingFits(r)' /\ InstallFits(r)' /\ ChangesFit(r)'
  BY OthersFit
<1>2. ApartUnlessOverlapped'
  <2> SUFFICES ASSUME NEW m \in Modules, Clean(m)', NEW r \in Requests, NEW q \in Requests,
                      Pending(r)', Pending(q)', m \in WorksOn(r)', m \in WorksOn(q)'
               PROVE  r = q
    BY DEF ApartUnlessOverlapped
  <2>1. \A p \in Requests \ R : (Pending(p)' <=> Pending(p)) /\ WorksOn(p)' = WorksOn(p)
    BY DEF OthersStay, Pending, WorksOn
  <2>2. CASE r \notin R /\ q \notin R
    BY <2>1, <2>2 DEF CatInv, ApartUnlessOverlapped
  <2>3. CASE r \in R /\ q \notin R
    BY <2>1, <2>3 DEF Private
  <2>4. CASE r \notin R /\ q \in R
    BY <2>1, <2>4 DEF Private
  <2> QED
    BY <2>2, <2>3, <2>4
<1>3. ASSUME NEW m \in Modules, Clean(m)', m \notin A PROVE FlaggedIsUnknown(m)' /\ DecidedFits(m)'
  <2>1. /\ Known(m)' = Known(m) /\ (FlagDecidesOf(m)' <=> FlagDecidesOf(m))
        /\ (m \in flagged' <=> m \in flagged)
    BY <1>3, SameOf DEF Frame
  <2>2. \A r \in Requests : op[r] \in {"disabling", "reifying"} /\ target[r] = m
           => op'[r] = op[r] /\ target'[r] = target[r]
    BY <1>3 DEF OthersStay
  <2>3. FlaggedIsUnknown(m) /\ DecidedFits(m)
    BY <1>3 DEF CatInv
  <2> QED
    BY <2>1, <2>2, <2>3 DEF FlaggedIsUnknown, DecidedFits
<1>4. ASSUME NEW m \in Modules, Clean(m)' PROVE ListFits(m)'
  <2>1. CASE listed' = registered'
    BY <2>1 DEF ListFits
  <2>2. CASE listed' # registered'
    <3>1. CASE m \in DisabledTwice'
      BY <3>1 DEF ListFits
    <3>2. CASE m \notin DisabledTwice'
      <4>1. ListFits(m) /\ m \notin DisabledTwice
        BY <1>4, <3>2 DEF CatInv
      <4>2. \A u \in Units : registered'[<<m, u>>] = registered[<<m, u>>]
        BY <1>4, <2>2, <3>2 DEF Frame
      <4> QED
        BY <2>2, <4>1, <4>2 DEF ListFits
    <3> QED
      BY <3>1, <3>2
  <2> QED
    BY <2>1, <2>2
<1> QED
  BY <1>1, <1>2, <1>3, <1>4 DEF CatInv

(* The invariant holds of what the boot has loaded.                        *)
LEMMA CatInvInit == CatalogInit => CatInv
<1> SUFFICES ASSUME CatalogInit PROVE CatInv
  OBVIOUS
<1>1. CatalogTypeOK
  <2>1. /\ directory \cup flagged \cup overlapped \cup disturbed \cup quiet \subseteq Modules
        /\ manifest \in [Modules -> 0..MaxVersion]
        /\ \A m \in Modules : m \notin directory => manifest[m] = 0 /\ m \notin flagged
    BY CatalogAssumption DEF CatalogInit
  <2>2. registered \in [Modules \X Units -> 0..MaxVersion]
    BY CatalogAssumption DEF CatalogInit
  <2> QED
    BY <2>1, <2>2, CatalogAssumption DEF CatalogInit, CatalogTypeOK
<1>2. ASSUME NEW m \in Modules, NEW u \in Units
      PROVE  registered[<<m, u>>] =
                IF m \in (directory \ flagged) \cap HostRange /\ u = BootUnit(m) THEN 1 ELSE 0
  BY DEF CatalogInit
<1>3. \A m \in Modules : m \in flagged => Known(m) = {}
  BY <1>2 DEF Known
<1>4. GlobalsInOne
  BY <1>2 DEF GlobalsInOne, BootUnit, Units
<1>5. \A r \in Requests : ~Pending(r) /\ op[r] = "idle" /\ changes[r] = {}
  BY DEF CatalogInit, Pending
<1>6. ApartUnlessOverlapped
  BY <1>5 DEF ApartUnlessOverlapped
<1>7. \A r \in Requests : DisablingFits(r) /\ InstallFits(r) /\ ChangesFit(r)
  BY <1>5 DEF DisablingFits, InstallFits, ChangesFit, Installing, Rescans
<1>8. ASSUME NEW m \in Modules PROVE FlaggedIsUnknown(m) /\ DecidedFits(m) /\ ListFits(m)
  <2>1. FlaggedIsUnknown(m)
    BY <1>3 DEF FlaggedIsUnknown
  <2>2. ListFits(m)
    BY DEF ListFits, CatalogInit
  <2>3. ASSUME m \in Decided PROVE FlagDecidesOf(m)
    <3>1. m \in HostRange /\ BootUnit(m) = "global"
      BY <2>3 DEF Decided, BootUnit
    <3>2. manifest[m] = IF m \in directory THEN 1 ELSE 0
      BY DEF CatalogInit
    <3>3. Known(m) # {} <=> m \in directory \ flagged
      <4>1. /\ registered[<<m, "worktree">>] = 0
            /\ registered[<<m, "global">>] = IF m \in directory \ flagged THEN 1 ELSE 0
        BY <1>2, <3>1 DEF Units
      <4> QED
        BY <4>1, KnownOf
    <3>4. flagged \subseteq directory
      BY DEF CatalogInit
    <3> QED
      BY <3>2, <3>3, <3>4 DEF FlagDecidesOf
  <2> QED
    BY <2>1, <2>2, <2>3 DEF DecidedFits
<1> QED
  BY <1>1, <1>4, <1>6, <1>7, <1>8 DEF CatInv, WasDisabling, CatalogInit

(* A request has its modules to itself,                                    *)
LEMMA OwnIsPrivate ==
    ASSUME CatInv, NEW r \in Requests, Pending(r), NEW m \in Modules, m \in WorksOn(r),
           Clean(m)' => Clean(m)
    PROVE  Private(m, {r})
BY DEF CatInv, ApartUnlessOverlapped, Private

(* or the history sees who else has,                                       *)
LEMMA OverlapIsSeen ==
    ASSUME CatInv, NEW ms, Overlaps(ms), NEW m \in Modules, m \in ms, NEW r
    PROVE  Private(m, {r})
BY DEF Overlaps, Private, WorksOn, Touches, Clean

(* which forgets nothing.                                                  *)
LEMMA CleanBefore ==
    ASSUME overlapped \subseteq overlapped', disturbed \subseteq disturbed',
           quiet \subseteq quiet'
    PROVE  \A m \in Modules : Clean(m)' => Clean(m)
BY DEF Clean

-----------------------------------------------------------------------------

(* What the request goes on to,                                            *)
LEMMA Goings ==
    ASSUME CatalogTypeOK, NEW r \in Requests, NEW p, Goes(r, p)
    PROVE  op'[r] = p /\ \A q \in Requests \ {r} : op'[q] = op[q]
BY DEF Goes, CatalogTypeOK

(* A manifest is registered, and nothing else.                             *)
RegisteredAs(m, u, v) ==
    /\ registered' \in [Modules \X Units -> 0..MaxVersion]
    /\ \A n \in Modules, w \in Units :
          registered'[<<n, w>>] = IF n = m /\ w = u THEN v ELSE registered[<<n, w>>]

(* what is registered then,                                                *)
LEMMA Registrations ==
    ASSUME CatalogTypeOK, NEW m \in Modules, NEW u \in Units, NEW v \in 0..MaxVersion,
           Registers(m, u, v)
    PROVE  RegisteredAs(m, u, v)
<1>1. /\ registered \in [Modules \X Units -> 0..MaxVersion] /\ <<m, u>> \in Modules \X Units
      /\ registered' = [registered EXCEPT ![<<m, u>>] = v]
  BY DEF CatalogTypeOK, Registers
<1>2. registered' \in [Modules \X Units -> 0..MaxVersion]
  BY <1>1
<1>3. \A k \in Modules \X Units :
         registered'[k] = IF k = <<m, u>> THEN v ELSE registered[k]
  BY <1>1
<1>4. ASSUME NEW n \in Modules, NEW w \in Units
      PROVE  registered'[<<n, w>>] = IF n = m /\ w = u THEN v ELSE registered[<<n, w>>]
  <2>1. <<n, w>> \in Modules \X Units /\ (<<n, w>> = <<m, u>> <=> n = m /\ w = u)
    OBVIOUS
  <2> QED
    BY <1>3, <2>1
<1> QED
  BY <1>2, <1>4 DEF RegisteredAs

(* and what is loaded.                                                     *)
LEMMA Loads ==
    ASSUME CatalogTypeOK, NEW ms, Load(ms)
    PROVE  /\ registered' \in [Modules \X Units -> 0..MaxVersion]
           /\ \A n \in Modules, w \in Units :
                 registered'[<<n, w>>] =
                    IF n \in ms /\ w = IpcUnit /\ registered[<<n, w>>] = 0 THEN manifest[n]
                                                                 ELSE registered[<<n, w>>]
<1>1. \A k \in Modules \X Units :
         k[1] \in Modules /\ registered[k] \in 0..MaxVersion /\ manifest[k[1]] \in 0..MaxVersion
  BY DEF CatalogTypeOK
<1>2. registered' \in [Modules \X Units -> 0..MaxVersion]
  BY <1>1 DEF Load
<1> QED
  BY <1>2 DEF Load

(* A request that has not begun has no changes and has seen no flag.       *)
LEMMA IdleIs ==
    ASSUME CatInv, NEW r \in Requests, op[r] = "idle"
    PROVE  changes[r] = {} /\ r \notin wasDisabled /\ ~Pending(r)
BY DEF CatInv, ChangesFit, WasDisabling, Pending, Rescans

(* Where a request goes is one of the phases.                              *)
LEMMA OpTypes ==
    ASSUME CatalogTypeOK, NEW r \in Requests, NEW p \in Phases, Goes(r, p)
    PROVE  op' \in [Requests -> Phases]
BY DEF Goes, CatalogTypeOK, Phases

(* The steps, one by one. What other processes change is not clean.        *)
LEMMA OutsideKeeps ==
    ASSUME CatInv, NEW m \in Modules, OutsideChange(m)
    PROVE  CatInv'
<1>1. CatalogTypeOK
  BY DEF CatInv
<1>2. CatalogTypeOK'
  <2>1. /\ directory' \cup flagged' \cup overlapped' \cup disturbed' \cup quiet' \subseteq Modules
        /\ manifest' \in [Modules -> 0..MaxVersion] /\ outside' \in 0..MaxOutside
        /\ \A n \in Modules : n \notin directory' => manifest'[n] = 0 /\ n \notin flagged'
    BY <1>1, CatalogAssumption DEF OutsideChange, CatalogTypeOK, Versions
  <2> QED
    BY <1>1, <2>1 DEF OutsideChange, CatalogTypeOK, requests
<1>3. Frame({m}) /\ OthersStay({})
  <2>1. \A n \in Modules \ {m} : manifest'[n] = manifest[n] /\ (n \in flagged' <=> n \in flagged)
    BY <1>1 DEF OutsideChange, CatalogTypeOK
  <2> QED
    BY <2>1 DEF OutsideChange, Frame, OthersStay, requests
<1>4. ~Clean(m)' /\ \A n \in Modules : Clean(n)' => Clean(n)
  BY DEF OutsideChange, Clean
<1>5. GlobalsInOne' /\ WasDisabling' /\ DisabledTwice' = DisabledTwice
  BY DEF CatInv, OutsideChange, GlobalsInOne, WasDisabling, DisabledTwice, requests
<1>6. \A n \in {m} : Private(n, {}) /\ ~Clean(n)'
  BY <1>4 DEF Private
<1>7. listed' = listed
  BY DEF OutsideChange
<1>8. {m} \in SUBSET Modules /\ {} \in SUBSET Requests
  OBVIOUS
<1> QED
  BY <1>2, <1>3, <1>4, <1>5, <1>6, <1>7, <1>8, Keeping

(* A request that has not seen the flag has disabled nothing twice.        *)
LEMMA DisablingStays ==
    ASSUME CatInv, NEW r \in Requests, r \notin wasDisabled, wasDisabled' = wasDisabled,
           \A q \in Requests \ {r} : op'[q] = op[q] /\ target'[q] = target[q]
    PROVE  WasDisabling' /\ \A m \in DisabledTwice : m \in DisabledTwice'
<1>1. \A q \in wasDisabled : q \in Requests \ {r} /\ op'[q] = op[q] /\ target'[q] = target[q]
  BY DEF CatInv, CatalogTypeOK
<1>2. WasDisabling'
  BY <1>1 DEF CatInv, WasDisabling
<1>3. ASSUME NEW m \in DisabledTwice PROVE m \in DisabledTwice'
  <2>1. PICK q \in wasDisabled : m = target[q] /\ m \in PerWorktree
    BY DEF DisabledTwice
  <2> QED
    BY <1>1, <2>1 DEF DisabledTwice
<1> QED
  BY <1>2, <1>3

(* Of a request that is done nothing is said.                              *)
LEMMA EndedFits ==
    ASSUME NEW r, op'[r] = "done", changes'[r] = {}
    PROVE  /\ ~Pending(r)'
           /\ DisablingFits(r)' /\ InstallFits(r)' /\ ChangesFit(r)'
BY DEF Pending, DisablingFits, InstallFits, ChangesFit, Installing, Rescans

(* enable() takes the flag away and loads what has none.                   *)
LEMMA EnableKeeps ==
    ASSUME CatInv, NEW r \in Requests, NEW m \in Modules, Enable(r, m)
    PROVE  CatInv'
<1> DEFINE loads == (IF m \in flagged /\ manifest[m] # 0 /\ m \in AnyRange THEN {m} ELSE {})
                    \cup Loadable
           A == {m} \cup (IF Known(m) = {} THEN loads ELSE {})
<1>1. CatalogTypeOK
  BY DEF CatInv
<1>2. /\ op[r] = "idle" /\ target[r] = m /\ Goes(r, "done") /\ flagged' = flagged \ {m}
      /\ Overlaps(A)
      /\ UNCHANGED <<directory, manifest, target, wasDisabled, changes, outside, disturbed>>
  BY DEF Enable
<1>3. A \subseteq Modules
  <2>1. Loadable \subseteq AnyRange /\ AnyRange \subseteq Modules
    BY CatalogAssumption DEF Loadable
  <2> QED
    BY <2>1
<1> HIDE DEF A, loads
<1>5. ASSUME Known(m) = {}
      PROVE  /\ Load(loads)
             /\ IF m \in flagged /\ m \in loads
                   THEN listed' = registered' /\ UNCHANGED quiet
                   ELSE listed' = listed /\ quiet' = quiet \cup
                          {n \in Modules :
                              registered'[<<n, IpcUnit>>] # registered[<<n, IpcUnit>>]}
  BY <1>5 DEF Enable, Emits, Silent, loads
<1>6. ASSUME Known(m) # {}
      PROVE  /\ UNCHANGED <<registered, quiet>>
             /\ listed' = registered' \/ (m \notin flagged /\ listed' = listed)
  BY <1>6 DEF Enable, Emits, Silent
<1>7. /\ registered' \in [Modules \X Units -> 0..MaxVersion]
      /\ \A n \in Modules, u \in Units :
            registered'[<<n, u>>] =
               IF Known(m) = {} /\ n \in loads /\ u = IpcUnit /\ registered[<<n, u>>] = 0
                 THEN manifest[n] ELSE registered[<<n, u>>]
  <2>1. CASE Known(m) = {}
    <3>1. Load(loads)
      BY <1>5, <2>1
    <3> QED
      BY <1>1, <2>1, <3>1, Loads
  <2>2. CASE Known(m) # {}
    BY <1>1, <1>6, <2>2 DEF CatalogTypeOK
  <2> QED
    BY <2>1, <2>2
<1>8. quiet \subseteq quiet' /\ quiet' \subseteq Modules /\ overlapped' \subseteq Modules
      /\ overlapped \subseteq overlapped' /\ listed' \in {listed, registered'}
  <2>1. overlapped' \subseteq Modules /\ overlapped \subseteq overlapped'
    BY <1>1, <1>2, <1>3 DEF Overlaps, CatalogTypeOK
  <2>2. quiet \subseteq Modules
    BY <1>1 DEF CatalogTypeOK
  <2> QED
    BY <1>5, <1>6, <2>1, <2>2
<1>9. CatalogTypeOK'
  <2>1. op' \in [Requests -> Phases]
    BY <1>1, <1>2, OpTypes DEF Phases
  <2>2. listed' \in [Modules \X Units -> 0..MaxVersion]
    BY <1>1, <1>7, <1>8 DEF CatalogTypeOK
  <2> QED
    BY <1>1, <1>2, <1>7, <1>8, <2>1, <2>2 DEF CatalogTypeOK, Phases
<1>10. changes[r] = {} /\ r \notin wasDisabled /\ ~Pending(r)
  BY <1>2, IdleIs
<1>11. op'[r] = "done" /\ \A q \in Requests \ {r} : op'[q] = op[q]
  BY <1>1, <1>2, Goings
<1>12. GlobalsInOne' /\ WasDisabling' /\ \A n \in DisabledTwice : n \in DisabledTwice'
  <2>1. GlobalsInOne'
    <3>1. GlobalsInOne
      BY DEF CatInv
    <3>2. \A n \in Modules : registered'[<<n, "worktree">>] = registered[<<n, "worktree">>]
      BY <1>7 DEF Units, IpcUnit
    <3> QED
      BY <3>1, <3>2 DEF GlobalsInOne
  <2>2. WasDisabling' /\ \A n \in DisabledTwice : n \in DisabledTwice'
    BY <1>2, <1>10, <1>11, DisablingStays
  <2> QED
    BY <2>1, <2>2
<1>13. Frame(A) /\ OthersStay({r})
  <2>1. \A n \in Modules \ A : n # m /\ (Known(m) = {} => n \notin loads)
    BY DEF A
  <2> QED
    BY <1>2, <1>7, <1>11, <2>1 DEF Frame, OthersStay
<1>14. \A n \in Modules : Clean(n)' => Clean(n)
  BY <1>2, <1>8, CleanBefore
<1>15. \A n \in A : Private(n, {r})
  BY <1>2, <1>3, OverlapIsSeen
<1>16. DisablingFits(r)' /\ InstallFits(r)' /\ ChangesFit(r)' /\ ~Pending(r)'
  BY <1>2, <1>10, <1>11, EndedFits
<1>17. \/ listed' = registered'
       \/ /\ listed' = listed
          /\ \A n \in A : Clean(n)' => \A u \in Units : registered'[<<n, u>>] = registered[<<n, u>>]
  <2>1. CASE Known(m) # {}
    BY <1>6, <2>1
  <2>2. CASE Known(m) = {} /\ listed' # registered'
    <3>1. /\ listed' = listed
          /\ quiet' = quiet \cup
                {n \in Modules : registered'[<<n, IpcUnit>>] # registered[<<n, IpcUnit>>]}
      BY <1>5, <2>2
    <3>2. \A n \in Modules : Clean(n)' => registered'[<<n, IpcUnit>>] = registered[<<n, IpcUnit>>]
      BY <3>1 DEF Clean
    <3> QED
      BY <1>3, <1>7, <3>1, <3>2
  <2> QED
    BY <2>1, <2>2
<1>18. ASSUME NEW n \in A, Clean(n)' PROVE FlaggedIsUnknown(n)' /\ DecidedFits(n)'
  <2>1. n \in Modules /\ Clean(n) /\ FlaggedIsUnknown(n) /\ DecidedFits(n)
    BY <1>3, <1>14, <1>18 DEF CatInv
  <2>2. \A q \in Requests : op[q] \in {"disabling", "reifying"} => target[q] # n
    BY <1>2, <1>15, <1>18 DEF Private, Pending, WorksOn, Rescans
  <2>3. n \notin flagged'
    <3>1. n # m => n \in Loadable
      BY DEF A, loads
    <3> QED
      BY <1>2, <3>1 DEF Loadable
  <2>4. ASSUME n \in Decided PROVE Known(n)' # {} <=> manifest'[n] # 0
    <3>1. n \in AnyRange /\ n \notin PerWorktree
      BY <2>4 DEF Decided
    <3>2. registered[<<n, "worktree">>] = 0 /\ registered'[<<n, "worktree">>] = 0
      BY <1>12, <2>1, <3>1 DEF CatInv, GlobalsInOne
    <3>3. Known(n)' = {} <=> registered'[<<n, "global">>] = 0
      BY <3>2, KnownOf
    <3>4. Known(n) = {} <=> registered[<<n, "global">>] = 0
      BY <3>2, KnownOf
    <3>5. CASE Known(m) # {}
      <4>1. n = m
        BY <3>5 DEF A
      <4>2. FlagDecidesOf(n)
        BY <2>1, <2>2, <2>4 DEF DecidedFits
      <4>3. registered'[<<n, "global">>] = registered[<<n, "global">>]
        BY <1>7, <2>1, <3>5 DEF Units
      <4> QED
        BY <1>2, <3>3, <3>4, <3>5, <4>1, <4>2, <4>3 DEF FlagDecidesOf
    <3>6. CASE Known(m) = {}
      <4>1. registered'[<<n, "global">>] =
               IF n \in loads /\ registered[<<n, "global">>] = 0
                 THEN manifest[n] ELSE registered[<<n, "global">>]
        BY <1>7, <2>1, <3>6 DEF Units, IpcUnit
      <4>2. n \in loads <=> manifest[n] # 0
        <5>1. CASE n # m
          BY <3>6, <5>1 DEF A, loads, Loadable
        <5>2. CASE n = m
          BY <3>1, <5>2 DEF loads, Loadable
        <5> QED
          BY <5>1, <5>2
      <4>3. n = m \/ n \in loads
        BY <3>6 DEF A
      <4> QED
        BY <1>2, <3>3, <3>4, <3>6, <4>1, <4>2, <4>3
    <3> QED
      BY <3>5, <3>6
  <2> QED
    BY <2>3, <2>4 DEF FlaggedIsUnknown, DecidedFits, FlagDecidesOf
<1>19. A \in SUBSET Modules /\ {r} \in SUBSET Requests
  BY <1>3
<1>20. op[r] \notin {"disabling", "reifying"}
  BY <1>2
<1> QED
  BY <1>9, <1>12, <1>13, <1>14, <1>15, <1>16, <1>17, <1>18, <1>19, <1>20, Keeping

(* disable() sets it,                                                      *)
LEMMA DisableKeeps ==
    ASSUME CatInv, NEW r \in Requests, NEW m \in Modules, Disable(r, m)
    PROVE  CatInv'
<1>1. CatalogTypeOK
  BY DEF CatInv
<1>2. /\ op[r] = "idle" /\ target[r] = m
      /\ directory' = directory \cup {m} /\ flagged' = flagged \cup {m}
      /\ wasDisabled' = IF m \in flagged THEN wasDisabled \cup {r} ELSE wasDisabled
      /\ Goes(r, IF Known(m) # {} THEN "disabling" ELSE "done")
      /\ listed' = registered' \/ listed' = listed
      /\ Overlaps({m})
      /\ UNCHANGED <<manifest, registered, target, changes, outside, disturbed, quiet>>
  BY DEF Disable, Silent
<1>3. changes[r] = {} /\ r \notin wasDisabled /\ ~Pending(r)
  BY <1>2, IdleIs
<1>4. /\ op'[r] = IF Known(m) # {} THEN "disabling" ELSE "done"
      /\ \A q \in Requests \ {r} : op'[q] = op[q]
  BY <1>1, <1>2, Goings
<1>5. overlapped' \subseteq Modules /\ overlapped \subseteq overlapped'
  BY <1>1, <1>2 DEF Overlaps, CatalogTypeOK
<1>6. CatalogTypeOK'
  <2>1. op' \in [Requests -> Phases]
    BY <1>1, <1>2, OpTypes DEF Phases
  <2>2. listed' \in [Modules \X Units -> 0..MaxVersion]
    BY <1>1, <1>2 DEF CatalogTypeOK
  <2>3. \A n \in Modules : n \notin directory' => manifest'[n] = 0 /\ n \notin flagged'
    BY <1>1, <1>2 DEF CatalogTypeOK
  <2> QED
    BY <1>1, <1>2, <1>5, <2>1, <2>2, <2>3 DEF CatalogTypeOK, Phases
<1>7. GlobalsInOne' /\ WasDisabling' /\ \A n \in DisabledTwice : n \in DisabledTwice'
  <2>1. GlobalsInOne'
    BY <1>2 DEF CatInv, GlobalsInOne
  <2>2. WasDisabling'
    <3>1. \A q \in wasDisabled : q \in Requests \ {r} /\ op'[q] = op[q]
      BY <1>1, <1>3, <1>4 DEF CatalogTypeOK
    <3> QED
      BY <1>2, <1>4, <3>1 DEF CatInv, WasDisabling
  <2>3. \A n \in DisabledTwice : n \in DisabledTwice'
    BY <1>2 DEF DisabledTwice
  <2> QED
    BY <2>1, <2>2, <2>3
<1>8. Frame({m}) /\ OthersStay({r})
  BY <1>2, <1>4 DEF Frame, OthersStay
<1>9. \A n \in Modules : Clean(n)' => Clean(n)
  BY <1>2, <1>5, CleanBefore
<1>10. Private(m, {r})
  BY <1>2, OverlapIsSeen
<1>11. Clean(m)' => \A q \in Requests : op[q] \in {"disabling", "reifying"} => target[q] # m
  BY <1>2, <1>10 DEF Private, Pending, WorksOn, Rescans
<1>12. Pending(r)' => \A n \in WorksOn(r)' : Private(n, {r})
  <2>1. WorksOn(r)' = {m}
    BY <1>2, <1>4 DEF WorksOn, Rescans
  <2> QED
    BY <1>10, <2>1
<1>13. DisablingFits(r)' /\ InstallFits(r)' /\ ChangesFit(r)'
  <2>1. InstallFits(r)' /\ ChangesFit(r)'
    BY <1>2, <1>3, <1>4 DEF InstallFits, ChangesFit, Installing, Rescans
  <2>2. ASSUME op'[r] = "disabling", Clean(m)', r \in wasDisabled' PROVE m \in PerWorktree
    <3>1. m \in flagged /\ Known(m) # {}
      BY <1>2, <1>3, <1>4, <2>2
    <3>2. FlaggedIsUnknown(m)
      BY <1>9, <2>2 DEF CatInv
    <3> QED
      BY <1>11, <2>2, <3>1, <3>2 DEF FlaggedIsUnknown
  <2>3. DisablingFits(r)'
    BY <1>2, <2>2 DEF DisablingFits
  <2> QED
    BY <2>1, <2>3
<1>14. ASSUME Clean(m)' PROVE FlaggedIsUnknown(m)' /\ DecidedFits(m)'
  <2>1. Known(m)' = Known(m)
    BY <1>2 DEF Known
  <2>2. op'[r] = "disabling" \/ Known(m)' = {}
    BY <1>4, <2>1
  <2> QED
    BY <1>2, <2>2 DEF FlaggedIsUnknown, DecidedFits, FlagDecidesOf
<1>15. {m} \in SUBSET Modules /\ {r} \in SUBSET Requests /\ op[r] \notin {"disabling", "reifying"}
  BY <1>2
<1>16. \/ listed' = registered'
       \/ /\ listed' = listed
          /\ \A n \in {m} : \A u \in Units : registered'[<<n, u>>] = registered[<<n, u>>]
  BY <1>2
<1> QED
  BY <1>6, <1>7, <1>8, <1>9, <1>10, <1>12, <1>13, <1>14, <1>15, <1>16, Keeping

(* and takes the manifest away when the subprocess is shut down.           *)
LEMMA DisabledKeeps ==
    ASSUME CatInv, NEW r \in Requests, Disabled(r)
    PROVE  CatInv'
<1>1. CatalogTypeOK
  BY DEF CatInv
<1> PICK m \in Modules : m = target[r]
  BY <1>1 DEF CatalogTypeOK
<1>2. /\ op[r] = "disabling" /\ Goes(r, "done")
      /\ Registers(m, FirstUnit(m), 0)
      /\ IF r \in wasDisabled THEN listed' = listed ELSE listed' = registered'
      /\ UNCHANGED <<disk, target, wasDisabled, changes, outside, catalogHistory>>
  BY DEF Disabled, Emits, Silent
<1>3. changes[r] = {} /\ Pending(r) /\ WorksOn(r) = {m}
  BY <1>2 DEF CatInv, ChangesFit, Pending, Rescans, WorksOn
<1>4. op'[r] = "done" /\ \A q \in Requests \ {r} : op'[q] = op[q]
  BY <1>1, <1>2, Goings
<1>5. FirstUnit(m) \in Units /\ 0 \in 0..MaxVersion
  BY CatalogAssumption DEF FirstUnit, BootUnit, IpcUnit, Units
<1>6. /\ registered' \in [Modules \X Units -> 0..MaxVersion]
      /\ \A n \in Modules, w \in Units :
            registered'[<<n, w>>] = IF n = m /\ w = FirstUnit(m) THEN 0 ELSE registered[<<n, w>>]
  <2>1. RegisteredAs(m, FirstUnit(m), 0)
    BY <1>1, <1>2, <1>5, Registrations
  <2> QED
    BY <2>1 DEF RegisteredAs
<1>7. CatalogTypeOK'
  <2>1. op' \in [Requests -> Phases]
    BY <1>1, <1>2, OpTypes DEF Phases
  <2>2. listed' \in [Modules \X Units -> 0..MaxVersion]
    BY <1>1, <1>2, <1>6 DEF CatalogTypeOK
  <2> QED
    BY <1>1, <1>2, <1>6, <2>1, <2>2 DEF CatalogTypeOK, Phases, disk, catalogHistory
<1>8. GlobalsInOne' /\ WasDisabling' /\ \A n \in DisabledTwice : n \in DisabledTwice'
  <2>1. GlobalsInOne'
    BY <1>6 DEF CatInv, GlobalsInOne, Units
  <2>2. WasDisabling'
    <3>1. \A q \in wasDisabled : q = r \/ (q \in Requests \ {r} /\ op'[q] = op[q])
      BY <1>1, <1>4 DEF CatalogTypeOK
    <3> QED
      BY <1>2, <1>4, <3>1 DEF CatInv, WasDisabling
  <2> QED
    BY <1>2, <2>1, <2>2 DEF DisabledTwice
<1>9. Frame({m}) /\ OthersStay({r})
  BY <1>2, <1>4, <1>6 DEF Frame, OthersStay, disk
<1>10. \A n \in Modules : Clean(n)' => Clean(n)
  BY <1>2 DEF Clean, catalogHistory
<1>11. Private(m, {r})
  BY <1>1, <1>3, <1>10, OwnIsPrivate
<1>12. DisablingFits(r)' /\ InstallFits(r)' /\ ChangesFit(r)' /\ ~Pending(r)'
  BY <1>2, <1>3, <1>4, EndedFits
<1>13. ASSUME Clean(m)'
       PROVE  m \in flagged /\ (r \in wasDisabled => m \in PerWorktree)
  <2>1. DisablingFits(r)
    BY DEF CatInv
  <2> QED
    BY <1>1, <1>2, <1>10, <1>13, <2>1 DEF DisablingFits
<1>14. ASSUME m \notin PerWorktree PROVE Known(m)' = {}
  <2>1. FirstUnit(m) = "global" /\ registered[<<m, "worktree">>] = 0
    BY <1>1, <1>14 DEF FirstUnit, BootUnit, IpcUnit, CatInv, GlobalsInOne
  <2>2. registered'[<<m, "global">>] = 0 /\ registered'[<<m, "worktree">>] = 0
    BY <1>1, <1>6, <2>1 DEF Units
  <2> QED
    BY <2>2, KnownOf
<1>15. ASSUME Clean(m)' PROVE FlaggedIsUnknown(m)' /\ DecidedFits(m)'
  <2>1. m \in flagged'
    BY <1>2, <1>13, <1>15 DEF disk
  <2> QED
    BY <1>14, <2>1 DEF FlaggedIsUnknown, DecidedFits, FlagDecidesOf, Decided
<1>16. \/ listed' = registered'
       \/ listed' = listed /\ (Clean(m)' => m \in DisabledTwice')
  BY <1>2, <1>13 DEF DisabledTwice
<1>17. {m} \in SUBSET Modules /\ {r} \in SUBSET Requests /\ target[r] \in {m}
  OBVIOUS
<1> QED
  BY <1>7, <1>8, <1>9, <1>10, <1>11, <1>12, <1>15, <1>16, <1>17, Keeping

(* Installs and uninstalls work on one module.                             *)
LEMMA OneModule ==
    ASSUME CatInv, NEW r \in Requests, NEW m \in Modules, m = target[r],
           op[r] \notin Rescans \cup {"disabling", "done"},
           NEW p \in {"downloading", "extracting", "reifying", "uninstalling", "done"}, Goes(r, p),
           UNCHANGED <<target, wasDisabled, changes, outside, disturbed, quiet>>,
           overlapped \subseteq overlapped' /\ overlapped' \subseteq Modules,
           Private(m, {r}), Frame({m}),
           directory' \cup flagged' \subseteq Modules, manifest' \in [Modules -> 0..MaxVersion],
           m \notin directory' => manifest'[m] = 0 /\ m \notin flagged',
           \A n \in Modules \ {m} : n \in directory' <=> n \in directory,
           registered' \in [Modules \X Units -> 0..MaxVersion],
           m \notin PerWorktree => registered'[<<m, "worktree">>] = 0,
           \/ listed' = registered'
           \/ listed' = listed /\ \A u \in Units : registered'[<<m, u>>] = registered[<<m, u>>],
           \/ Frame({}) /\ op[r] # "reifying"
           \/ Clean(m)' => FlaggedIsUnknown(m)' /\ DecidedFits(m)',
           InstallFits(r)'
    PROVE  CatInv'
<1>1. CatalogTypeOK
  BY DEF CatInv
<1>2. changes[r] = {} /\ r \notin wasDisabled
  BY DEF CatInv, ChangesFit, WasDisabling
<1>3. op'[r] = p /\ \A q \in Requests \ {r} : op'[q] = op[q]
  BY <1>1, Goings
<1>4. CatalogTypeOK'
  <2>1. op' \in [Requests -> Phases]
    BY <1>1, OpTypes DEF Phases
  <2>2. listed' \in [Modules \X Units -> 0..MaxVersion]
    BY <1>1 DEF CatalogTypeOK
  <2>3. ASSUME NEW n \in Modules, n \notin directory' PROVE manifest'[n] = 0 /\ n \notin flagged'
    <3>1. CASE n = m
      BY <2>3, <3>1
    <3>2. CASE n # m
      BY <1>1, <2>3, <3>2 DEF CatalogTypeOK, Frame
    <3> QED
      BY <3>1, <3>2
  <2>4. quiet' \cup disturbed' \subseteq Modules /\ outside' \in 0..MaxOutside
        /\ target' \in [Requests -> Modules] /\ wasDisabled' \subseteq Requests
        /\ changes' \in [Requests -> SUBSET
             [kind : {"install", "update", "uninstall"}, module : Modules, version : Versions,
              unit : Units]]
    BY <1>1 DEF CatalogTypeOK
  <2> QED
    BY <2>1, <2>2, <2>3, <2>4 DEF CatalogTypeOK, Phases
<1>5. GlobalsInOne'
  <2>1. ASSUME NEW n \in Modules, n \notin PerWorktree PROVE registered'[<<n, "worktree">>] = 0
    <3>1. CASE n = m
      BY <2>1, <3>1
    <3>2. CASE n # m
      BY <2>1, <3>2 DEF Frame, CatInv, GlobalsInOne, Units
    <3> QED
      BY <3>1, <3>2
  <2> QED
    BY <2>1 DEF GlobalsInOne
<1>6. WasDisabling' /\ \A n \in DisabledTwice : n \in DisabledTwice'
  BY <1>2, <1>3, DisablingStays
<1>7. OthersStay({r})
  BY <1>3 DEF OthersStay
<1>8. \A n \in Modules : Clean(n)' => Clean(n)
  BY CleanBefore
<1>9. Pending(r)' => \A n \in WorksOn(r)' : Private(n, {r})
  <2>1. WorksOn(r)' = {m}
    BY <1>3 DEF WorksOn, Rescans
  <2> QED
    BY <2>1
<1>10. DisablingFits(r)' /\ ChangesFit(r)'
  BY <1>2, <1>3 DEF DisablingFits, ChangesFit, Rescans
<1>11. CASE Frame({}) /\ op[r] # "reifying"
  <2>1. listed' = registered' \/ listed' = listed
    OBVIOUS
  <2>2. {} \in SUBSET Modules /\ {r} \in SUBSET Requests /\ op[r] \notin {"disabling", "reifying"}
    BY <1>11
  <2> QED
    BY <1>4, <1>5, <1>6, <1>7, <1>8, <1>9, <1>10, <1>11, <2>1, <2>2, Keeping
<1>12. CASE Clean(m)' => FlaggedIsUnknown(m)' /\ DecidedFits(m)'
  <2>1. {m} \in SUBSET Modules /\ {r} \in SUBSET Requests /\ target[r] \in {m}
    OBVIOUS
  <2> QED
    BY <1>4, <1>5, <1>6, <1>7, <1>8, <1>9, <1>10, <1>12, <2>1, Keeping
<1> QED
  BY <1>11, <1>12

(* The history of overlaps is one of modules.                              *)
LEMMA OverlapsTypes ==
    ASSUME CatalogTypeOK, NEW ms \in SUBSET Modules, Overlaps(ms)
    PROVE  overlapped \subseteq overlapped' /\ overlapped' \subseteq Modules
BY DEF Overlaps, CatalogTypeOK

(* They begin with a look at the directory;                                *)
LEMMA InstallKeeps ==
    ASSUME CatInv, NEW r \in Requests, NEW m \in Modules, Install(r, m) \/ Uninstall(r, m)
    PROVE  CatInv'
<1>1. CatalogTypeOK
  BY DEF CatInv
<1>2. PICK p \in {"downloading", "uninstalling", "done"} :
         Goes(r, p) /\ (p = "downloading" => m \notin directory)
  BY DEF Install, Uninstall
<1>3. /\ op[r] = "idle" /\ target[r] = m /\ Overlaps({m})
      /\ UNCHANGED <<directory, manifest, flagged, registered, target, wasDisabled, changes,
                     listed, outside, disturbed, quiet>>
  BY DEF Install, Uninstall, disk
<1>4. overlapped \subseteq overlapped' /\ overlapped' \subseteq Modules
  BY <1>1, <1>3, OverlapsTypes
<1>5. Private(m, {r})
  BY <1>3, OverlapIsSeen
<1>6. op'[r] = p
  BY <1>1, <1>2, Goings
<1>7. InstallFits(r)'
  <2> SUFFICES ASSUME op'[r] \in Installing, Clean(m)'
               PROVE  /\ m \notin flagged'
                      /\ m \in Decided =>
                            Known(m)' = {} /\ (manifest'[m] # 0 <=> op'[r] = "reifying")
    BY <1>3 DEF InstallFits
  <2>1. p = "downloading" /\ m \notin directory
    BY <1>2, <1>6 DEF Installing
  <2>2. m \notin flagged /\ manifest[m] = 0
    BY <1>1, <2>1 DEF CatalogTypeOK
  <2>3. \A q \in Requests : op[q] \in {"disabling", "reifying"} => target[q] # m
    BY <1>3, <1>5 DEF Private, Pending, WorksOn, Rescans
  <2>4. Clean(m)
    BY <1>3, <1>4 DEF Clean
  <2>5. m \in Decided => Known(m) = {}
    BY <2>2, <2>3, <2>4 DEF CatInv, DecidedFits, FlagDecidesOf
  <2>6. Known(m)' = Known(m)
    BY <1>3 DEF Known
  <2> QED
    BY <1>3, <1>6, <2>1, <2>2, <2>5, <2>6
<1>8. Frame({}) /\ Frame({m})
  BY <1>3 DEF Frame
<1>9. /\ directory' \cup flagged' \subseteq Modules /\ manifest' \in [Modules -> 0..MaxVersion]
      /\ registered' \in [Modules \X Units -> 0..MaxVersion]
      /\ m \notin directory' => manifest'[m] = 0 /\ m \notin flagged'
      /\ m \notin PerWorktree => registered'[<<m, "worktree">>] = 0
  BY <1>1, <1>3 DEF CatalogTypeOK, CatInv, GlobalsInOne
<1>10. op[r] \notin Rescans \cup {"disabling", "done", "reifying"}
  BY <1>3 DEF Rescans
<1> QED
  BY <1>2, <1>3, <1>4, <1>5, <1>7, <1>8, <1>9, <1>10, OneModule

(* the download changes the directory at most.                             *)
LEMMA DownloadKeeps ==
    ASSUME CatInv, NEW r \in Requests, DownloadFails(r) \/ Downloaded(r)
    PROVE  CatInv'
<1>1. CatalogTypeOK
  BY DEF CatInv
<1> PICK m \in Modules : m = target[r]
  BY <1>1 DEF CatalogTypeOK
<1>2. PICK p \in {"extracting", "done"} : Goes(r, p)
  BY DEF DownloadFails, Downloaded
<1>3. /\ op[r] = "downloading" /\ directory' \in {directory, directory \cup {m}}
      /\ UNCHANGED <<manifest, flagged, registered, target, wasDisabled, changes,
                     listed, outside, overlapped, disturbed, quiet>>
  BY DEF DownloadFails, Downloaded, disk, catalogHistory
<1>4. op'[r] = p
  BY <1>1, <1>2, Goings
<1>5. Private(m, {r})
  BY <1>3, OwnIsPrivate DEF Pending, WorksOn, Rescans, Clean
<1>6. InstallFits(r)'
  <2> SUFFICES ASSUME Clean(m)'
               PROVE  /\ m \notin flagged'
                      /\ m \in Decided =>
                            Known(m)' = {} /\ (manifest'[m] # 0 <=> op'[r] = "reifying")
    BY <1>3 DEF InstallFits
  <2>1. /\ m \notin flagged
        /\ m \in Decided => Known(m) = {} /\ (manifest[m] # 0 <=> op[r] = "reifying")
    BY <1>3 DEF CatInv, InstallFits, Installing, Clean
  <2>2. Known(m)' = Known(m)
    BY <1>3 DEF Known
  <2> QED
    BY <1>3, <1>4, <2>1, <2>2
<1>7. Frame({}) /\ Frame({m})
  BY <1>3 DEF Frame
<1>8. /\ directory' \cup flagged' \subseteq Modules /\ manifest' \in [Modules -> 0..MaxVersion]
      /\ registered' \in [Modules \X Units -> 0..MaxVersion]
      /\ m \notin directory' => manifest'[m] = 0 /\ m \notin flagged'
      /\ m \notin PerWorktree => registered'[<<m, "worktree">>] = 0
      /\ overlapped' \subseteq Modules
  BY <1>1, <1>3 DEF CatalogTypeOK, CatInv, GlobalsInOne
<1>9. op[r] \notin Rescans \cup {"disabling", "done", "reifying"}
  BY <1>3 DEF Rescans
<1> QED
  BY <1>2, <1>3, <1>5, <1>6, <1>7, <1>8, <1>9, OneModule

(* A rollback leaves nothing of the module on disk:                        *)
LEMMA RolledBack ==
    ASSUME CatInv, NEW m \in Modules, Rollback(m),
           \/ UNCHANGED registered
           \/ Registers(m, IpcUnit, 0)
    PROVE  /\ directory' \cup flagged' \subseteq Modules /\ manifest' \in [Modules -> 0..MaxVersion]
           /\ registered' \in [Modules \X Units -> 0..MaxVersion]
           /\ m \notin directory' /\ manifest'[m] = 0 /\ m \notin flagged'
           /\ \A n \in Modules \ {m} : n \in directory' <=> n \in directory
           /\ m \notin PerWorktree => registered'[<<m, "worktree">>] = 0
           /\ Frame({m})
<1>1. CatalogTypeOK
  BY DEF CatInv
<1>2. /\ directory' = directory \ {m} /\ manifest' = [manifest EXCEPT ![m] = 0]
      /\ flagged' = flagged \ {m}
  BY DEF Rollback
<1>3. /\ directory' \cup flagged' \subseteq Modules /\ manifest' \in [Modules -> 0..MaxVersion]
      /\ manifest'[m] = 0 /\ \A n \in Modules \ {m} : manifest'[n] = manifest[n]
  BY <1>1, <1>2, CatalogAssumption DEF CatalogTypeOK
<1>4. /\ registered' \in [Modules \X Units -> 0..MaxVersion]
      /\ \A n \in Modules, u \in Units :
            registered'[<<n, u>>] = registered[<<n, u>>] \/ (n = m /\ u = IpcUnit)
  <2>1. CASE UNCHANGED registered
    BY <1>1, <2>1 DEF CatalogTypeOK
  <2>2. CASE Registers(m, IpcUnit, 0)
    <3>1. 0 \in 0..MaxVersion /\ IpcUnit \in Units
      BY CatalogAssumption DEF IpcUnit, Units
    <3>2. RegisteredAs(m, IpcUnit, 0)
      BY <1>1, <2>2, <3>1, Registrations
    <3> QED
      BY <3>2 DEF RegisteredAs
  <2> QED
    BY <2>1, <2>2
<1>5. m \notin PerWorktree => registered'[<<m, "worktree">>] = 0
  BY <1>4 DEF CatInv, GlobalsInOne, Units, IpcUnit
<1>6. Frame({m})
  BY <1>2, <1>3, <1>4 DEF Frame
<1> QED
  BY <1>2, <1>3, <1>4, <1>5, <1>6

(* the way an install fails.                                               *)
LEMMA InstallFailsKeeps ==
    ASSUME CatInv, NEW r \in Requests, NEW m \in Modules, m = target[r], Goes(r, "done"),
           op[r] \in {"extracting", "reifying"}, Rollback(m),
           UNCHANGED <<registered, target, wasDisabled, changes, listed, outside, catalogHistory>>
    PROVE  CatInv'
<1>1. CatalogTypeOK
  BY DEF CatInv
<1>2. op'[r] = "done"
  BY <1>1, Goings
<1>3. Private(m, {r})
  BY OwnIsPrivate DEF Pending, WorksOn, Rescans, Clean, catalogHistory
<1>4. InstallFits(r)'
  BY <1>2 DEF InstallFits, Installing
<1>5. /\ directory' \cup flagged' \subseteq Modules /\ manifest' \in [Modules -> 0..MaxVersion]
      /\ registered' \in [Modules \X Units -> 0..MaxVersion]
      /\ m \notin directory' /\ manifest'[m] = 0 /\ m \notin flagged'
      /\ \A n \in Modules \ {m} : n \in directory' <=> n \in directory
      /\ m \notin PerWorktree => registered'[<<m, "worktree">>] = 0
      /\ Frame({m})
  BY RolledBack
<1>6. ASSUME Clean(m)' PROVE FlaggedIsUnknown(m)' /\ DecidedFits(m)'
  <2>1. Clean(m)
    BY <1>6 DEF Clean, catalogHistory
  <2>2. m \in Decided => Known(m) = {}
    BY <2>1 DEF CatInv, InstallFits, Installing
  <2>3. Known(m)' = Known(m)
    BY DEF Known
  <2> QED
    BY <1>5, <2>2, <2>3 DEF FlaggedIsUnknown, DecidedFits, FlagDecidesOf
<1>7. /\ overlapped \subseteq overlapped' /\ overlapped' \subseteq Modules
      /\ UNCHANGED <<disturbed, quiet>>
  BY <1>1 DEF CatalogTypeOK, catalogHistory
<1>8. op[r] \notin Rescans \cup {"disabling", "done"}
  BY DEF Rescans
<1> QED
  BY <1>3, <1>4, <1>5, <1>6, <1>7, <1>8, OneModule

(* Extraction writes the manifest,                                         *)
LEMMA ExtractedKeeps ==
    ASSUME CatInv, NEW r \in Requests, NEW v \in Versions, Extracted(r, v)
    PROVE  CatInv'
<1>1. CatalogTypeOK
  BY DEF CatInv
<1> PICK m \in Modules : m = target[r]
  BY <1>1 DEF CatalogTypeOK
<1>2. /\ op[r] = "extracting" /\ Goes(r, "reifying")
      /\ directory' = directory \cup {m}
      /\ manifest' = [manifest EXCEPT ![m] = v]
      /\ UNCHANGED <<flagged, registered, target, wasDisabled, changes, listed, outside,
                     overlapped, disturbed, quiet>>
  BY DEF Extracted, catalogHistory
<1>3. op'[r] = "reifying"
  BY <1>1, <1>2, Goings
<1>4. Private(m, {r})
  BY <1>2, OwnIsPrivate DEF Pending, WorksOn, Rescans, Clean
<1>5. /\ manifest' \in [Modules -> 0..MaxVersion] /\ manifest'[m] = v /\ v # 0
      /\ \A n \in Modules \ {m} : manifest'[n] = manifest[n]
  BY <1>1, <1>2, CatalogAssumption DEF CatalogTypeOK, Versions
<1>6. ASSUME Clean(m)' PROVE m \notin flagged /\ (m \in Decided => Known(m)' = {})
  <2>1. m \notin flagged /\ (m \in Decided => Known(m) = {})
    BY <1>2, <1>6 DEF CatInv, InstallFits, Installing, Clean
  <2>2. Known(m)' = Known(m)
    BY <1>2 DEF Known
  <2> QED
    BY <2>1, <2>2
<1>7. InstallFits(r)'
  BY <1>2, <1>3, <1>5, <1>6 DEF InstallFits
<1>8. Clean(m)' => FlaggedIsUnknown(m)' /\ DecidedFits(m)'
  BY <1>2, <1>3, <1>6 DEF FlaggedIsUnknown, DecidedFits
<1>9. Frame({m})
  BY <1>2, <1>5 DEF Frame
<1>10. /\ directory' \cup flagged' \subseteq Modules
       /\ registered' \in [Modules \X Units -> 0..MaxVersion]
       /\ m \in directory'
       /\ m \notin PerWorktree => registered'[<<m, "worktree">>] = 0
       /\ overlapped' \subseteq Modules
  BY <1>1, <1>2 DEF CatalogTypeOK, CatInv, GlobalsInOne
<1>11. op[r] \notin Rescans \cup {"disabling", "done"}
  BY <1>2 DEF Rescans
<1> QED
  BY <1>2, <1>4, <1>5, <1>7, <1>8, <1>9, <1>10, <1>11, OneModule

(* which is registered at the end or rolled back;                          *)
LEMMA InstallEndsKeeps ==
    ASSUME CatInv, NEW r \in Requests, InstallEnds(r)
    PROVE  CatInv'
<1>1. CatalogTypeOK
  BY DEF CatInv
<1> PICK m \in Modules : m = target[r]
  BY <1>1 DEF CatalogTypeOK
<1>2. /\ op[r] = "reifying" /\ Goes(r, "done")
      /\ UNCHANGED <<target, wasDisabled, changes, outside, overlapped, disturbed, quiet>>
      /\ IF manifest[m] = 0 \/ m \notin AnyRange
           THEN Rollback(m) /\ UNCHANGED registered /\ listed' = listed
           ELSE /\ UNCHANGED disk
                /\ IF registered[<<m, IpcUnit>>] # 0 THEN UNCHANGED registered /\ listed' = listed
                   ELSE Registers(m, IpcUnit, manifest[m]) /\ listed' = registered'
  BY DEF InstallEnds, catalogHistory, Emits, Silent
<1>3. CASE manifest[m] = 0 \/ m \notin AnyRange
  <2>1. Rollback(m) /\ UNCHANGED registered /\ listed' = listed
    BY <1>2, <1>3
  <2> QED
    BY <1>2, <2>1, InstallFailsKeeps DEF catalogHistory
<1>4. CASE ~(manifest[m] = 0 \/ m \notin AnyRange)
  <2>1. op'[r] = "done"
    BY <1>1, <1>2, Goings
  <2>2. Private(m, {r})
    BY <1>2, OwnIsPrivate DEF Pending, WorksOn, Rescans, Clean
  <2>3. InstallFits(r)'
    BY <2>1 DEF InstallFits, Installing
  <2>4. ASSUME Clean(m)' PROVE m \notin flagged /\ (m \in Decided => Known(m) = {})
    BY <1>2, <2>4 DEF CatInv, InstallFits, Installing, Clean
  <2>5. UNCHANGED <<directory, manifest, flagged>>
    BY <1>2, <1>4 DEF disk
  <2>6. manifest[m] \in 0..MaxVersion /\ manifest[m] # 0
    BY <1>1, <1>4 DEF CatalogTypeOK
  <2>7. /\ directory' \cup flagged' \subseteq Modules /\ manifest' \in [Modules -> 0..MaxVersion]
        /\ m \notin directory' => manifest'[m] = 0 /\ m \notin flagged'
        /\ overlapped' \subseteq Modules
    BY <1>1, <1>2, <2>5 DEF CatalogTypeOK
  <2>8. op[r] \notin Rescans \cup {"disabling", "done"}
    BY <1>2 DEF Rescans
  <2>9. CASE registered[<<m, IpcUnit>>] # 0
    <3>1. UNCHANGED registered /\ listed' = listed
      BY <1>2, <1>4, <2>9
    <3>2. Known(m) # {}
      BY <2>9, KnownOf DEF IpcUnit
    <3>3. Clean(m)' => FlaggedIsUnknown(m)' /\ DecidedFits(m)'
      BY <2>4, <2>5, <3>2 DEF FlaggedIsUnknown, DecidedFits
    <3>4. Frame({m})
      BY <2>5, <3>1 DEF Frame
    <3>5. /\ registered' \in [Modules \X Units -> 0..MaxVersion]
          /\ m \notin PerWorktree => registered'[<<m, "worktree">>] = 0
      BY <1>1, <3>1 DEF CatalogTypeOK, CatInv, GlobalsInOne
    <3> QED
      BY <1>2, <2>2, <2>3, <2>5, <2>7, <2>8, <3>1, <3>3, <3>4, <3>5, OneModule
  <2>10. CASE registered[<<m, IpcUnit>>] = 0
    <3>1. Registers(m, IpcUnit, manifest[m]) /\ listed' = registered'
      BY <1>2, <1>4, <2>10
    <3>2. /\ registered' \in [Modules \X Units -> 0..MaxVersion]
          /\ \A n \in Modules, w \in Units :
                registered'[<<n, w>>] =
                   IF n = m /\ w = IpcUnit THEN manifest[m] ELSE registered[<<n, w>>]
      <4>1. IpcUnit \in Units
        BY DEF Units, IpcUnit
      <4>2. RegisteredAs(m, IpcUnit, manifest[m])
        BY <1>1, <2>6, <3>1, <4>1, Registrations
      <4> QED
        BY <4>2 DEF RegisteredAs
    <3>3. registered'[<<m, "global">>] # 0
      BY <2>6, <3>2 DEF Units, IpcUnit
    <3>4. Known(m)' # {}
      BY <3>3, KnownOf
    <3>5. Clean(m)' => FlaggedIsUnknown(m)' /\ DecidedFits(m)'
      BY <2>4, <2>5, <2>6, <3>4 DEF FlaggedIsUnknown, DecidedFits, FlagDecidesOf
    <3>6. Frame({m})
      BY <2>5, <3>2 DEF Frame
    <3>7. m \notin PerWorktree => registered'[<<m, "worktree">>] = 0
      BY <3>2 DEF CatInv, GlobalsInOne, Units, IpcUnit
    <3> QED
      BY <1>2, <2>2, <2>3, <2>5, <2>7, <2>8, <3>1, <3>2, <3>5, <3>6, <3>7, OneModule
  <2> QED
    BY <2>9, <2>10
<1> QED
  BY <1>3, <1>4

(* and uninstalling takes both away.                                       *)
LEMMA UninstalledKeeps ==
    ASSUME CatInv, NEW r \in Requests, Uninstalled(r)
    PROVE  CatInv'
<1>1. CatalogTypeOK
  BY DEF CatInv
<1> PICK m \in Modules : m = target[r]
  BY <1>1 DEF CatalogTypeOK
<1>2. /\ op[r] = "uninstalling" /\ Goes(r, "done")
      /\ Registers(m, IpcUnit, 0) /\ Rollback(m) /\ listed' = registered'
      /\ UNCHANGED <<target, wasDisabled, changes, outside, overlapped, disturbed, quiet>>
  BY DEF Uninstalled, catalogHistory, Emits
<1>3. op'[r] = "done"
  BY <1>1, <1>2, Goings
<1>4. Private(m, {r})
  BY <1>2, OwnIsPrivate DEF Pending, WorksOn, Rescans, Clean
<1>5. InstallFits(r)'
  BY <1>3 DEF InstallFits, Installing
<1>6. /\ directory' \cup flagged' \subseteq Modules /\ manifest' \in [Modules -> 0..MaxVersion]
      /\ registered' \in [Modules \X Units -> 0..MaxVersion]
      /\ m \notin directory' /\ manifest'[m] = 0 /\ m \notin flagged'
      /\ \A n \in Modules \ {m} : n \in directory' <=> n \in directory
      /\ m \notin PerWorktree => registered'[<<m, "worktree">>] = 0
      /\ Frame({m})
  BY <1>2, RolledBack
<1>7. registered'[<<m, "global">>] = 0
  <2>1. 0 \in 0..MaxVersion /\ IpcUnit \in Units
    BY CatalogAssumption DEF IpcUnit, Units
  <2>2. RegisteredAs(m, IpcUnit, 0)
    BY <1>1, <1>2, <2>1, Registrations
  <2> QED
    BY <2>1, <2>2 DEF RegisteredAs, IpcUnit
<1>8. FlaggedIsUnknown(m)' /\ DecidedFits(m)'
  <2>1. m \in Decided => Known(m)' = {}
    BY <1>6, <1>7, KnownOf DEF Decided
  <2> QED
    BY <1>6, <2>1 DEF FlaggedIsUnknown, DecidedFits, FlagDecidesOf
<1>9. overlapped \subseteq overlapped' /\ overlapped' \subseteq Modules
  BY <1>1, <1>2 DEF CatalogTypeOK
<1>10. op[r] \notin Rescans \cup {"disabling", "done"}
  BY <1>2 DEF Rescans
<1> QED
  BY <1>2, <1>4, <1>5, <1>6, <1>8, <1>9, <1>10, OneModule

(* What a rescan has found, and has yet to apply, it works on.             *)
LEMMA ChangeIs ==
    ASSUME CatInv, NEW r \in Requests, NEW c \in changes[r]
    PROVE  /\ c \in ChangeSet /\ c.module \in Modules /\ c.version \in 1..MaxVersion
           /\ c.unit \in Units
           /\ op[r] \in Rescans /\ c.module \in WorksOn(r) /\ Pending(r)
<1>1. changes \in [Requests -> SUBSET ChangeSet]
  BY DEF CatInv, CatalogTypeOK, ChangeSet
<1>2. c \in ChangeSet
  BY <1>1
<1>3. op[r] \in Rescans
  BY DEF CatInv, ChangesFit
<1>4. c.module \in WorksOn(r) /\ Pending(r)
  BY <1>3 DEF WorksOn, Pending, Rescans
<1> QED
  BY <1>2, <1>3, <1>4 DEF ChangeSet, Versions

(* The steps of a rescan keep the invariant if they do of the modules they *)
(* change.                                                                 *)
LEMMA RescanStep ==
    ASSUME CatInv, NEW r \in Requests, op[r] \in Rescans,
           NEW p \in Rescans \cup {"done"}, Goes(r, p),
           UNCHANGED <<disk, wasDisabled, outside, catalogHistory>>,
           NEW t \in Modules, target' = [target EXCEPT ![r] = t],
           NEW C \in SUBSET changes[r], changes' = [changes EXCEPT ![r] = C],
           registered' \in [Modules \X Units -> 0..MaxVersion],
           NEW A \in SUBSET WorksOn(r), Frame(A),
           \A m \in A \ PerWorktree : registered'[<<m, "worktree">>] = 0,
           \/ listed' = registered'
           \/ /\ listed' = listed
              /\ \A m \in A : Clean(m) =>
                    \A u \in Units : registered'[<<m, u>>] = registered[<<m, u>>],
           \A m \in A : Clean(m) => FlaggedIsUnknown(m)' /\ DecidedFits(m)',
           ChangesFit(r)'
    PROVE  CatInv'
<1>1. CatalogTypeOK
  BY DEF CatInv
<1>2. op'[r] = p /\ \A q \in Requests \ {r} : op'[q] = op[q]
  BY <1>1, Goings
<1>3. /\ target' \in [Requests -> Modules] /\ target'[r] = t
      /\ \A q \in Requests \ {r} : target'[q] = target[q]
  BY <1>1 DEF CatalogTypeOK
<1>4. /\ changes' \in [Requests -> SUBSET ChangeSet] /\ changes'[r] = C
      /\ \A q \in Requests \ {r} : changes'[q] = changes[q]
  <2>1. changes \in [Requests -> SUBSET ChangeSet]
    BY <1>1 DEF CatalogTypeOK, ChangeSet
  <2>2. C \in SUBSET ChangeSet
    BY <2>1
  <2> QED
    BY <2>1, <2>2
<1>5. CatalogTypeOK'
  <2>1. op' \in [Requests -> Phases]
    BY <1>1, OpTypes DEF Rescans, Phases
  <2>2. listed' \in [Modules \X Units -> 0..MaxVersion]
    BY <1>1 DEF CatalogTypeOK
  <2> QED
    BY <1>1, <1>3, <1>4, <2>1, <2>2 DEF CatalogTypeOK, Phases, ChangeSet, disk, catalogHistory
<1>6. A \subseteq Modules /\ WorksOn(r) \subseteq Modules
  <2>1. \A c \in changes[r] : c.module \in Modules
    BY ChangeIs
  <2> QED
    BY <2>1 DEF WorksOn
<1>7. GlobalsInOne'
  BY DEF CatInv, GlobalsInOne, Frame, Units
<1>8. WasDisabling' /\ \A n \in DisabledTwice : n \in DisabledTwice'
  <2>1. r \notin wasDisabled
    BY DEF CatInv, WasDisabling, Rescans
  <2> QED
    BY <1>2, <1>3, <2>1, DisablingStays
<1>9. OthersStay({r})
  BY <1>2, <1>3, <1>4 DEF OthersStay
<1>10. \A n \in Modules : Clean(n)' <=> Clean(n)
  BY DEF Clean, catalogHistory
<1>11. \A n \in WorksOn(r) : Private(n, {r})
  BY <1>6, <1>10, OwnIsPrivate DEF Pending, Rescans
<1>12. Pending(r)' => \A n \in WorksOn(r)' : Private(n, {r})
  <2>1. ASSUME Pending(r)' PROVE WorksOn(r)' \subseteq WorksOn(r)
    BY <1>2, <1>4, <2>1 DEF Pending, WorksOn
  <2> QED
    BY <1>11, <2>1
<1>13. DisablingFits(r)' /\ InstallFits(r)'
  BY <1>2 DEF DisablingFits, InstallFits, Rescans, Installing
<1>14. A \in SUBSET Modules /\ {r} \in SUBSET Requests /\ op[r] \notin {"disabling", "reifying"}
  BY <1>6 DEF Rescans
<1>15. \A n \in A : Private(n, {r})
  BY <1>11
<1>16. \A n \in A : Clean(n)' => FlaggedIsUnknown(n)' /\ DecidedFits(n)'
  BY <1>6, <1>10
<1>17. \/ listed' = registered'
       \/ /\ listed' = listed
          /\ \A n \in A : Clean(n)' =>
                \A u \in Units : registered'[<<n, u>>] = registered[<<n, u>>]
  BY <1>6, <1>10
<1>18. \A n \in Modules : Clean(n)' => Clean(n)
  BY <1>10
<1> QED
  BY <1>5, <1>7, <1>8, <1>9, <1>12, <1>13, <1>14, <1>15, <1>16, <1>17, <1>18, Keeping

(* It ends with nothing left to apply,                                     *)
LEMMA RescanEndsKeeps ==
    ASSUME CatInv, NEW r \in Requests, RescanEnds(r)
    PROVE  CatInv'
<1>1. CatalogTypeOK
  BY DEF CatInv
<1>2. /\ op[r] = "rescanning" /\ changes[r] = {} /\ Goes(r, "done")
      /\ UNCHANGED <<disk, registered, target, wasDisabled, changes, listed, outside,
                     catalogHistory>>
  BY DEF RescanEnds
<1> DEFINE t == target[r]
<1>3. /\ target[r] \in Modules /\ target' = [target EXCEPT ![r] = target[r]]
      /\ changes' = [changes EXCEPT ![r] = {}]
  BY <1>1, <1>2 DEF CatalogTypeOK
<1>4. registered' \in [Modules \X Units -> 0..MaxVersion] /\ Frame({})
  BY <1>1, <1>2 DEF CatalogTypeOK, Frame, disk
<1>5. op'[r] = "done" /\ changes'[r] = {}
  BY <1>1, <1>2, Goings
<1>6. ChangesFit(r)'
  BY <1>5 DEF ChangesFit, Rescans
<1>7. /\ {} \in SUBSET changes[r] /\ {} \in SUBSET WorksOn(r)
      /\ op[r] \in Rescans /\ "done" \in Rescans \cup {"done"}
  BY <1>2 DEF Rescans
<1> QED
  BY <1>2, <1>3, <1>4, <1>6, <1>7, RescanStep

(* and begins with the differences of disk and registry, of which there is *)
(* one at most for a module, and only updates of modules the flag decides  *)
(* of.                                                                     *)
LEMMA RescanKeeps ==
    ASSUME CatInv, NEW r \in Requests, Rescan(r)
    PROVE  CatInv'
<1>1. CatalogTypeOK
  BY DEF CatInv
<1>2. /\ op[r] = "idle" /\ Goes(r, "rescanning")
      /\ changes' = [changes EXCEPT ![r] = Differences]
      /\ Overlaps({c.module : c \in Differences})
      /\ UNCHANGED <<directory, manifest, flagged, registered, target, wasDisabled, listed,
                     outside, disturbed, quiet>>
  BY DEF Rescan, disk
<1>3. Loadable \subseteq Modules
  BY CatalogAssumption DEF Loadable
<1>4. ASSUME NEW m \in Modules, Known(m) # {}
      PROVE  registered[<<m, LastUnit(m)>>] \in Versions /\ LastUnit(m) \in Units
  <2>1. \A u \in Units : registered[<<m, u>>] \in 0..MaxVersion
    BY <1>1 DEF CatalogTypeOK
  <2>2. registered[<<m, LastUnit(m)>>] # 0 /\ LastUnit(m) \in Units
    BY <1>4, KnownOf DEF LastUnit, IpcUnit, Units
  <2> QED
    BY <2>1, <2>2 DEF Versions
<1>5. ASSUME NEW c \in Differences
      PROVE  /\ c \in ChangeSet
             /\ \/ /\ c.module \in Loadable /\ Known(c.module) = {}
                   /\ c.kind = "install" /\ c.unit = IpcUnit /\ c.version = manifest[c.module]
                \/ /\ c.module \in Loadable /\ Known(c.module) # {}
                   /\ c.kind = "update" /\ c.unit = LastUnit(c.module)
                   /\ c.version = manifest[c.module]
                \/ /\ c.module \in Modules \ Loadable /\ Known(c.module) # {}
                   /\ c.kind = "uninstall" /\ c.unit = LastUnit(c.module)
                   /\ c.version = registered[<<c.module, LastUnit(c.module)>>]
  <2>1. CASE \E m \in Loadable :
               c = [kind |-> IF Known(m) = {} THEN "install" ELSE "update", module |-> m,
                    version |-> manifest[m],
                    unit |-> IF Known(m) = {} THEN IpcUnit ELSE LastUnit(m)]
    <3>1. PICK m \in Loadable :
               c = [kind |-> IF Known(m) = {} THEN "install" ELSE "update", module |-> m,
                    version |-> manifest[m],
                    unit |-> IF Known(m) = {} THEN IpcUnit ELSE LastUnit(m)]
      BY <2>1
    <3>2. manifest[m] \in Versions
      BY <1>1, <1>3 DEF CatalogTypeOK, Loadable, Versions
    <3>3. CASE Known(m) = {}
      BY <1>3, <3>1, <3>2, <3>3 DEF ChangeSet, IpcUnit, Units
    <3>4. CASE Known(m) # {}
      BY <1>3, <1>4, <3>1, <3>2, <3>4 DEF ChangeSet
    <3> QED
      BY <3>3, <3>4
  <2>2. CASE \E m \in Modules \ Loadable :
               /\ Known(m) # {}
               /\ c = [kind |-> "uninstall", module |-> m,
                       version |-> registered[<<m, LastUnit(m)>>], unit |-> LastUnit(m)]
    BY <1>4, <2>2 DEF ChangeSet
  <2> QED
    BY <2>1, <2>2 DEF Differences
<1>6. \A c, d \in Differences : c.module = d.module => c = d
  <2> SUFFICES ASSUME NEW c \in Differences, NEW d \in Differences, c.module = d.module
               PROVE  c = d
    OBVIOUS
  <2>1. c.kind = d.kind /\ c.module = d.module /\ c.version = d.version /\ c.unit = d.unit
    BY <1>5
  <2>2. \A e \in ChangeSet :
           e = [kind |-> e.kind, module |-> e.module, version |-> e.version, unit |-> e.unit]
    BY DEF ChangeSet
  <2>3. c \in ChangeSet /\ d \in ChangeSet
    BY <1>5
  <2> QED
    BY <2>1, <2>2, <2>3
<1>7. op'[r] = "rescanning" /\ \A q \in Requests \ {r} : op'[q] = op[q]
  BY <1>1, <1>2, Goings
<1>8. /\ changes' \in [Requests -> SUBSET ChangeSet] /\ changes'[r] = Differences
      /\ \A q \in Requests \ {r} : changes'[q] = changes[q]
  <2>1. changes \in [Requests -> SUBSET ChangeSet]
    BY <1>1 DEF CatalogTypeOK, ChangeSet
  <2>2. Differences \in SUBSET ChangeSet
    BY <1>5
  <2> QED
    BY <1>2, <2>1, <2>2
<1> DEFINE ms == {c.module : c \in Differences}
<1>9. ms \in SUBSET Modules
  BY <1>3, <1>5
<1>10. overlapped \subseteq overlapped' /\ overlapped' \subseteq Modules
  BY <1>1, <1>2, <1>9, OverlapsTypes
<1>11. \A n \in Modules : Clean(n)' => Clean(n)
  BY <1>2, <1>10, CleanBefore
<1>12. \A n \in ms : Private(n, {r})
  BY <1>2, <1>9, OverlapIsSeen
<1>13. ChangesFit(r)'
  <2>1. ASSUME NEW c \in Differences, Clean(c.module)'
        PROVE  /\ c.kind # "uninstall" => c.module \notin flagged'
               /\ c.kind = "install" => Known(c.module)' = {} /\ c.unit = IpcUnit
               /\ c.kind = "update" => c.unit = LastUnit(c.module)'
               /\ c.module \in Decided => c.kind = "update" /\ Known(c.module)' # {}
    <3>1. PICK m \in Modules : m = c.module
      BY <1>3, <1>5
    <3>2. Known(m)' = Known(m) /\ LastUnit(m)' = LastUnit(m)
      BY <1>2 DEF Known, LastUnit
    <3>3. m \in Loadable => m \notin flagged
      BY DEF Loadable
    <3>4. ASSUME m \in Decided PROVE Known(m) # {} <=> m \in Loadable
      <4>1. Clean(m)' /\ Private(m, {r}) /\ Clean(m)
        BY <1>11, <1>12, <2>1, <3>1
      <4>2. \A q \in Requests : op[q] \in {"disabling", "reifying"} => target[q] # m
        BY <1>2, <4>1 DEF Private, Pending, WorksOn, Rescans
      <4>3. FlagDecidesOf(m)
        BY <3>4, <4>1, <4>2 DEF CatInv, DecidedFits
      <4> QED
        BY <3>4, <4>3 DEF FlagDecidesOf, Loadable, Decided
    <3> QED
      BY <1>2, <1>5, <3>1, <3>2, <3>3, <3>4
  <2> QED
    BY <1>6, <1>7, <1>8, <2>1 DEF ChangesFit, Rescans
<1>14. CatalogTypeOK'
  <2>1. op' \in [Requests -> Phases]
    BY <1>1, <1>2, OpTypes DEF Phases
  <2> QED
    BY <1>1, <1>2, <1>8, <1>10, <2>1 DEF CatalogTypeOK, Phases, ChangeSet
<1>15. GlobalsInOne' /\ Frame({})
  BY <1>2 DEF CatInv, GlobalsInOne, Frame
<1>16. WasDisabling' /\ \A n \in DisabledTwice : n \in DisabledTwice'
  <2>1. r \notin wasDisabled
    BY <1>2 DEF CatInv, WasDisabling
  <2> QED
    BY <1>2, <1>7, <2>1, DisablingStays
<1>17. OthersStay({r})
  BY <1>2, <1>7, <1>8 DEF OthersStay
<1>18. \A n \in WorksOn(r)' : Private(n, {r})
  <2>1. WorksOn(r)' = ms
    BY <1>7, <1>8 DEF WorksOn, Rescans
  <2> QED
    BY <1>12, <2>1
<1>19. DisablingFits(r)' /\ InstallFits(r)'
  BY <1>7 DEF DisablingFits, InstallFits, Installing
<1>20. {} \in SUBSET Modules /\ {r} \in SUBSET Requests /\ op[r] \notin {"disabling", "reifying"}
       /\ listed' = listed
  BY <1>2
<1> QED
  BY <1>11, <1>13, <1>14, <1>15, <1>16, <1>17, <1>18, <1>19, <1>20, Keeping

(* Of what is new the manifest is registered;                              *)
LEMMA RescanInstallsKeeps ==
    ASSUME CatInv, NEW r \in Requests, NEW c \in changes[r], RescanInstalls(r, c)
    PROVE  CatInv'
<1>1. CatalogTypeOK /\ ChangesFit(r)
  BY DEF CatInv
<1>2. /\ c.module \in Modules /\ c.version \in 1..MaxVersion
      /\ op[r] \in Rescans /\ c.module \in WorksOn(r)
  BY ChangeIs
<1>0. PICK m \in Modules : m = c.module
  BY <1>2
<1>3. /\ target[r] \in Modules /\ target' = [target EXCEPT ![r] = target[r]]
      /\ UNCHANGED <<disk, wasDisabled, outside, catalogHistory>> /\ c.kind = "install"
      /\ UNCHANGED <<manifest, flagged>>
  BY <1>0, <1>1 DEF RescanInstalls, CatalogTypeOK, disk
<1>4. CASE registered[<<m, IpcUnit>>] # 0
  <2>1. /\ Goes(r, "done") /\ changes' = [changes EXCEPT ![r] = {}]
        /\ registered' = registered /\ listed' = listed
    BY <1>0, <1>4 DEF RescanInstalls, Silent
  <2>2. registered' \in [Modules \X Units -> 0..MaxVersion] /\ Frame({})
    BY <1>0, <1>1, <1>3, <2>1 DEF CatalogTypeOK, Frame
  <2>3. op'[r] = "done" /\ changes'[r] = {}
    BY <1>0, <1>1, <2>1, Goings DEF CatalogTypeOK
  <2>4. ChangesFit(r)'
    BY <1>0, <2>3 DEF ChangesFit, Rescans
  <2>5. {} \in SUBSET changes[r] /\ {} \in SUBSET WorksOn(r) /\ "done" \in Rescans \cup {"done"}
    OBVIOUS
  <2> QED
    BY <1>0, <1>2, <1>3, <2>1, <2>2, <2>4, <2>5, RescanStep
<1>5. CASE registered[<<m, IpcUnit>>] = 0
  <2>1. /\ Goes(r, "rescanning") /\ changes' = [changes EXCEPT ![r] = changes[r] \ {c}]
        /\ Registers(m, IpcUnit, c.version) /\ listed' = registered'
    BY <1>0, <1>5 DEF RescanInstalls, Emits
  <2>2. /\ registered' \in [Modules \X Units -> 0..MaxVersion]
        /\ \A n \in Modules, w \in Units :
              registered'[<<n, w>>] =
                 IF n = m /\ w = IpcUnit THEN c.version ELSE registered[<<n, w>>]
    <3>1. IpcUnit \in Units
      BY DEF Units, IpcUnit
    <3>2. PICK v \in 0..MaxVersion : v = c.version
      BY <1>0, <1>2
    <3>3. Registers(m, IpcUnit, v)
      BY <1>0, <2>1, <3>2
    <3>4. CatalogTypeOK
      BY <1>0, <1>1
    <3>5. RegisteredAs(m, IpcUnit, v)
      BY <3>1, <3>3, <3>4, Registrations
    <3> QED
      BY <3>2, <3>5 DEF RegisteredAs
  <2>3. op'[r] = "rescanning" /\ changes'[r] = changes[r] \ {c}
    BY <1>0, <1>1, <2>1, Goings DEF CatalogTypeOK
  <2>4. Frame({m})
    BY <1>0, <1>3, <2>2 DEF Frame
  <2>5. ASSUME NEW d \in changes[r] \ {c}, Clean(d.module)'
        PROVE  /\ d.kind # "uninstall" => d.module \notin flagged'
               /\ d.kind = "install" => Known(d.module)' = {} /\ d.unit = IpcUnit
               /\ d.kind = "update" => d.unit = LastUnit(d.module)'
               /\ d.module \in Decided => d.kind = "update" /\ Known(d.module)' # {}
    <3>1. d.module \in Modules \ {m} /\ Clean(d.module)
      BY <1>0, <1>1, <1>3, <2>5, ChangeIs DEF ChangesFit, Clean, catalogHistory
    <3>2. Known(d.module)' = Known(d.module) /\ LastUnit(d.module)' = LastUnit(d.module)
      BY <1>0, <2>4, <3>1, SameOf
    <3> QED
      BY <1>0, <1>1, <1>3, <3>1, <3>2 DEF ChangesFit
  <2>6. ChangesFit(r)'
    BY <1>0, <1>1, <2>3, <2>5 DEF ChangesFit, Rescans
  <2>7. m \notin PerWorktree => registered'[<<m, "worktree">>] = 0
    BY <1>0, <2>2 DEF CatInv, GlobalsInOne, Units, IpcUnit
  <2>8. ASSUME Clean(m) PROVE FlaggedIsUnknown(m)' /\ DecidedFits(m)'
    BY <1>0, <1>1, <1>3, <2>8 DEF ChangesFit, FlaggedIsUnknown, DecidedFits
  <2>9. changes[r] \ {c} \in SUBSET changes[r] /\ {m} \in SUBSET WorksOn(r)
        /\ "rescanning" \in Rescans \cup {"done"}
    BY <1>0, <1>2 DEF Rescans
  <2> QED
    BY <1>0, <1>2, <1>3, <2>1, <2>2, <2>4, <2>6, <2>7, <2>8, <2>9, RescanStep
<1> QED
  BY <1>0, <1>4, <1>5

(* of the others the subprocess is shut down first,                        *)
LEMMA RescanStopsKeeps ==
    ASSUME CatInv, NEW r \in Requests, NEW c \in changes[r], RescanStops(r, c)
    PROVE  CatInv'
<1>1. CatalogTypeOK /\ ChangesFit(r)
  BY DEF CatInv
<1>2. c \in ChangeSet /\ c.module \in Modules /\ op[r] \in Rescans
  BY ChangeIs
<1>3. PICK p \in {"updating", "removing"} :
         /\ Goes(r, p)
         /\ (p = "updating" => c.kind = "update") /\ (p = "removing" => c.kind = "uninstall")
  <2>1. c.kind \in {"update", "uninstall"}
    BY <1>2 DEF RescanStops, ChangeSet
  <2> QED
    BY <2>1 DEF RescanStops
<1>4. /\ target' = [target EXCEPT ![r] = c.module]
      /\ UNCHANGED <<disk, registered, wasDisabled, changes, listed, outside, catalogHistory>>
      /\ UNCHANGED <<manifest, flagged>>
      /\ changes' = [changes EXCEPT ![r] = changes[r]]
  BY <1>1 DEF RescanStops, disk, CatalogTypeOK
<1>5. registered' \in [Modules \X Units -> 0..MaxVersion] /\ Frame({})
  BY <1>1, <1>4 DEF CatalogTypeOK, Frame
<1>6. op'[r] = p /\ target'[r] = c.module
  BY <1>1, <1>3, <1>4, Goings DEF CatalogTypeOK
<1>7. ChangesFit(r)'
  <2>1. ASSUME NEW d \in changes[r], Clean(d.module)'
        PROVE  /\ d.kind # "uninstall" => d.module \notin flagged'
               /\ d.kind = "install" => Known(d.module)' = {} /\ d.unit = IpcUnit
               /\ d.kind = "update" => d.unit = LastUnit(d.module)'
               /\ d.module \in Decided => d.kind = "update" /\ Known(d.module)' # {}
    <3>1. Clean(d.module)
      BY <1>4, <2>1 DEF Clean, catalogHistory
    <3>2. Known(d.module)' = Known(d.module) /\ LastUnit(d.module)' = LastUnit(d.module)
      BY <1>4 DEF Known, LastUnit
    <3> QED
      BY <1>1, <1>4, <3>1, <3>2 DEF ChangesFit
  <2> QED
    BY <1>1, <1>3, <1>4, <1>6, <2>1 DEF ChangesFit, Rescans
<1>8. /\ changes[r] \in SUBSET changes[r] /\ {} \in SUBSET WorksOn(r)
      /\ p \in Rescans \cup {"done"} /\ listed' = listed
  BY <1>4 DEF Rescans
<1> QED
  BY <1>2, <1>3, <1>4, <1>5, <1>7, <1>8, RescanStep

(* and then the change for it is the one there is.                         *)
LEMMA StoppedIs ==
    ASSUME CatInv, NEW r \in Requests, op[r] \in {"updating", "removing"}
    PROVE  /\ Stopped(r) \in changes[r] /\ Stopped(r).module = target[r]
           /\ Stopped(r).kind = IF op[r] = "updating" THEN "update" ELSE "uninstall"
<1>1. ChangesFit(r)
  BY DEF CatInv
<1>2. PICK c \in changes[r] :
         /\ c.module = target[r]
         /\ c.kind = IF op[r] = "updating" THEN "update" ELSE "uninstall"
  BY <1>1 DEF ChangesFit
<1>3. Stopped(r) \in changes[r] /\ Stopped(r).module = target[r]
  BY <1>2 DEF Stopped
<1>4. Stopped(r) = c
  BY <1>1, <1>2, <1>3 DEF ChangesFit
<1> QED
  BY <1>2, <1>4

(* The changes for other modules stay as they are.                         *)
LEMMA OthersChanges ==
    ASSUME CatInv, NEW r \in Requests, NEW c \in changes[r], NEW m \in Modules, m = c.module,
           Frame({m}), UNCHANGED <<flagged, catalogHistory>>,
           NEW d \in changes[r] \ {c}, Clean(d.module)'
    PROVE  /\ d.kind # "uninstall" => d.module \notin flagged'
           /\ d.kind = "install" => Known(d.module)' = {} /\ d.unit = IpcUnit
           /\ d.kind = "update" => d.unit = LastUnit(d.module)'
           /\ d.module \in Decided => d.kind = "update" /\ Known(d.module)' # {}
<1>1. ChangesFit(r)
  BY DEF CatInv
<1>2. d.module \in Modules \ {m} /\ Clean(d.module)
  BY <1>1, ChangeIs DEF ChangesFit, Clean, catalogHistory
<1>3. Known(d.module)' = Known(d.module) /\ LastUnit(d.module)' = LastUnit(d.module)
  BY <1>2, SameOf
<1> QED
  BY <1>1, <1>2, <1>3 DEF ChangesFit

(* Of what is gone the manifest is taken away,                             *)
LEMMA RescanRemovesKeeps ==
    ASSUME CatInv, NEW r \in Requests, RescanRemoves(r)
    PROVE  CatInv'
<1>1. CatalogTypeOK /\ ChangesFit(r) /\ op[r] = "removing"
  BY DEF CatInv, RescanRemoves
<1>2. PICK c \in changes[r] : c = Stopped(r) /\ c.kind = "uninstall"
  BY <1>1, StoppedIs
<1>3. /\ c.module \in Modules /\ c.unit \in Units
      /\ op[r] \in Rescans /\ c.module \in WorksOn(r) /\ Pending(r)
  BY ChangeIs
<1>0. PICK m \in Modules : m = c.module
  BY <1>3
<1>4. /\ target[r] \in Modules /\ target' = [target EXCEPT ![r] = target[r]]
      /\ UNCHANGED <<disk, wasDisabled, outside, catalogHistory>>
      /\ UNCHANGED <<manifest, flagged>>
      /\ Goes(r, "rescanning") /\ changes' = [changes EXCEPT ![r] = changes[r] \ {c}]
      /\ Registers(m, c.unit, 0) /\ listed' = registered'
  BY <1>0, <1>1, <1>2 DEF RescanRemoves, CatalogTypeOK, disk, Emits
<1>5. /\ registered' \in [Modules \X Units -> 0..MaxVersion]
      /\ \A n \in Modules, w \in Units :
            registered'[<<n, w>>] = IF n = m /\ w = c.unit THEN 0 ELSE registered[<<n, w>>]
  <2>1. PICK v \in 0..MaxVersion : v = 0
    BY CatalogAssumption
  <2>2. PICK u \in Units : u = c.unit
    BY <1>0, <1>3
  <2>3. Registers(m, u, v)
    BY <1>4, <2>1, <2>2
  <2>4. RegisteredAs(m, u, v)
    BY <1>1, <2>3, Registrations
  <2> QED
    BY <2>1, <2>2, <2>4 DEF RegisteredAs
<1>6. op'[r] = "rescanning" /\ changes'[r] = changes[r] \ {c}
  BY <1>0, <1>1, <1>4, Goings DEF CatalogTypeOK
<1>7. Frame({m})
  BY <1>0, <1>4, <1>5 DEF Frame
<1>8. ChangesFit(r)'
  <2>1. \A d \in changes[r] \ {c} : Clean(d.module)' =>
           /\ d.kind # "uninstall" => d.module \notin flagged'
           /\ d.kind = "install" => Known(d.module)' = {} /\ d.unit = IpcUnit
           /\ d.kind = "update" => d.unit = LastUnit(d.module)'
           /\ d.module \in Decided => d.kind = "update" /\ Known(d.module)' # {}
    BY <1>0, <1>4, <1>7, OthersChanges
  <2> QED
    BY <1>0, <1>1, <1>6, <2>1 DEF ChangesFit, Rescans
<1>9. m \notin PerWorktree => registered'[<<m, "worktree">>] = 0
  BY <1>0, <1>5 DEF CatInv, GlobalsInOne, Units
<1>10. ASSUME Clean(m) PROVE FlaggedIsUnknown(m)' /\ DecidedFits(m)'
  <2>1. m \notin Decided
    BY <1>0, <1>1, <1>2, <1>10 DEF ChangesFit
  <2>2. ASSUME m \in flagged \ PerWorktree PROVE Known(m)' = {}
    <3>1. \A q \in Requests : op[q] = "disabling" => target[q] # m
      BY <1>0, <1>1, <1>3, <1>10 DEF CatInv, ApartUnlessOverlapped, Pending, WorksOn, Rescans
    <3>2. Known(m) = {}
      BY <1>0, <1>10, <2>2, <3>1 DEF CatInv, FlaggedIsUnknown
    <3>3. registered'[<<m, "global">>] = 0 /\ registered'[<<m, "worktree">>] = 0
      BY <1>0, <1>5, <3>2, KnownOf DEF Units
    <3> QED
      BY <1>0, <3>3, KnownOf
  <2> QED
    BY <1>0, <1>4, <2>1, <2>2 DEF FlaggedIsUnknown, DecidedFits
<1>11. changes[r] \ {c} \in SUBSET changes[r] /\ {m} \in SUBSET WorksOn(r)
       /\ "rescanning" \in Rescans \cup {"done"}
  BY <1>0, <1>3 DEF Rescans
<1> QED
  BY <1>0, <1>3, <1>4, <1>5, <1>7, <1>8, <1>9, <1>10, <1>11, RescanStep

(* and of the others the new one registered in its place.                  *)
LEMMA RescanUpdatesKeeps ==
    ASSUME CatInv, NEW r \in Requests, RescanUpdates(r)
    PROVE  CatInv'
<1>1. CatalogTypeOK /\ ChangesFit(r) /\ op[r] = "updating"
  BY DEF CatInv, RescanUpdates
<1>2. PICK c \in changes[r] : c = Stopped(r) /\ c.kind = "update"
  BY <1>1, StoppedIs
<1>3. /\ c.module \in Modules /\ c.unit \in Units /\ c.version \in 1..MaxVersion
      /\ op[r] \in Rescans /\ c.module \in WorksOn(r) /\ Pending(r)
  BY ChangeIs
<1>4. PICK m \in Modules : m = c.module
  BY <1>3
<1>5. PICK k \in Modules \X Units : k = <<m, c.unit>>
  BY <1>3
<1> DEFINE removed == [registered EXCEPT ![k] = 0]
<1>6. /\ target[r] \in Modules /\ target' = [target EXCEPT ![r] = target[r]]
      /\ UNCHANGED <<disk, wasDisabled, outside, catalogHistory>>
      /\ UNCHANGED <<manifest, flagged>>
  BY <1>1 DEF RescanUpdates, CatalogTypeOK, disk
<1>7. IF removed[<<m, IpcUnit>>] # 0
        THEN /\ Goes(r, "done") /\ changes' = [changes EXCEPT ![r] = {}]
             /\ registered' = removed /\ listed' = listed
        ELSE /\ Goes(r, "rescanning") /\ changes' = [changes EXCEPT ![r] = changes[r] \ {c}]
             /\ registered' = [removed EXCEPT ![<<m, IpcUnit>>] = c.version]
             /\ listed' = registered'
  BY <1>1, <1>2, <1>4, <1>5 DEF RescanUpdates, Emits, Silent
<1>8. /\ removed \in [Modules \X Units -> 0..MaxVersion]
      /\ \A n \in Modules, w \in Units :
            removed[<<n, w>>] = IF n = m /\ w = c.unit THEN 0 ELSE registered[<<n, w>>]
  <2>1. registered \in [Modules \X Units -> 0..MaxVersion] /\ 0 \in 0..MaxVersion
    BY <1>1, CatalogAssumption DEF CatalogTypeOK
  <2>2. removed \in [Modules \X Units -> 0..MaxVersion]
    BY <2>1
  <2>3. \A j \in Modules \X Units : removed[j] = IF j = k THEN 0 ELSE registered[j]
    BY <2>1
  <2>4. ASSUME NEW n \in Modules, NEW w \in Units
        PROVE  removed[<<n, w>>] = IF n = m /\ w = c.unit THEN 0 ELSE registered[<<n, w>>]
    <3>1. <<n, w>> \in Modules \X Units /\ (<<n, w>> = k <=> n = m /\ w = c.unit)
      BY <1>5
    <3> QED
      BY <2>3, <3>1
  <2> QED
    BY <2>2, <2>4
<1> HIDE DEF removed
<1>9. IpcUnit = "global" /\ IpcUnit \in Units /\ <<m, IpcUnit>> \in Modules \X Units
  BY DEF IpcUnit, Units
<1>10. ASSUME Clean(m)
       PROVE  /\ removed[<<m, IpcUnit>>] = 0 /\ m \notin flagged
              /\ m \in Decided => Known(m) # {}
  <2>1. /\ c.unit = LastUnit(m) /\ m \notin flagged
        /\ m \in Decided => Known(m) # {}
    BY <1>1, <1>2, <1>4, <1>10 DEF ChangesFit
  <2>2. removed[<<m, IpcUnit>>] = 0
    BY <1>8, <1>9, <2>1 DEF LastUnit
  <2> QED
    BY <2>1, <2>2
<1>11. m \notin PerWorktree => removed[<<m, "worktree">>] = 0
  BY <1>8 DEF CatInv, GlobalsInOne, Units
<1>12. {m} \in SUBSET WorksOn(r) /\ {"done", "rescanning"} \subseteq Rescans \cup {"done"}
  BY <1>3, <1>4 DEF Rescans
<1>13. CASE removed[<<m, IpcUnit>>] # 0
  <2>1. /\ Goes(r, "done") /\ changes' = [changes EXCEPT ![r] = {}]
        /\ registered' = removed /\ listed' = listed
    BY <1>7, <1>13
  <2>2. op'[r] = "done" /\ changes'[r] = {}
    BY <1>1, <2>1, Goings DEF CatalogTypeOK
  <2>3. ChangesFit(r)'
    BY <2>2 DEF ChangesFit, Rescans
  <2>4. ~Clean(m)
    BY <1>10, <1>13
  <2>5. Frame({m})
    BY <1>6, <1>8, <2>1 DEF Frame
  <2>6. {} \in SUBSET changes[r]
    OBVIOUS
  <2> QED
    BY <1>3, <1>6, <1>8, <1>11, <1>12, <2>1, <2>3, <2>4, <2>5, <2>6, RescanStep
<1>14. CASE removed[<<m, IpcUnit>>] = 0
  <2>1. /\ Goes(r, "rescanning") /\ changes' = [changes EXCEPT ![r] = changes[r] \ {c}]
        /\ registered' = [removed EXCEPT ![<<m, IpcUnit>>] = c.version]
        /\ listed' = registered'
    BY <1>7, <1>14
  <2>2. /\ registered' \in [Modules \X Units -> 0..MaxVersion]
        /\ \A n \in Modules, w \in Units :
              registered'[<<n, w>>] =
                 IF n = m /\ w = IpcUnit THEN c.version ELSE removed[<<n, w>>]
    <3>1. c.version \in 0..MaxVersion
      BY <1>3
    <3>2. PICK h \in Modules \X Units : h = <<m, IpcUnit>>
      BY <1>9
    <3>3. registered' = [removed EXCEPT ![h] = c.version]
      BY <2>1, <3>2
    <3>4. registered' \in [Modules \X Units -> 0..MaxVersion]
      BY <1>8, <3>1, <3>3
    <3>5. \A j \in Modules \X Units : registered'[j] = IF j = h THEN c.version ELSE removed[j]
      BY <1>8, <3>3
    <3>6. ASSUME NEW n \in Modules, NEW w \in Units
          PROVE  registered'[<<n, w>>] =
                    IF n = m /\ w = IpcUnit THEN c.version ELSE removed[<<n, w>>]
      <4>1. <<n, w>> \in Modules \X Units /\ (<<n, w>> = h <=> n = m /\ w = IpcUnit)
        BY <3>2
      <4> QED
        BY <3>5, <4>1
    <3> QED
      BY <3>4, <3>6
  <2>3. op'[r] = "rescanning" /\ changes'[r] = changes[r] \ {c}
    BY <1>1, <2>1, Goings DEF CatalogTypeOK
  <2>4. Frame({m})
    BY <1>6, <1>8, <2>2 DEF Frame
  <2>5. \A d \in changes[r] \ {c} : Clean(d.module)' =>
           /\ d.kind # "uninstall" => d.module \notin flagged'
           /\ d.kind = "install" => Known(d.module)' = {} /\ d.unit = IpcUnit
           /\ d.kind = "update" => d.unit = LastUnit(d.module)'
           /\ d.module \in Decided => d.kind = "update" /\ Known(d.module)' # {}
    BY <1>4, <1>6, <2>4, OthersChanges
  <2>6. ChangesFit(r)'
    BY <1>1, <2>3, <2>5 DEF ChangesFit, Rescans
  <2>7. m \notin PerWorktree => registered'[<<m, "worktree">>] = 0
    BY <1>9, <1>11, <2>2 DEF Units
  <2>8. ASSUME Clean(m) PROVE FlaggedIsUnknown(m)' /\ DecidedFits(m)'
    <3>1. m \notin flagged'
      BY <1>6, <1>10, <2>8
    <3>2. registered'[<<m, "global">>] # 0
      BY <1>3, <1>9, <2>2
    <3>3. Known(m)' # {}
      BY <3>2, KnownOf
    <3>4. ASSUME m \in Decided PROVE manifest[m] # 0
      <4>1. \A q \in Requests : op[q] \in {"disabling", "reifying"} => target[q] # m
        BY <1>1, <1>3, <1>4, <2>8 DEF CatInv, ApartUnlessOverlapped, Pending, WorksOn, Rescans
      <4> QED
        BY <1>10, <2>8, <3>4, <4>1 DEF CatInv, DecidedFits, FlagDecidesOf
    <3> QED
      BY <1>6, <3>1, <3>3, <3>4 DEF FlaggedIsUnknown, DecidedFits, FlagDecidesOf
  <2>9. /\ changes[r] \ {c} \in SUBSET changes[r] /\ "rescanning" \in Rescans \cup {"done"}
        /\ {m} \in SUBSET WorksOn(r)
    BY <1>12
  <2>10. \A n \in {m} \ PerWorktree : registered'[<<n, "worktree">>] = 0
    BY <2>7
  <2>11. \A n \in {m} : Clean(n) => FlaggedIsUnknown(n)' /\ DecidedFits(n)'
    BY <2>8
  <2>12. registered' \in [Modules \X Units -> 0..MaxVersion]
    BY <2>2
  <2>13. /\ op[r] \in Rescans /\ Goes(r, "rescanning")
         /\ changes' = [changes EXCEPT ![r] = changes[r] \ {c}] /\ listed' = registered'
    BY <1>3, <2>1
  <2> QED
    BY <1>6, <2>4, <2>6, <2>9, <2>10, <2>11, <2>12, <2>13, RescanStep
<1> QED
  BY <1>13, <1>14

(* Every step keeps the invariant.                                         *)
LEMMA CatInvNext == CatInv /\ [CatalogNext]_catalogVars => CatInv'
<1> SUFFICES ASSUME CatInv, [CatalogNext]_catalogVars PROVE CatInv'
  OBVIOUS
<1>1. CASE \E m \in Modules : OutsideChange(m)
  BY <1>1, OutsideKeeps
<1>2. ASSUME NEW r \in Requests, NEW m \in Modules,
             Enable(r, m) \/ Disable(r, m) \/ Install(r, m) \/ Uninstall(r, m)
      PROVE  CatInv'
  BY <1>2, EnableKeeps, DisableKeeps, InstallKeeps
<1>3. ASSUME NEW r \in Requests,
             Disabled(r) \/ DownloadFails(r) \/ Downloaded(r) \/ InstallEnds(r) \/ Uninstalled(r)
      PROVE  CatInv'
  BY <1>3, DisabledKeeps, DownloadKeeps, InstallEndsKeeps, UninstalledKeeps
<1>4. ASSUME NEW r \in Requests, InstallFails(r) PROVE CatInv'
  <2>1. PICK m \in Modules : m = target[r]
    BY DEF CatInv, CatalogTypeOK
  <2> QED
    BY <1>4, <2>1, InstallFailsKeeps DEF InstallFails
<1>5. ASSUME NEW r \in Requests, \E v \in Versions : Extracted(r, v) PROVE CatInv'
  BY <1>5, ExtractedKeeps
<1>6. ASSUME NEW r \in Requests,
             Rescan(r) \/ RescanEnds(r) \/ RescanRemoves(r) \/ RescanUpdates(r)
      PROVE  CatInv'
  BY <1>6, RescanKeeps, RescanEndsKeeps, RescanRemovesKeeps, RescanUpdatesKeeps
<1>7. ASSUME NEW r \in Requests, \E c \in changes[r] : RescanInstalls(r, c) \/ RescanStops(r, c)
      PROVE  CatInv'
  BY <1>7, RescanInstallsKeeps, RescanStopsKeeps
<1>8. CASE UNCHANGED catalogVars
  <2>1. UNCHANGED <<directory, manifest, flagged, registered, op, target, wasDisabled, changes,
                    listed, outside, overlapped, disturbed, quiet>>
    BY <1>8 DEF catalogVars, disk, requests, catalogHistory
  <2>2. CatalogTypeOK' /\ GlobalsInOne' /\ WasDisabling'
    BY <2>1 DEF CatInv, CatalogTypeOK, GlobalsInOne, WasDisabling
  <2>3. Frame({}) /\ OthersStay({}) /\ \A m \in Modules : Clean(m)' => Clean(m)
    BY <2>1 DEF Frame, OthersStay, Clean
  <2>4. \A m \in DisabledTwice : m \in DisabledTwice'
    BY <2>1 DEF DisabledTwice
  <2>5. {} \in SUBSET Modules /\ {} \in SUBSET Requests /\ listed' = listed
    BY <2>1
  <2> QED
    BY <2>2, <2>3, <2>4, <2>5, Keeping
<1> QED
  BY <1>1, <1>2, <1>3, <1>4, <1>5, <1>6, <1>7, <1>8 DEF CatalogNext

(* It says of modules no request works on what the property does.          *)
LEMMA CatInvImplies == CatInv => CatalogAgrees
<1> SUFFICES ASSUME CatInv PROVE CatalogAgrees
  OBVIOUS
<1>1. \A m \in Modules : Settled(m) =>
         Clean(m) /\ \A r \in Requests : Pending(r) => target[r] # m
  BY DEF Settled, Clean, Touches
<1>2. ListIsFresh
  BY <1>1 DEF CatInv, ListIsFresh, ListFits
<1>3. FlagDecides
  <2>1. ASSUME NEW m \in Decided, Settled(m) PROVE FlagDecidesOf(m)
    BY <1>1, <2>1, CatalogAssumption DEF CatInv, Decided, DecidedFits, Pending
  <2> QED
    BY <2>1 DEF FlagDecides, Decided
<1> QED
  BY <1>2, <1>3 DEF CatalogAgrees

(* Disk, registry and subscribers agree on a module between requests, but  *)
(* in the ways the property names, for any number of modules, requests and *)
(* versions (modules-ipc.ts:349-450, 1361-1420, installer.ts).             *)
THEOREM ModulesAgree == CatalogSpec => []CatalogAgrees
<1>1. CatInv => CatalogAgrees
  BY CatInvImplies
<1>2. CatalogInit => CatInv
  BY CatInvInit
<1>3. CatInv /\ [CatalogNext]_catalogVars => CatInv'
  BY CatInvNext
<1> QED
  BY <1>1, <1>2, <1>3, PTL DEF CatalogSpec

-----------------------------------------------------------------------------
(* What a line of the file can be,                                         *)
Lines == [hash : Nat, seq : Nat, prev : Nat, key : Writers \cup {"nobody"}]

(* and where a writer can be.                                              *)
Places == {"idle", "init", "generate", "tail", "stat", "lock", "held", "reclaim"} \cup Entered

(* The types the argument needs: numbers are not bounded in it.            *)
AuditTypes ==
    /\ active \in Seq(Lines) /\ rotated \in [Generations -> Seq(Lines)]
    /\ keyFile \in Writers \cup {"nobody"} /\ key \in [Writers -> Writers \cup {"nobody"}]
    /\ pc \in [Writers -> Places]
    /\ tail \in [Writers -> [hash : Nat, seq : Nat]]
    /\ written \in Nat

(* Nothing has happened that entries can be lost by.                       *)
Sound == excuses \cap {"two writers", "torn"} = {}

(* The number of the last entry.                                           *)
LastOf(s) == s[Len(s)].hash

(* No line is torn.                                                        *)
Untorn(s) == \A i \in DOMAIN s : s[i].hash # NoEntry

(* Within a file all have the one key, and each entry has that of the one  *)
(* before.                                                                 *)
Chained(s) ==
    \A i \in DOMAIN s :
        s[i].key = keyFile /\ keyFile # "nobody" /\ (i > 1 => s[i].prev = s[i - 1].hash)

(* The generation behind g, over those that are empty,                     *)
Nearest(g, h) ==
    /\ h \in g + 1..Keep /\ rotated[h] # << >>
    /\ \A k \in g + 1..h - 1 : rotated[k] = << >>

(* to which its first entry is linked.                                     *)
LinkedTo(g, h) ==
    Nearest(g, h) /\ Generation(g) # << >> => Generation(g)[1].prev = LastOf(rotated[h])

(* One writer at most holds the lock.                                      *)
OneInside == \A v, w \in Writers : pc[v] \in Entered /\ pc[w] \in Entered => v = w

(* The writer knows what its entry is to be linked to, in the active file  *)
(* or behind it.                                                           *)
KnowsTail(w) ==
    /\ active # << >> => tail[w].hash = LastOf(active)
    /\ active = << >> => \A h \in Generations : Nearest(0, h) => tail[w].hash = LastOf(rotated[h])

(* The entries in all files.                                               *)
Held == UNION {HashesIn(Generation(g)) : g \in 0..Keep}

(* While one writer is inside at a time no line is torn, the first         *)
(* generation is free for the rename, and what has been acknowledged is in *)
(* a file.                                                                 *)
KeepingInv ==
    /\ OneInside
    /\ \A g \in 0..Keep : Untorn(Generation(g))
    /\ \A w \in Writers : pc[w] = "rename" => rotated[1] = << >>
    /\ acknowledged \subseteq dropped \cup Held

(* Writers have the key of the file, when they have one.                   *)
Keys ==
    \A w \in Writers :
        /\ key[w] \in {"nobody", keyFile}
        /\ pc[w] \notin {"idle", "init", "generate"} => key[w] # "nobody"

(* The active file is empty before the first entry, and between a rotation *)
(* and its entry.                                                          *)
Empty == active = << >> =>
    (\A g \in Generations : rotated[g] = << >>) \/ \E w \in Writers : pc[w] = "append"

(* While nothing has happened the chain goes through all files.            *)
ChainInv ==
    /\ \A g \in 0..Keep : Chained(Generation(g))
    /\ \A g \in 0..Keep, h \in Generations : LinkedTo(g, h)
    /\ Keys /\ Empty
    /\ \A w \in Writers : pc[w] \in {"rotate", "rename", "append"} => KnowsTail(w)

(* The inductive invariant of AuditLog.                                    *)
AuditInv == AuditTypes /\ (Sound => KeepingInv) /\ (excuses = {} => ChainInv)

-----------------------------------------------------------------------------

(* A set of numbers has a least one. (Numbers are well-founded: no         *)
(* induction over them is needed.)                                         *)
LEMMA LeastIn ==
    ASSUME NEW T \in SUBSET Nat, T # {}
    PROVE  \E x \in T : \A y \in T : x <= y
<1>1. IsWellFoundedOn(OpToRel(<, Nat), Nat)
  BY NatLessThanWellFounded
<1>2. PICK x \in T : \A y \in T : <<y, x>> \notin OpToRel(<, Nat)
  BY <1>1, WFMin
<1>3. \A y \in T : ~(y < x)
  BY <1>2 DEF OpToRel
<1> QED
  BY <1>3

(* The files by their number.                                              *)
LEMMA GenerationIs ==
    /\ Generation(0) = active /\ Generation(0)' = active'
    /\ \A g \in Generations : Generation(g) = rotated[g] /\ Generation(g)' = rotated'[g]
BY DEF Generation, Generations

(* They are sequences of lines.                                            *)
LEMMA FilesAre ==
    ASSUME AuditTypes, NEW g \in 0..Keep
    PROVE  /\ Generation(g) \in Seq(Lines)
           /\ g # 0 => g \in Generations /\ Generation(g) = rotated[g]
BY AuditBounds DEF AuditTypes, Generation, Generations

(* The invariant implies the property.                                     *)
LEMMA AuditInvImplies == AuditInv => LogIsEvidence
<1> SUFFICES ASSUME AuditInv PROVE LogIsEvidence
  OBVIOUS
<1>1. AcknowledgedIsKept
  BY DEF AuditInv, AcknowledgedIsKept, Sound, KeepingInv, Held
<1>2. ASSUME excuses = {} PROVE Verifies
  <2>1. ChainInv /\ KeepingInv /\ AuditTypes
    BY <1>2 DEF AuditInv, Sound
  <2> SUFFICES ASSUME NEW g \in 0..Keep, NEW i \in DOMAIN Generation(g)
               PROVE  LET e == Generation(g)[i] IN
                      /\ e # TornLine /\ e.key = keyFile
                      /\ i > 1 => e.prev = Generation(g)[i - 1].hash
                      /\ i = 1 /\ Behind(g) # {} =>
                           LET h == CHOOSE h \in Behind(g) : \A k \in Behind(g) : h <= k
                           IN e.prev = rotated[h][Len(rotated[h])].hash
    BY DEF Verifies
  <2>2. Untorn(Generation(g)) /\ Chained(Generation(g))
    BY <2>1 DEF ChainInv, KeepingInv
  <2>3. /\ Generation(g)[i] # TornLine /\ Generation(g)[i].key = keyFile
        /\ i > 1 => Generation(g)[i].prev = Generation(g)[i - 1].hash
    BY <2>2 DEF Untorn, Chained, TornLine
  <2>4. ASSUME i = 1, Behind(g) # {},
               NEW h, h = CHOOSE j \in Behind(g) : \A k \in Behind(g) : j <= k
        PROVE  Generation(g)[1].prev = rotated[h][Len(rotated[h])].hash
    <3>1. Behind(g) \in SUBSET Nat
      BY AuditBounds DEF Behind
    <3>2. \E j \in Behind(g) : \A k \in Behind(g) : j <= k
      BY <2>4, <3>1, LeastIn
    <3>3. h \in Behind(g) /\ \A k \in Behind(g) : h <= k
      BY <2>4, <3>2
    <3>4. Nearest(g, h) /\ h \in Generations
      BY <3>3, AuditBounds DEF Behind, Nearest, Generations
    <3>5. Generation(g) # << >>
      BY <2>4, FilesAre, <2>1
    <3> QED
      BY <2>1, <3>4, <3>5 DEF ChainInv, LinkedTo, LastOf
  <2> QED
    BY <2>3, <2>4
<1> QED
  BY <1>1, <1>2 DEF LogIsEvidence, ChainVerifies

(* It holds of no file.                                                    *)
LEMMA AuditInvInit == AuditInit => AuditInv
<1> SUFFICES ASSUME AuditInit PROVE AuditInv
  OBVIOUS
<1>1. AuditTypes
  <2>1. << >> \in Seq(Lines)
    OBVIOUS
  <2> QED
    BY <2>1 DEF AuditInit, AuditTypes, NoEntry, Places
<1>2. \A g \in 0..Keep : Generation(g) = << >>
  BY AuditBounds DEF AuditInit, Generation, Generations
<1>3. KeepingInv
  BY <1>2 DEF KeepingInv, OneInside, Untorn, AuditInit, Entered
<1>4. ChainInv
  <2>1. \A g \in 0..Keep, h \in Generations : LinkedTo(g, h)
    BY <1>2 DEF LinkedTo
  <2>2. Keys /\ Empty /\ \A g \in 0..Keep : Chained(Generation(g))
    BY <1>2 DEF Keys, Empty, Chained, AuditInit
  <2> QED
    BY <2>1, <2>2 DEF ChainInv, AuditInit
<1> QED
  BY <1>1, <1>3, <1>4 DEF AuditInv

(* Steps that leave the files alone leave what is said of them.            *)
LEMMA FilesStay ==
    ASSUME UNCHANGED <<active, rotated>>
    PROVE  /\ \A g : Generation(g)' = Generation(g)
           /\ \A g, h : LinkedTo(g, h)' <=> LinkedTo(g, h)
           /\ \A g, h : Nearest(g, h)' <=> Nearest(g, h)
           /\ Held' = Held
<1>1. \A g : Generation(g)' = Generation(g)
  BY DEF Generation
<1>2. \A g, h : Nearest(g, h)' <=> Nearest(g, h)
  BY DEF Nearest
<1>3. \A g, h : LinkedTo(g, h)' <=> LinkedTo(g, h)
  BY <1>1, <1>2 DEF LinkedTo
<1> QED
  BY <1>1, <1>2, <1>3 DEF Held

(* They keep the invariant, if keys and tail of their writer are right.    *)
LEMMA QuietKeeps ==
    ASSUME AuditInv, NEW w \in Writers, AuditTypes',
           UNCHANGED <<active, rotated, acknowledged, dropped>>, excuses \subseteq excuses',
           \A v \in Writers \ {w} : pc'[v] = pc[v] /\ tail'[v] = tail[v],
           pc'[w] # "rename",
           pc'[w] \in Entered => \/ pc[w] \in Entered
                                 \/ Sound' => \A v \in Writers \ {w} : pc[v] \notin Entered,
           excuses' = {} =>
               /\ Keys' /\ (keyFile' = keyFile \/ keyFile = "nobody")
               /\ pc'[w] \in {"rotate", "append"} => KnowsTail(w)'
               /\ pc[w] = "append" => active # << >>
    PROVE  AuditInv'
<1>1. ASSUME Sound' PROVE KeepingInv'
  <2>1. KeepingInv
    BY <1>1 DEF AuditInv, Sound
  <2>2. OneInside'
    BY <1>1, <2>1 DEF KeepingInv, OneInside
  <2>3. \A v \in Writers : pc'[v] = "rename" => rotated'[1] = << >>
    BY <2>1 DEF KeepingInv
  <2>4. Held' = Held /\ \A g \in 0..Keep : Generation(g)' = Generation(g)
    BY FilesStay
  <2>5. \A g \in 0..Keep : Untorn(Generation(g)')
    BY <2>1, <2>4 DEF KeepingInv
  <2> QED
    BY <2>1, <2>2, <2>3, <2>4, <2>5 DEF KeepingInv, Untorn
<1>2. ASSUME excuses' = {} PROVE ChainInv'
  <2>1. ChainInv
    BY <1>2 DEF AuditInv
  <2>2. /\ \A g \in 0..Keep : Generation(g)' = Generation(g)
        /\ \A g, h : LinkedTo(g, h)' <=> LinkedTo(g, h)
    BY FilesStay
  <2>3. ASSUME NEW g \in 0..Keep PROVE Chained(Generation(g))'
    <3>1. Chained(Generation(g))
      BY <2>1 DEF ChainInv
    <3>2. \A i \in DOMAIN Generation(g) : keyFile' = keyFile /\ keyFile' # "nobody"
      BY <1>2, <3>1 DEF Chained
    <3> QED
      BY <2>2, <3>1, <3>2 DEF Chained
  <2>4. Empty'
    BY <1>2, <2>1 DEF ChainInv, Empty
  <2>5. ASSUME NEW v \in Writers, pc'[v] \in {"rotate", "rename", "append"} PROVE KnowsTail(v)'
    <3>1. CASE v = w
      BY <1>2, <2>5, <3>1
    <3>2. CASE v # w
      <4>1. KnowsTail(v) /\ tail'[v] = tail[v]
        BY <2>1, <2>5, <3>2 DEF ChainInv
      <4> QED
        BY <4>1, FilesStay DEF KnowsTail, LastOf
    <3> QED
      BY <3>1, <3>2
  <2> QED
    BY <1>2, <2>1, <2>2, <2>3, <2>4, <2>5 DEF ChainInv
<1> QED
  BY <1>1, <1>2 DEF AuditInv

(* A writer goes on from one place to another.                             *)
LEMMA AuditMoves ==
    ASSUME AuditTypes, NEW w \in Writers, NEW p, NEW q \in Places, Moves(w, p, q)
    PROVE  /\ pc[w] = p /\ pc'[w] = q /\ pc' \in [Writers -> Places]
           /\ \A v \in Writers \ {w} : pc'[v] = pc[v]
BY DEF Moves, AuditTypes

(* What the last line tells is the last entry.                             *)
LEMMA TailIs ==
    ASSUME AuditTypes, NEW w \in Writers
    PROVE  /\ TailOf(active, tail[w]) \in [hash : Nat, seq : Nat]
           /\ active # << >> /\ Untorn(active) => TailOf(active, tail[w]).hash = LastOf(active)
<1>1. tail[w] \in [hash : Nat, seq : Nat] /\ active \in Seq(Lines)
  BY DEF AuditTypes
<1>2. CASE active = << >>
  BY <1>2 DEF TailOf, NoEntry
<1>3. CASE active # << >>
  <2>1. Len(active) \in DOMAIN active /\ active[Len(active)] \in Lines
    BY <1>1, <1>3
  <2>2. active[Len(active)].hash \in Nat /\ active[Len(active)].seq \in Nat
    BY <2>1 DEF Lines
  <2>3. Untorn(active) => active[Len(active)] # TornLine
    BY <2>1 DEF Untorn, TornLine
  <2> QED
    BY <1>1, <1>3, <2>2, <2>3 DEF TailOf, LastOf
<1> QED
  BY <1>2, <1>3

(* Steps before the lock, at it and out of it keep the invariant:          *)
LEMMA OutsideKeepsIt ==
    ASSUME AuditInv, NEW w \in Writers,
           NEW p \in Places \ {"append"}, NEW q \in Places \ {"rename", "rotate", "append"},
           Moves(w, p, q),
           p \in Entered \/ q \notin Entered,
           UNCHANGED <<active, rotated, keyFile, written, acknowledged, dropped, excuses>>,
           tail' \in [Writers -> [hash : Nat, seq : Nat]],
           \A v \in Writers \ {w} : tail'[v] = tail[v],
           \/ key' = key /\ (p \in {"idle", "init", "generate"} /\ q # "idle" =>
                 q \in {"init", "generate"} \/ key[w] # "nobody")
           \/ /\ key' = [key EXCEPT ![w] = keyFile]
              /\ q \in {"init", "generate"} \/ keyFile # "nobody"
    PROVE  AuditInv'
<1>1. AuditTypes
  BY DEF AuditInv
<1>2. /\ pc[w] = p /\ pc'[w] = q /\ pc' \in [Writers -> Places]
      /\ \A v \in Writers \ {w} : pc'[v] = pc[v]
  BY <1>1, AuditMoves
<1>3. AuditTypes'
  BY <1>1, <1>2 DEF AuditTypes
<1>4. ASSUME excuses' = {} PROVE Keys'
  <2>1. Keys
    BY <1>4 DEF AuditInv, ChainInv
  <2>2. \A v \in Writers \ {w} : key'[v] = key[v] /\ pc'[v] = pc[v]
    BY <1>1, <1>2 DEF AuditTypes
  <2>3. /\ key'[w] \in {"nobody", keyFile}
        /\ q \notin {"idle", "init", "generate"} => key'[w] # "nobody"
    BY <1>1, <1>2, <2>1 DEF AuditTypes, Keys
  <2> QED
    BY <1>2, <2>1, <2>2, <2>3 DEF Keys
<1>5. pc'[w] \in Entered => pc[w] \in Entered
  BY <1>2
<1> QED
  BY <1>2, <1>3, <1>4, <1>5, QuietKeeps

(* those that write none of the files,                                     *)
LEMMA ReadsKeep ==
    ASSUME AuditInv, NEW w \in Writers,
           \/ BeginAppend(w) \/ LoadKey(w) \/ ReadTail(w) \/ StatTail(w) \/ LockExists(w)
           \/ ReadHolder(w) \/ Reclaim(w) \/ GivesUp(w) \/ WritePid(w) \/ Release(w)
    PROVE  AuditInv'
<1>1. AuditTypes
  BY DEF AuditInv
<1>2. tail \in [Writers -> [hash : Nat, seq : Nat]] /\ UNCHANGED <<key, tail>> =>
         /\ tail' \in [Writers -> [hash : Nat, seq : Nat]]
         /\ \A v \in Writers \ {w} : tail'[v] = tail[v]
  OBVIOUS
<1>3. tail \in [Writers -> [hash : Nat, seq : Nat]]
  BY <1>1 DEF AuditTypes
<1>4. {"idle", "init", "generate", "tail", "stat", "lock", "held", "reclaim", "pid", "release",
       "refresh"} \subseteq Places
  BY DEF Places, Entered
<1>5. CASE BeginAppend(w)
  <2>1. PICK q \in Places \ {"rename", "rotate", "append"} :
           /\ Moves(w, "idle", q) /\ q \notin Entered
           /\ q \in {"init", "generate"} \/ key[w] # "nobody"
    BY <1>4, <1>5 DEF BeginAppend, Entered
  <2>2. UNCHANGED <<active, rotated, keyFile, key, tail, written, acknowledged, dropped, excuses>>
    BY <1>5 DEF BeginAppend, auditFiles, auditHistory
  <2> QED
    BY <1>2, <1>3, <1>4, <2>1, <2>2, OutsideKeepsIt
<1>6. CASE LoadKey(w)
  <2>1. PICK q \in Places \ {"rename", "rotate", "append"} :
           /\ Moves(w, "init", q) /\ q \notin Entered
           /\ q \in {"init", "generate"} \/ keyFile # "nobody"
    BY <1>4, <1>6 DEF LoadKey, Entered
  <2>2. /\ UNCHANGED <<active, rotated, keyFile, tail, written, acknowledged, dropped, excuses>>
        /\ key' = [key EXCEPT ![w] = keyFile]
    BY <1>6 DEF LoadKey, auditFiles, auditHistory
  <2>3. \A v \in Writers \ {w} : tail'[v] = tail[v]
    BY <2>2
  <2> QED
    BY <1>3, <1>4, <2>1, <2>2, <2>3, OutsideKeepsIt
<1>7. CASE ReadTail(w)
  <2>1. PICK q \in Places \ {"rename", "rotate", "append"} : Moves(w, "tail", q) /\ q \notin Entered
    BY <1>4, <1>7 DEF ReadTail, Entered
  <2>2. /\ UNCHANGED <<active, rotated, keyFile, key, written, acknowledged, dropped, excuses>>
        /\ tail' = [tail EXCEPT ![w] = TailOf(active, tail[w])]
    BY <1>7 DEF ReadTail, auditFiles, auditHistory
  <2>3. TailOf(active, tail[w]) \in [hash : Nat, seq : Nat]
    BY <1>1, TailIs
  <2>4. /\ tail' \in [Writers -> [hash : Nat, seq : Nat]]
        /\ \A v \in Writers \ {w} : tail'[v] = tail[v]
    BY <1>3, <2>2, <2>3
  <2> QED
    BY <1>4, <2>1, <2>2, <2>4, OutsideKeepsIt
<1>8. CASE StatTail(w) \/ LockExists(w) \/ ReadHolder(w) \/ Reclaim(w) \/ GivesUp(w)
  <2>1. PICK p \in {"stat", "lock", "held", "reclaim"},
             q \in Places \ {"rename", "rotate", "append"} : Moves(w, p, q) /\ q \notin Entered
    BY <1>4, <1>8 DEF StatTail, LockExists, ReadHolder, Reclaim, GivesUp, Entered
  <2>2. UNCHANGED <<active, rotated, keyFile, key, tail, written, acknowledged, dropped, excuses>>
    BY <1>8 DEF StatTail, LockExists, ReadHolder, Reclaim, GivesUp, auditFiles, auditHistory
  <2>3. p \in Places \ {"append"} /\ p \notin {"idle", "init", "generate"}
    BY <1>4, <2>1
  <2> QED
    BY <1>2, <1>3, <2>1, <2>2, <2>3, OutsideKeepsIt
<1>9. CASE WritePid(w) \/ Release(w)
  <2>1. PICK p \in {"pid", "release"}, q \in {"refresh", "idle"} : Moves(w, p, q)
    BY <1>9 DEF WritePid, Release
  <2>2. UNCHANGED <<active, rotated, keyFile, key, tail, written, acknowledged, dropped, excuses>>
    BY <1>9 DEF WritePid, Release, auditHistory
  <2>3. /\ p \in Places \ {"append"} /\ p \notin {"idle", "init", "generate"} /\ p \in Entered
        /\ q \in Places \ {"rename", "rotate", "append"}
    BY <1>4, <2>1 DEF Entered
  <2> QED
    BY <1>2, <1>3, <2>1, <2>2, <2>3, OutsideKeepsIt
<1> QED
  BY <1>5, <1>6, <1>7, <1>8, <1>9

(* and the making of a key, the first or an excuse.                        *)
LEMMA GenerateKeeps ==
    ASSUME AuditInv, NEW w \in Writers, GenerateKey(w)
    PROVE  AuditInv'
<1>1. AuditTypes
  BY DEF AuditInv
<1>2. /\ Moves(w, "generate", "tail") /\ keyFile' = w /\ key' = [key EXCEPT ![w] = w]
      /\ excuses' = IF keyFile # "nobody" THEN excuses \cup {"two keys"} ELSE excuses
      /\ UNCHANGED <<active, rotated, tail, written, acknowledged, dropped>>
  BY DEF GenerateKey, Excused
<1>3. /\ pc[w] = "generate" /\ pc'[w] = "tail" /\ pc' \in [Writers -> Places]
      /\ \A v \in Writers \ {w} : pc'[v] = pc[v]
  <2>1. "tail" \in Places
    BY DEF Places
  <2> QED
    BY <1>1, <1>2, <2>1, AuditMoves
<1>4. AuditTypes'
  BY <1>1, <1>2, <1>3 DEF AuditTypes
<1>5. ASSUME excuses' = {} PROVE Keys' /\ keyFile = "nobody"
  <2>1. Keys /\ keyFile = "nobody"
    BY <1>2, <1>5 DEF AuditInv, ChainInv
  <2>2. \A v \in Writers \ {w} : key'[v] = key[v]
    BY <1>1, <1>2 DEF AuditTypes
  <2>3. key'[w] = w /\ w # "nobody"
    BY <1>1, <1>2, AuditBounds DEF AuditTypes
  <2> QED
    BY <1>2, <1>3, <2>1, <2>2, <2>3 DEF Keys
<1>6. pc'[w] \notin Entered
  BY <1>3 DEF Entered
<1> QED
  BY <1>2, <1>3, <1>4, <1>5, <1>6, QuietKeeps

(* Who takes the lock is alone inside, or that is an excuse.               *)
LEMMA TakeLockKeeps ==
    ASSUME AuditInv, NEW w \in Writers, TakeLock(w)
    PROVE  AuditInv'
<1>1. AuditTypes
  BY DEF AuditInv
<1>2. /\ Moves(w, "lock", "pid")
      /\ excuses' = IF \E v \in Writers \ {w} : pc[v] \in Entered
                      THEN excuses \cup {"two writers"} ELSE excuses
      /\ UNCHANGED <<active, rotated, keyFile, key, tail, written, acknowledged, dropped>>
  BY DEF TakeLock, Excused
<1>3. /\ pc[w] = "lock" /\ pc'[w] = "pid" /\ pc' \in [Writers -> Places]
      /\ \A v \in Writers \ {w} : pc'[v] = pc[v]
  <2>1. "pid" \in Places
    BY DEF Places, Entered
  <2> QED
    BY <1>1, <1>2, <2>1, AuditMoves
<1>4. AuditTypes'
  BY <1>1, <1>2, <1>3 DEF AuditTypes
<1>5. ASSUME excuses' = {} PROVE Keys'
  <2>1. Keys
    BY <1>2, <1>5 DEF AuditInv, ChainInv
  <2> QED
    BY <1>2, <1>3, <2>1 DEF Keys
<1>6. Sound' => \A v \in Writers \ {w} : pc[v] \notin Entered
  BY <1>2 DEF Sound
<1>7. pc'[w] \notin {"rename", "rotate", "append"} /\ pc[w] # "append"
  BY <1>3
<1> QED
  BY <1>2, <1>3, <1>4, <1>5, <1>6, <1>7, QuietKeeps

(* Inside, a writer learns the tail, or trusts what it knows with an       *)
(* excuse.                                                                 *)
LEMMA RefreshKeeps ==
    ASSUME AuditInv, NEW w \in Writers, RefreshTailState(w)
    PROVE  AuditInv'
<1> DEFINE trusted == Len(active) = sizeSeen[w]
<1>1. AuditTypes
  BY DEF AuditInv
<1>2. /\ Moves(w, "refresh", "rotate")
      /\ tail' = IF trusted THEN tail ELSE [tail EXCEPT ![w] = TailOf(active, tail[w])]
      /\ excuses' = IF trusted /\ active # << >> /\ tail[w] # TailOf(active, tail[w])
                      THEN excuses \cup {"same size"} ELSE excuses
      /\ UNCHANGED <<active, rotated, keyFile, key, written, acknowledged, dropped>>
  BY DEF RefreshTailState, Excused, auditFiles
<1> HIDE DEF trusted
<1>3. /\ pc[w] = "refresh" /\ pc'[w] = "rotate" /\ pc' \in [Writers -> Places]
      /\ \A v \in Writers \ {w} : pc'[v] = pc[v]
  <2>1. "rotate" \in Places
    BY DEF Places, Entered
  <2> QED
    BY <1>1, <1>2, <2>1, AuditMoves
<1>4. /\ tail \in [Writers -> [hash : Nat, seq : Nat]]
      /\ TailOf(active, tail[w]) \in [hash : Nat, seq : Nat]
  BY <1>1, TailIs DEF AuditTypes
<1>5. /\ tail' \in [Writers -> [hash : Nat, seq : Nat]]
      /\ \A v \in Writers \ {w} : tail'[v] = tail[v]
      /\ tail'[w] = IF trusted THEN tail[w] ELSE TailOf(active, tail[w])
  <2>1. CASE trusted
    BY <1>2, <1>4, <2>1
  <2>2. CASE ~trusted
    BY <1>2, <1>4, <2>2
  <2> QED
    BY <2>1, <2>2
<1>6. AuditTypes'
  BY <1>1, <1>2, <1>3, <1>5 DEF AuditTypes
<1>7. ASSUME excuses' = {} PROVE Keys' /\ KnowsTail(w)'
  <2>1. ChainInv /\ KeepingInv
    BY <1>2, <1>7 DEF AuditInv, Sound
  <2>2. Keys'
    BY <1>2, <1>3, <2>1 DEF ChainInv, Keys
  <2>3. CASE active = << >>
    <3>1. \A v \in Writers : pc[v] # "append"
      BY <1>3, <2>1 DEF KeepingInv, OneInside, Entered
    <3>2. \A g \in Generations : rotated[g] = << >>
      BY <2>1, <2>3, <3>1 DEF ChainInv, Empty
    <3>3. \A h \in Generations : ~Nearest(0, h)'
      BY <1>2, <3>2 DEF Nearest
    <3> QED
      BY <1>2, <2>2, <2>3, <3>3 DEF KnowsTail
  <2>4. CASE active # << >>
    <3>1. Untorn(active)
      BY <2>1, GenerationIs, AuditBounds DEF KeepingInv
    <3>2. tail'[w] = TailOf(active, tail[w])
      BY <1>2, <1>5, <1>7, <2>4
    <3> QED
      BY <1>1, <1>2, <2>2, <2>4, <3>1, <3>2, TailIs DEF KnowsTail, LastOf
  <2> QED
    BY <2>3, <2>4
<1>8. pc[w] \in Entered /\ pc'[w] # "rename" /\ pc[w] # "append" /\ excuses \subseteq excuses'
  BY <1>2, <1>3 DEF Entered
<1> QED
  BY <1>2, <1>3, <1>5, <1>6, <1>7, <1>8, QuietKeeps

(* A crash loses memory, and the entry after a rotation with an excuse.    *)
LEMMA CrashKeeps ==
    ASSUME AuditInv, NEW w \in Writers, Crash(w)
    PROVE  AuditInv'
<1>1. AuditTypes
  BY DEF AuditInv
<1>2. /\ pc' = [pc EXCEPT ![w] = "idle"] /\ key' = [key EXCEPT ![w] = "nobody"]
      /\ tail' = [tail EXCEPT ![w] = [hash |-> NoEntry, seq |-> 0]]
      /\ excuses' = IF pc[w] = "append" /\ active = << >>
                      THEN excuses \cup {"cut short"} ELSE excuses
      /\ UNCHANGED <<active, rotated, keyFile, written, acknowledged, dropped>>
  BY DEF Crash, Excused, auditFiles
<1>3. /\ pc'[w] = "idle" /\ pc' \in [Writers -> Places]
      /\ \A v \in Writers \ {w} : pc'[v] = pc[v]
  BY <1>1, <1>2 DEF AuditTypes, Places
<1>4. /\ tail' \in [Writers -> [hash : Nat, seq : Nat]]
      /\ \A v \in Writers \ {w} : tail'[v] = tail[v]
  <2>1. [hash |-> NoEntry, seq |-> 0] \in [hash : Nat, seq : Nat]
    BY DEF NoEntry
  <2> QED
    BY <1>1, <1>2, <2>1 DEF AuditTypes
<1>5. /\ key' \in [Writers -> Writers \cup {"nobody"}] /\ key'[w] = "nobody"
      /\ \A v \in Writers \ {w} : key'[v] = key[v]
  BY <1>1, <1>2 DEF AuditTypes
<1>6. AuditTypes'
  BY <1>1, <1>2, <1>3, <1>4, <1>5 DEF AuditTypes
<1>7. ASSUME excuses' = {} PROVE Keys' /\ (pc[w] = "append" => active # << >>)
  <2>1. Keys
    BY <1>2, <1>7 DEF AuditInv, ChainInv
  <2> QED
    BY <1>2, <1>3, <1>5, <1>7, <2>1 DEF Keys
<1>8. pc'[w] \notin Entered \cup {"rename", "rotate", "append"} /\ excuses \subseteq excuses'
  BY <1>2, <1>3 DEF Entered
<1> QED
  BY <1>2, <1>3, <1>4, <1>6, <1>7, <1>8, QuietKeeps

(* What Append makes, by its elements.                                     *)
LEMMA AppendIsSeq ==
    ASSUME NEW S, NEW s \in Seq(S), NEW e \in S
    PROVE  /\ Append(s, e) \in Seq(S) /\ Len(Append(s, e)) = Len(s) + 1
           /\ Append(s, e)[Len(s) + 1] = e /\ \A i \in 1..Len(s) : Append(s, e)[i] = s[i]
OBVIOUS

(* A write that fails leaves a torn line and an excuse, or nothing.        *)
LEMMA FailingKeeps ==
    ASSUME AuditInv, NEW w \in Writers, NEW torn \in BOOLEAN, WriteFails(w, torn)
    PROVE  AuditInv'
<1>1. AuditTypes
  BY DEF AuditInv
<1>2. /\ Moves(w, "append", "release")
      /\ active' = IF torn THEN Append(active, TornLine) ELSE active
      /\ excuses' = IF torn \/ active = << >>
                      THEN excuses \cup {IF torn THEN "torn" ELSE "cut short"} ELSE excuses
      /\ UNCHANGED <<rotated, keyFile, key, tail, written, acknowledged, dropped>>
  BY DEF WriteFails, Excused
<1>3. /\ pc[w] = "append" /\ pc'[w] = "release" /\ pc' \in [Writers -> Places]
      /\ \A v \in Writers \ {w} : pc'[v] = pc[v]
  <2>1. "release" \in Places
    BY DEF Places, Entered
  <2> QED
    BY <1>1, <1>2, <2>1, AuditMoves
<1>4. AuditTypes'
  <2>1. active \in Seq(Lines) /\ TornLine \in Lines
    BY <1>1 DEF AuditTypes, TornLine, NoEntry, Lines
  <2>2. Append(active, TornLine) \in Seq(Lines)
    BY <2>1, AppendIsSeq
  <2>3. active' \in Seq(Lines)
    BY <1>2, <2>1, <2>2
  <2> QED
    BY <1>1, <1>2, <1>3, <2>3 DEF AuditTypes
<1>5. CASE torn
  <2>1. ~Sound' /\ excuses' # {}
    BY <1>2, <1>5 DEF Sound
  <2> QED
    BY <1>4, <2>1 DEF AuditInv
<1>6. CASE ~torn
  <2>1. active' = active /\ excuses \subseteq excuses' /\ (excuses' = {} => active # << >>)
    BY <1>2, <1>6
  <2>2. ASSUME excuses' = {} PROVE Keys'
    <3>1. Keys
      BY <1>2, <2>1, <2>2 DEF AuditInv, ChainInv
    <3> QED
      BY <1>2, <1>3, <3>1 DEF Keys
  <2>3. pc[w] \in Entered /\ pc'[w] \notin {"rename", "rotate", "append"}
    BY <1>3 DEF Entered
  <2> QED
    BY <1>2, <1>3, <1>4, <2>1, <2>2, <2>3, QuietKeeps
<1> QED
  BY <1>5, <1>6

(* A rename of no file changes nothing.                                    *)
LEMMA NoRenameKeeps ==
    ASSUME AuditInv, NEW w \in Writers, NEW p \in {"rotate", "rename"},
           NEW q \in {"append", "release"}, Moves(w, p, q), p = "rotate" <=> q = "append",
           UNCHANGED <<active, rotated, keyFile, key, tail, written, acknowledged, dropped,
                       excuses>>
    PROVE  AuditInv'
<1>1. AuditTypes
  BY DEF AuditInv
<1>2. /\ pc[w] = p /\ pc'[w] = q /\ pc' \in [Writers -> Places]
      /\ \A v \in Writers \ {w} : pc'[v] = pc[v]
  <2>1. q \in Places
    BY DEF Places, Entered
  <2> QED
    BY <1>1, <2>1, AuditMoves
<1>3. AuditTypes'
  BY <1>1, <1>2 DEF AuditTypes
<1>4. ASSUME excuses' = {}
      PROVE  Keys' /\ (pc'[w] = "append" => KnowsTail(w)')
  <2>1. ChainInv
    BY <1>4 DEF AuditInv
  <2>2. Keys'
    BY <1>2, <2>1 DEF ChainInv, Keys
  <2>3. pc'[w] = "append" => KnowsTail(w)
    BY <1>2, <2>1 DEF ChainInv
  <2> QED
    BY <2>2, <2>3, FilesStay DEF KnowsTail, LastOf
<1>5. pc[w] \in Entered /\ pc'[w] \notin {"rename", "rotate"} /\ pc[w] # "append"
  BY <1>2 DEF Entered
<1> QED
  BY <1>2, <1>3, <1>4, <1>5, QuietKeeps

(* A rotation moves all generations up: links go over the place that is    *)
(* free now, and what falls out at the end has been dropped.               *)
LEMMA ShiftKeeps ==
    ASSUME AuditInv, NEW w \in Writers, Moves(w, "rotate", "rename"), active # << >>,
           rotated' = Shift(rotated), dropped' = dropped \cup HashesIn(rotated[Keep]),
           UNCHANGED <<active, keyFile, key, tail, written, acknowledged, excuses>>
    PROVE  AuditInv'
<1>1. AuditTypes
  BY DEF AuditInv
<1>2. /\ pc[w] = "rotate" /\ pc'[w] = "rename" /\ pc' \in [Writers -> Places]
      /\ \A v \in Writers \ {w} : pc'[v] = pc[v]
  <2>1. "rename" \in Places
    BY DEF Places, Entered
  <2> QED
    BY <1>1, <2>1, AuditMoves
<1>3. /\ rotated \in [Generations -> Seq(Lines)] /\ 1 \in Generations /\ Keep \in Generations
      /\ Generations = 1..Keep /\ Keep \in Nat
  BY <1>1, AuditBounds DEF AuditTypes, Generations
<1>4. /\ rotated' \in [Generations -> Seq(Lines)] /\ rotated'[1] = << >>
      /\ \A g \in 2..Keep : g - 1 \in Generations /\ rotated'[g] = rotated[g - 1]
  <2>1. << >> \in Seq(Lines) /\ \A g \in Generations : g > 1 => g - 1 \in Generations
    BY <1>3
  <2>2. rotated' \in [Generations -> Seq(Lines)]
    BY <1>3, <2>1 DEF Shift
  <2> QED
    BY <1>3, <2>1, <2>2 DEF Shift
<1>5. AuditTypes'
  BY <1>1, <1>2, <1>4 DEF AuditTypes
<1>6. \A g \in 0..Keep : \/ Generation(g)' = << >>
                         \/ g = 0 /\ Generation(g)' = Generation(g)
                         \/ g \in 2..Keep /\ Generation(g)' = Generation(g - 1) /\ g - 1 \in 0..Keep
  <2> SUFFICES ASSUME NEW g \in 0..Keep
               PROVE  \/ Generation(g)' = << >>
                      \/ g = 0 /\ Generation(g)' = Generation(g)
                      \/ g \in 2..Keep /\ Generation(g)' = Generation(g - 1) /\ g - 1 \in 0..Keep
    OBVIOUS
  <2>1. CASE g = 0
    BY <2>1 DEF Generation
  <2>2. CASE g = 1
    BY <1>3, <1>4, <2>2 DEF Generation
  <2>3. CASE g \in 2..Keep
    BY <1>3, <1>4, <2>3 DEF Generation
  <2> QED
    BY <1>3, <2>1, <2>2, <2>3
<1>7. ASSUME Sound' PROVE KeepingInv'
  <2>1. KeepingInv
    BY <1>7 DEF AuditInv, Sound
  <2>2. OneInside'
    BY <1>2, <2>1 DEF KeepingInv, OneInside, Entered
  <2>3. \A g \in 0..Keep : Untorn(Generation(g))'
    BY <1>6, <2>1 DEF KeepingInv, Untorn
  <2>4. ASSUME NEW e \in Held PROVE e \in dropped' \cup Held'
    <3>1. PICK g \in 0..Keep : e \in HashesIn(Generation(g))
      BY DEF Held
    <3>2. CASE g = Keep
      BY <1>3, <3>1, <3>2, FilesAre, <1>1, AuditBounds
    <3>3. CASE g = 0
      <4>1. Generation(0)' = Generation(0)
        BY DEF Generation
      <4> QED
        BY <3>1, <3>3, <4>1 DEF Held, HashesIn
    <3>4. CASE g \in 1..Keep - 1
      <4>1. g + 1 \in 0..Keep /\ Generation(g + 1)' = Generation(g)
        BY <1>3, <1>4, <3>4 DEF Generation
      <4> QED
        BY <3>1, <4>1 DEF Held, HashesIn
    <3> QED
      BY <1>3, <3>2, <3>3, <3>4
  <2>5. acknowledged' \subseteq dropped' \cup Held'
    BY <2>1, <2>4 DEF KeepingInv
  <2>6. \A v \in Writers : pc'[v] = "rename" => rotated'[1] = << >>
    BY <1>4
  <2> QED
    BY <2>2, <2>3, <2>5, <2>6 DEF KeepingInv
<1>8. ASSUME excuses' = {} PROVE ChainInv'
  <2>1. ChainInv
    BY <1>8 DEF AuditInv
  <2>2. \A g \in 0..Keep : Chained(Generation(g))'
    BY <1>6, <2>1 DEF ChainInv, Chained
  <2>3. ASSUME NEW g \in 0..Keep, NEW h \in Generations, Nearest(g, h)', Generation(g)' # << >>
        PROVE  Generation(g)'[1].prev = LastOf(rotated'[h])
    <3>1. /\ h \in g + 1..Keep /\ rotated'[h] # << >>
          /\ \A k \in g + 1..h - 1 : rotated'[k] = << >>
      BY <2>3 DEF Nearest
    <3>2. h \in 2..Keep /\ rotated'[h] = rotated[h - 1] /\ h - 1 \in Generations
      <4>1. h \in Nat /\ 1 <= h /\ h <= Keep /\ h # 1
        BY <1>3, <1>4, <3>1
      <4>2. h \in 2..Keep
        BY <1>3, <4>1
      <4> QED
        BY <1>4, <4>2
    <3>3. CASE g = 0
      <4>1. ASSUME NEW k \in 1..h - 2 PROVE rotated[k] = << >>
        <5>1. k + 1 \in 2..Keep /\ k + 1 \in g + 1..h - 1 /\ (k + 1) - 1 = k
          BY <1>3, <3>2, <3>3
        <5> QED
          BY <1>4, <3>1, <5>1
      <4>2. Nearest(0, h - 1)
        BY <1>3, <3>1, <3>2, <4>1 DEF Nearest
      <4>3. Generation(0)' = Generation(0)
        BY DEF Generation
      <4>4. LinkedTo(0, h - 1)
        BY <1>3, <2>1, <3>2 DEF ChainInv
      <4> QED
        BY <2>3, <3>2, <3>3, <4>2, <4>3, <4>4 DEF LinkedTo
    <3>4. CASE g # 0
      <4>1. g \in 2..Keep /\ Generation(g)' = Generation(g - 1) /\ g - 1 \in 0..Keep
        BY <1>6, <2>3, <3>4
      <4>2. ASSUME NEW k \in g..h - 2 PROVE rotated[k] = << >>
        <5>1. k + 1 \in 2..Keep /\ k + 1 \in g + 1..h - 1 /\ (k + 1) - 1 = k
          BY <1>3, <3>2, <4>1
        <5> QED
          BY <1>4, <3>1, <5>1
      <4>3. Nearest(g - 1, h - 1)
        BY <1>3, <3>1, <3>2, <4>1, <4>2 DEF Nearest
      <4>4. LinkedTo(g - 1, h - 1)
        BY <1>3, <2>1, <3>2, <4>1 DEF ChainInv
      <4> QED
        BY <2>3, <3>2, <4>1, <4>3, <4>4 DEF LinkedTo
    <3> QED
      BY <3>3, <3>4
  <2>4. \A g \in 0..Keep, h \in Generations : LinkedTo(g, h)'
    BY <2>3 DEF LinkedTo, LastOf
  <2>5. Keys' /\ Empty'
    BY <1>2, <2>1 DEF ChainInv, Keys, Empty
  <2>6. ASSUME NEW v \in Writers, pc'[v] \in {"rotate", "rename", "append"} PROVE KnowsTail(v)'
    <3>1. KnowsTail(v)
      BY <1>2, <2>1, <2>6 DEF ChainInv
    <3> QED
      BY <3>1 DEF KnowsTail, LastOf
  <2> QED
    BY <2>2, <2>4, <2>5, <2>6 DEF ChainInv
<1> QED
  BY <1>5, <1>7, <1>8 DEF AuditInv

(* The active file takes that place.                                       *)
LEMMA RenameKeeps ==
    ASSUME AuditInv, NEW w \in Writers, RenameActive(w), active # << >>
    PROVE  AuditInv'
<1>1. AuditTypes
  BY DEF AuditInv
<1>2. /\ Moves(w, "rename", "append")
      /\ rotated' = [rotated EXCEPT ![1] = active] /\ active' = << >>
      /\ tail' = [tail EXCEPT ![w].seq = 0]
      /\ UNCHANGED <<keyFile, key, written, acknowledged, dropped, excuses>>
  BY DEF RenameActive, auditHistory
<1>3. /\ pc[w] = "rename" /\ pc'[w] = "append" /\ pc' \in [Writers -> Places]
      /\ \A v \in Writers \ {w} : pc'[v] = pc[v]
  <2>1. "append" \in Places
    BY DEF Places, Entered
  <2> QED
    BY <1>1, <1>2, <2>1, AuditMoves
<1>4. /\ rotated' \in [Generations -> Seq(Lines)] /\ rotated'[1] = active
      /\ \A g \in Generations \ {1} : rotated'[g] = rotated[g]
      /\ 1 \in Generations /\ Generations = 1..Keep /\ Keep \in Nat
  BY <1>1, <1>2, AuditBounds DEF AuditTypes, Generations
<1>5. /\ tail' \in [Writers -> [hash : Nat, seq : Nat]] /\ tail'[w].hash = tail[w].hash
      /\ \A v \in Writers \ {w} : tail'[v] = tail[v]
  BY <1>1, <1>2 DEF AuditTypes
<1>6. AuditTypes'
  <2>1. << >> \in Seq(Lines)
    OBVIOUS
  <2> QED
    BY <1>1, <1>2, <1>3, <1>4, <1>5, <2>1 DEF AuditTypes
<1>7. /\ Generation(0)' = << >> /\ Generation(1)' = active
      /\ \A g \in 2..Keep : Generation(g)' = Generation(g)
      /\ \A g \in 0..Keep : g = 0 \/ g = 1 \/ g \in 2..Keep
  BY <1>2, <1>4 DEF Generation
<1>8. ASSUME Sound' PROVE KeepingInv' /\ rotated[1] = << >>
  <2>1. KeepingInv /\ rotated[1] = << >>
    BY <1>2, <1>3, <1>8 DEF AuditInv, Sound, KeepingInv
  <2>2. OneInside' /\ \A v \in Writers : pc'[v] = "rename" => rotated'[1] = << >>
    BY <1>3, <2>1 DEF KeepingInv, OneInside, Entered
  <2>3. Untorn(active)
    BY <1>4, <2>1, GenerationIs DEF KeepingInv
  <2>4. \A g \in 0..Keep : Untorn(Generation(g))'
    BY <1>7, <2>1, <2>3 DEF KeepingInv, Untorn
  <2>5. ASSUME NEW e \in Held PROVE e \in Held'
    <3>1. PICK g \in 0..Keep : e \in HashesIn(Generation(g))
      BY DEF Held
    <3>2. CASE g = 0
      <4>1. Generation(1)' = Generation(g) /\ 1 \in 0..Keep
        BY <1>4, <1>7, <3>2, GenerationIs
      <4> QED
        BY <3>1, <4>1 DEF Held, HashesIn
    <3>3. CASE g = 1
      BY <1>4, <2>1, <3>1, <3>3, GenerationIs DEF HashesIn
    <3>4. CASE g \in 2..Keep
      BY <1>7, <3>1, <3>4 DEF Held, HashesIn
    <3> QED
      BY <1>7, <3>2, <3>3, <3>4
  <2> QED
    BY <1>2, <2>1, <2>2, <2>4, <2>5 DEF KeepingInv
<1>9. ASSUME excuses' = {} PROVE ChainInv'
  <2>1. ChainInv /\ rotated[1] = << >> /\ KnowsTail(w)
    BY <1>2, <1>3, <1>8, <1>9 DEF AuditInv, Sound, ChainInv
  <2>2. Chained(active)
    BY <1>4, <2>1, GenerationIs DEF ChainInv
  <2>3. \A g \in 0..Keep : Chained(Generation(g))'
    BY <1>2, <1>7, <2>1, <2>2 DEF ChainInv, Chained
  <2>4. ASSUME NEW g \in 0..Keep, NEW h \in Generations, Nearest(g, h)', Generation(g)' # << >>
        PROVE  Generation(g)'[1].prev = LastOf(rotated'[h])
    <3>1. /\ h \in g + 1..Keep /\ rotated'[h] # << >>
          /\ \A k \in g + 1..h - 1 : rotated'[k] = << >>
      BY <2>4 DEF Nearest
    <3>2. g # 0 /\ h \in 2..Keep /\ rotated'[h] = rotated[h]
      <4>1. g # 0 /\ g \in Nat
        BY <1>7, <2>4
      <4>2. h \in Nat /\ g + 1 <= h /\ h <= Keep
        BY <1>4, <3>1
      <4>3. h \in 2..Keep
        BY <1>4, <4>1, <4>2
      <4>4. h \in Generations \ {1}
        BY <1>4, <4>3
      <4> QED
        BY <1>4, <4>1, <4>3, <4>4
    <3>3. ASSUME NEW k \in g + 1..h - 1 PROVE rotated[k] = << >>
      <4>1. rotated'[k] = << >>
        BY <3>1
      <4>2. g \in Nat /\ h \in Nat /\ h <= Keep
        BY <1>4, <3>2
      <4>3. k \in 2..Keep
        BY <1>4, <3>2, <4>2
      <4>4. k \in Generations \ {1}
        BY <1>4, <4>3
      <4> QED
        BY <1>4, <4>1, <4>4
    <3>4. CASE g = 1
      <4>1. \A k \in 1..h - 1 : rotated[k] = << >>
        BY <2>1, <3>2, <3>3, <3>4
      <4>2. Nearest(0, h)
        BY <1>4, <3>1, <3>2, <4>1 DEF Nearest
      <4>3. LinkedTo(0, h)
        BY <1>4, <2>1 DEF ChainInv
      <4> QED
        BY <1>7, <3>2, <3>4, <4>2, <4>3, GenerationIs DEF LinkedTo
    <3>5. CASE g \in 2..Keep
      <4>1. Nearest(g, h)
        BY <3>1, <3>2, <3>3 DEF Nearest
      <4>2. LinkedTo(g, h)
        BY <2>1 DEF ChainInv
      <4> QED
        BY <1>7, <2>4, <3>2, <3>5, <4>1, <4>2 DEF LinkedTo
    <3> QED
      BY <1>7, <3>2, <3>4, <3>5
  <2>5. \A g \in 0..Keep, h \in Generations : LinkedTo(g, h)'
    BY <2>4 DEF LinkedTo, LastOf
  <2>6. Keys' /\ Empty'
    BY <1>2, <1>3, <2>1 DEF ChainInv, Keys, Empty
  <2>7. ASSUME NEW v \in Writers, pc'[v] \in {"rotate", "rename", "append"} PROVE KnowsTail(v)'
    <3>1. v = w
      BY <1>2, <1>3, <1>8, <1>9, <2>7 DEF Sound, KeepingInv, OneInside, Entered
    <3>2. ASSUME NEW h \in Generations, Nearest(0, h)' PROVE tail'[w].hash = LastOf(rotated'[h])
      <4>1. h = 1
        BY <1>4, <3>2 DEF Nearest
      <4> QED
        BY <1>4, <1>5, <2>1, <4>1 DEF KnowsTail
    <3> QED
      BY <1>2, <3>1, <3>2 DEF KnowsTail, LastOf
  <2> QED
    BY <2>3, <2>5, <2>6, <2>7 DEF ChainInv
<1> QED
  BY <1>6, <1>8, <1>9 DEF AuditInv

(* An entry is linked to the last one, in the active file or behind it.    *)
LEMMA WriteKeepsIt ==
    ASSUME AuditInv, NEW w \in Writers, WriteEntry(w)
    PROVE  AuditInv'
<1> DEFINE entry == [hash |-> written + 1, seq |-> tail[w].seq + 1, prev |-> tail[w].hash,
                     key |-> key[w]]
<1>1. AuditTypes
  BY DEF AuditInv
<1>2. /\ Moves(w, "append", "release")
      /\ active' = Line(active, entry)
      /\ tail' = [tail EXCEPT ![w] = [hash |-> entry.hash, seq |-> entry.seq]]
      /\ written' = written + 1 /\ acknowledged' = acknowledged \cup {written + 1}
      /\ UNCHANGED <<rotated, keyFile, key, dropped, excuses>>
  BY DEF WriteEntry
<1>3. /\ pc[w] = "append" /\ pc'[w] = "release" /\ pc' \in [Writers -> Places]
      /\ \A v \in Writers \ {w} : pc'[v] = pc[v]
  <2>1. "release" \in Places
    BY DEF Places, Entered
  <2> QED
    BY <1>1, <1>2, <2>1, AuditMoves
<1>4. PICK e \in Lines : e = entry
  <2>1. /\ tail[w].seq \in Nat /\ tail[w].hash \in Nat /\ key[w] \in Writers \cup {"nobody"}
        /\ written + 1 \in Nat
    BY <1>1 DEF AuditTypes
  <2>2. entry \in Lines
    BY <2>1 DEF Lines
  <2> HIDE DEF entry
  <2> QED
    BY <2>2
<1>5. /\ e.hash = written + 1 /\ e.prev = tail[w].hash /\ e.key = key[w] /\ e.seq \in Nat
      /\ written \in Nat
  BY <1>1, <1>4 DEF AuditTypes
<1>6. active' = Line(active, e)
  BY <1>2, <1>4
<1>7. tail' \in [Writers -> [hash : Nat, seq : Nat]]
  <2>1. [hash |-> entry.hash, seq |-> entry.seq] \in [hash : Nat, seq : Nat]
    BY <1>1 DEF AuditTypes
  <2> HIDE DEF entry
  <2> QED
    BY <1>1, <1>2, <2>1 DEF AuditTypes
<1> HIDE DEF entry
<1>8. active \in Seq(Lines) /\ TornLine \in Lines
  BY <1>1 DEF AuditTypes, TornLine, NoEntry, Lines
<1>9. AuditTypes'
  <2>1. Append(active, TornLine) \in Seq(Lines) /\ Append(active, e) \in Seq(Lines)
    BY <1>8, AppendIsSeq
  <2>2. active' \in Seq(Lines)
    BY <1>6, <2>1 DEF Line
  <2> QED
    BY <1>1, <1>2, <1>3, <1>7, <2>2 DEF AuditTypes
<1>10. ASSUME Sound
       PROVE  /\ active' \in Seq(Lines) /\ Len(active') = Len(active) + 1
              /\ active'[Len(active) + 1] = e /\ \A i \in 1..Len(active) : active'[i] = active[i]
              /\ DOMAIN active' = 1..Len(active) + 1 /\ DOMAIN active = 1..Len(active)
              /\ Len(active) \in Nat
  <2>1. Untorn(active)
    BY <1>10, GenerationIs, AuditBounds DEF AuditInv, KeepingInv
  <2>2. active # << >> => active[Len(active)] # TornLine
    BY <1>8, <2>1 DEF Untorn, TornLine
  <2>3. active' = Append(active, e)
    BY <1>6, <2>2 DEF Line
  <2> QED
    BY <1>8, <2>3, AppendIsSeq
<1>11. \A g \in 0..Keep : Generation(g)' = IF g = 0 THEN active' ELSE Generation(g)
  BY <1>2 DEF Generation
<1>12. ASSUME Sound' PROVE KeepingInv'
  <2>1. KeepingInv /\ Sound
    BY <1>2, <1>12 DEF AuditInv, Sound
  <2>2. OneInside' /\ \A v \in Writers : pc'[v] = "rename" => rotated'[1] = << >>
    BY <1>2, <1>3, <2>1 DEF KeepingInv, OneInside, Entered
  <2>3. Untorn(active) /\ 0 \in 0..Keep
    BY <2>1, GenerationIs, AuditBounds DEF KeepingInv
  <2>4. \A i \in DOMAIN active' : active'[i].hash # NoEntry
    BY <1>5, <1>10, <2>1, <2>3 DEF Untorn, NoEntry
  <2>5. \A g \in 0..Keep : Untorn(Generation(g))'
    BY <1>11, <2>1, <2>4 DEF KeepingInv, Untorn
  <2>6. ASSUME NEW x \in Held \cup {written + 1} PROVE x \in Held'
    <3>1. CASE x = written + 1
      <4>1. x \in HashesIn(active')
        BY <1>5, <1>10, <2>1, <3>1 DEF HashesIn, NoEntry
      <4> QED
        BY <1>11, <2>3, <4>1 DEF Held, HashesIn
    <3>2. CASE x \in Held
      <4>1. PICK g \in 0..Keep : x \in HashesIn(Generation(g))
        BY <3>2 DEF Held
      <4>2. CASE g = 0
        <5>1. x \in HashesIn(active)
          BY <4>1, <4>2, GenerationIs
        <5>2. x \in HashesIn(active')
          BY <1>10, <2>1, <5>1 DEF HashesIn
        <5> QED
          BY <1>11, <2>3, <5>2 DEF Held, HashesIn
      <4>3. CASE g # 0
        BY <1>11, <4>1, <4>3 DEF Held, HashesIn
      <4> QED
        BY <4>2, <4>3
    <3> QED
      BY <3>1, <3>2
  <2>7. acknowledged' \subseteq dropped' \cup Held'
    BY <1>2, <2>1, <2>6 DEF KeepingInv
  <2> QED
    BY <2>2, <2>5, <2>7 DEF KeepingInv
<1>13. ASSUME excuses' = {} PROVE ChainInv'
  <2>1. ChainInv /\ Sound /\ KeepingInv /\ KnowsTail(w) /\ key[w] = keyFile /\ keyFile # "nobody"
    BY <1>2, <1>3, <1>13 DEF AuditInv, Sound, ChainInv, Keys
  <2>2. Chained(active) /\ 0 \in 0..Keep
    BY <2>1, GenerationIs, AuditBounds DEF ChainInv
  <2>3. ASSUME NEW i \in DOMAIN active'
        PROVE  /\ active'[i].key = keyFile
               /\ i > 1 => active'[i].prev = active'[i - 1].hash
    <3>1. CASE i = Len(active) + 1
      <4>1. active'[i] = e
        BY <1>10, <2>1, <3>1
      <4>2. i > 1 => active # << >> /\ i - 1 = Len(active) /\ active'[i - 1] = active[Len(active)]
        BY <1>8, <1>10, <2>1, <3>1
      <4> QED
        BY <1>5, <2>1, <4>1, <4>2 DEF KnowsTail, LastOf
    <3>2. CASE i \in 1..Len(active)
      <4>1. active'[i] = active[i] /\ (i > 1 => active'[i - 1] = active[i - 1])
        BY <1>10, <2>1, <3>2
      <4> QED
        BY <1>8, <2>2, <3>2, <4>1 DEF Chained
    <3> QED
      BY <1>10, <2>1, <3>1, <3>2
  <2>4. \A g \in 0..Keep : Chained(Generation(g))'
    BY <1>2, <1>11, <2>1, <2>3 DEF ChainInv, Chained
  <2>5. ASSUME NEW g \in 0..Keep, NEW h \in Generations, Nearest(g, h)', Generation(g)' # << >>
        PROVE  Generation(g)'[1].prev = LastOf(rotated'[h])
    <3>1. Nearest(g, h) /\ LinkedTo(g, h)
      BY <1>2, <2>1, <2>5 DEF Nearest, ChainInv
    <3>2. CASE g = 0 /\ active = << >>
      <4>1. tail[w].hash = LastOf(rotated[h])
        BY <2>1, <3>1, <3>2 DEF KnowsTail
      <4>2. active'[1] = e
        BY <1>10, <2>1, <3>2
      <4> QED
        BY <1>2, <1>5, <1>11, <3>2, <4>1, <4>2
    <3>3. CASE g = 0 /\ active # << >>
      <4>1. active'[1] = active[1]
        BY <1>8, <1>10, <2>1, <3>3
      <4> QED
        BY <1>2, <1>11, <3>1, <3>3, <4>1, GenerationIs DEF LinkedTo
    <3>4. CASE g # 0
      BY <1>2, <1>11, <2>5, <3>1, <3>4 DEF LinkedTo
    <3> QED
      BY <3>2, <3>3, <3>4
  <2>6. \A g \in 0..Keep, h \in Generations : LinkedTo(g, h)'
    BY <2>5 DEF LinkedTo, LastOf
  <2>7. active' # << >>
    BY <1>10, <2>1
  <2>8. Keys' /\ Empty'
    BY <1>2, <1>3, <2>1, <2>7 DEF ChainInv, Keys, Empty
  <2>9. \A v \in Writers : pc'[v] \notin {"rotate", "rename", "append"}
    BY <1>3, <2>1 DEF KeepingInv, OneInside, Entered
  <2> QED
    BY <2>4, <2>6, <2>8, <2>9 DEF ChainInv
<1> QED
  BY <1>9, <1>12, <1>13 DEF AuditInv

(* Every step keeps the invariant.                                         *)
LEMMA AuditInvNext == AuditInv /\ [AuditNext]_auditVars => AuditInv'
<1> SUFFICES ASSUME AuditInv, [AuditNext]_auditVars PROVE AuditInv'
  OBVIOUS
<1>1. ASSUME NEW w \in Writers,
             \/ BeginAppend(w) \/ LoadKey(w) \/ GenerateKey(w) \/ ReadTail(w) \/ StatTail(w)
             \/ TakeLock(w) \/ LockExists(w) \/ ReadHolder(w) \/ Reclaim(w) \/ GivesUp(w)
             \/ WritePid(w) \/ Release(w) \/ RefreshTailState(w) \/ WriteEntry(w)
             \/ \E torn \in BOOLEAN : WriteFails(w, torn)
             \/ Crash(w)
      PROVE  AuditInv'
  BY <1>1, ReadsKeep, GenerateKeeps, TakeLockKeeps, RefreshKeeps, WriteKeepsIt, FailingKeeps,
     CrashKeeps
<1>2. ASSUME NEW w \in Writers, RotateIfNeeded(w) PROVE AuditInv'
  <2>1. CASE Len(active) < RotateAt
    <3>1. /\ Moves(w, "rotate", "append")
          /\ UNCHANGED <<active, rotated, keyFile, key, tail, written, acknowledged, dropped,
                         excuses>>
      BY <1>2, <2>1 DEF RotateIfNeeded, auditFiles, auditHistory
    <3> QED
      BY <3>1, NoRenameKeeps
  <2>2. CASE ~(Len(active) < RotateAt)
    <3>1. active # << >>
      BY <2>2, AuditBounds
    <3> QED
      BY <1>2, <2>2, <3>1, ShiftKeeps DEF RotateIfNeeded
  <2> QED
    BY <2>1, <2>2
<1>3. ASSUME NEW w \in Writers, RenameActive(w) PROVE AuditInv'
  <2>1. CASE active = << >>
    <3>1. /\ Moves(w, "rename", "release")
          /\ UNCHANGED <<active, rotated, keyFile, key, tail, written, acknowledged, dropped,
                         excuses>>
      BY <1>3, <2>1 DEF RenameActive, auditFiles, auditHistory
    <3> QED
      BY <3>1, NoRenameKeeps
  <2> QED
    BY <1>3, <2>1, RenameKeeps
<1>4. CASE UNCHANGED auditVars
  <2>1. UNCHANGED <<active, rotated, keyFile, key, tail, pc, written, acknowledged, dropped,
                    excuses>>
    BY <1>4 DEF auditVars, auditFiles, auditMemory, auditHistory
  <2>2. /\ Held' = Held /\ \A g : Generation(g)' = Generation(g)
        /\ \A g, h : LinkedTo(g, h)' <=> LinkedTo(g, h)
        /\ \A g, h : Nearest(g, h)' <=> Nearest(g, h)
    BY <2>1, FilesStay
  <2>3. AuditTypes'
    BY <2>1 DEF AuditInv, AuditTypes
  <2>4. Sound' => KeepingInv'
    BY <2>1, <2>2 DEF AuditInv, Sound, KeepingInv, OneInside, Untorn
  <2>5. excuses' = {} => ChainInv'
    <3>1. \A v \in Writers : KnowsTail(v)' <=> KnowsTail(v)
      BY <2>1, <2>2 DEF KnowsTail, LastOf
    <3> QED
      BY <2>1, <2>2, <3>1 DEF AuditInv, ChainInv, Chained, Keys, Empty
  <2> QED
    BY <2>3, <2>4, <2>5 DEF AuditInv
<1> QED
  BY <1>1, <1>2, <1>3, <1>4 DEF AuditNext

(* The log is evidence, for any writers, thresholds and generations: the   *)
(* chain verifies across all files unless one of five things happened, and *)
(* what was acknowledged stays until its generation is dropped             *)
(* (audit-log.ts:19-46, 255-296, 434-469).                                 *)
THEOREM LogStaysEvidence == AuditSpec => []LogIsEvidence
<1>1. AuditInv => LogIsEvidence
  BY AuditInvImplies
<1> QED
  BY AuditInvInit, AuditInvNext, <1>1, PTL DEF AuditSpec

-----------------------------------------------------------------------------
(* Numbers grow within a file,                                             *)
Ascending(s) == \A i, j \in DOMAIN s : i < j => s[i].hash < s[j].hash

(* and from an older file to a newer one;                                  *)
Newer(s, t) == \A i \in DOMAIN s, j \in DOMAIN t : t[j].hash < s[i].hash

(* none is greater than that of the last entry,                            *)
NoneAhead(s) == \A i \in DOMAIN s : s[i].hash <= written

(* and that one is there. With this the files are one log in its order.    *)
OrderInv ==
    /\ \A w \in Writers : tail[w].hash <= written
    /\ \A g \in 0..Keep : NoneAhead(Generation(g))
    /\ Sound => /\ \A g \in 0..Keep : Ascending(Generation(g))
                /\ \A g, h \in 0..Keep : g < h => Newer(Generation(g), Generation(h))
                /\ written # 0 => written \in Held

(* It holds of no file.                                                    *)
LEMMA OrderInit == AuditInit => OrderInv
<1> SUFFICES ASSUME AuditInit PROVE OrderInv
  OBVIOUS
<1>1. \A g \in 0..Keep : Generation(g) = << >>
  BY AuditBounds DEF AuditInit, Generation, Generations
<1>2. written = 0 /\ \A w \in Writers : tail[w].hash = 0
  BY DEF AuditInit, NoEntry
<1> QED
  BY <1>1, <1>2 DEF OrderInv, NoneAhead, Ascending, Newer

(* Steps that leave the files alone leave it.                              *)
LEMMA OrderStays ==
    ASSUME OrderInv, UNCHANGED <<active, rotated, written>>, excuses \subseteq excuses',
           \A w \in Writers : tail'[w].hash <= written
    PROVE  OrderInv'
<1>1. /\ \A g : Generation(g)' = Generation(g)
      /\ Held' = Held /\ (Sound' => Sound)
  BY FilesStay DEF Sound
<1> QED
  BY <1>1 DEF OrderInv, NoneAhead, Ascending, Newer

(* The tail that is read is of an entry that was written.                  *)
LEMMA TailIsLow ==
    ASSUME AuditTypes, OrderInv, NEW w \in Writers
    PROVE  TailOf(active, tail[w]).hash <= written
<1>1. active \in Seq(Lines) /\ tail[w].hash <= written /\ written \in Nat
  BY DEF AuditTypes, OrderInv
<1>2. NoneAhead(active)
  BY GenerationIs, AuditBounds DEF OrderInv
<1>3. CASE active = << >>
  BY <1>1, <1>3 DEF TailOf, NoEntry
<1>4. CASE active # << >>
  <2>1. Len(active) \in DOMAIN active
    BY <1>1, <1>4
  <2> QED
    BY <1>1, <1>2, <1>4, <2>1 DEF TailOf, NoneAhead
<1> QED
  BY <1>3, <1>4

(* They are: the steps before the lock, at it and out of it, and those     *)
(* that read.                                                              *)
LEMMA QuietStaysInOrder ==
    ASSUME AuditInv, OrderInv, NEW w \in Writers,
           \/ BeginAppend(w) \/ LoadKey(w) \/ GenerateKey(w) \/ ReadTail(w) \/ StatTail(w)
           \/ TakeLock(w) \/ LockExists(w) \/ ReadHolder(w) \/ Reclaim(w) \/ GivesUp(w)
           \/ WritePid(w) \/ Release(w) \/ RefreshTailState(w) \/ Crash(w)
           \/ WriteFails(w, FALSE)
           \/ RotateIfNeeded(w) /\ Len(active) < RotateAt
           \/ RenameActive(w) /\ active = << >>
    PROVE  /\ UNCHANGED <<active, rotated, written>>
           /\ OrderInv'
<1>1. AuditTypes /\ \A v \in Writers : tail[v].hash <= written
  BY DEF AuditInv, OrderInv
<1>2. TailOf(active, tail[w]).hash <= written
  BY <1>1, TailIsLow
<1>3. tail \in [Writers -> [hash : Nat, seq : Nat]] /\ written \in Nat
  BY <1>1 DEF AuditTypes
<1>4. /\ UNCHANGED <<active, rotated, written>>
      /\ excuses \subseteq excuses'
      /\ \/ tail' = tail
         \/ tail' = [tail EXCEPT ![w] = TailOf(active, tail[w])]
         \/ tail' = [tail EXCEPT ![w] = [hash |-> NoEntry, seq |-> 0]]
  <2>1. CASE BeginAppend(w) \/ LoadKey(w) \/ GenerateKey(w)
    BY <2>1 DEF BeginAppend, LoadKey, GenerateKey, Excused, auditFiles, auditHistory
  <2>2. CASE ReadTail(w) \/ StatTail(w)
    BY <2>2 DEF ReadTail, StatTail, auditFiles, auditHistory
  <2>3. CASE TakeLock(w) \/ LockExists(w) \/ ReadHolder(w) \/ Reclaim(w) \/ GivesUp(w)
    BY <2>3 DEF TakeLock, LockExists, ReadHolder, Reclaim, GivesUp, Excused, auditFiles,
                auditHistory
  <2>4. CASE WritePid(w) \/ Release(w)
    BY <2>4 DEF WritePid, Release, auditHistory
  <2>5. CASE RefreshTailState(w) \/ Crash(w)
    BY <2>5 DEF RefreshTailState, Crash, Excused, auditFiles
  <2>6. CASE WriteFails(w, FALSE)
    BY <2>6 DEF WriteFails, Excused
  <2>7. CASE RotateIfNeeded(w) /\ Len(active) < RotateAt
    BY <2>7 DEF RotateIfNeeded, auditFiles, auditHistory
  <2>8. CASE RenameActive(w) /\ active = << >>
    BY <2>8 DEF RenameActive, auditFiles, auditHistory
  <2> QED
    BY <2>1, <2>2, <2>3, <2>4, <2>5, <2>6, <2>7, <2>8
<1>5. \A v \in Writers : tail'[v].hash <= written
  <2>1. CASE tail' = [tail EXCEPT ![w] = [hash |-> NoEntry, seq |-> 0]]
    BY <1>1, <1>3, <2>1 DEF NoEntry
  <2> QED
    BY <1>1, <1>2, <1>3, <1>4, <2>1
<1> QED
  BY <1>4, <1>5, OrderStays

(* A torn line has no number.                                              *)
LEMMA TornStaysInOrder ==
    ASSUME AuditInv, OrderInv, NEW w \in Writers, WriteFails(w, TRUE)
    PROVE  OrderInv' /\ excuses' # {}
<1>1. /\ active' = Append(active, TornLine) /\ excuses' = excuses \cup {"torn"}
      /\ UNCHANGED <<rotated, written, tail>>
  BY DEF WriteFails, Excused
<1>2. active \in Seq(Lines) /\ written \in Nat
  BY DEF AuditInv, AuditTypes
<1>3. NoneAhead(active)
  BY GenerationIs, AuditBounds DEF OrderInv
<1>4. \A i \in DOMAIN active' : active'[i].hash <= written
  BY <1>1, <1>2, <1>3 DEF NoneAhead, TornLine, NoEntry
<1>5. \A g \in 0..Keep : g = 0 \/ Generation(g)' = Generation(g)
  BY <1>1 DEF Generation
<1>6. \A g \in 0..Keep : NoneAhead(Generation(g))'
  BY <1>1, <1>4, <1>5, GenerationIs DEF OrderInv, NoneAhead
<1> QED
  BY <1>1, <1>6 DEF OrderInv, Sound

(* The generations after a rotation.                                       *)
LEMMA ShiftIs ==
    ASSUME AuditTypes, rotated' = Shift(rotated), active' = active
    PROVE  /\ Generation(0)' = active /\ Generation(1)' = << >>
           /\ \A g \in 2..Keep : g - 1 \in 1..Keep-1 /\ Generation(g)' = Generation(g - 1)
           /\ \A g \in 1..Keep-1 : g + 1 \in 2..Keep /\ Generation(g + 1)' = Generation(g)
<1>1. /\ rotated \in [Generations -> Seq(Lines)] /\ 1 \in Generations /\ Keep \in Nat
      /\ Generations = 1..Keep
  BY AuditBounds DEF AuditTypes, Generations
<1>2. /\ rotated'[1] = << >>
      /\ \A g \in 2..Keep : rotated'[g] = rotated[g - 1]
  BY <1>1 DEF Shift
<1> QED
  BY <1>1, <1>2 DEF Generation

(* A rotation forgets the oldest: the last entry stays.                    *)
LEMMA ShiftStaysInOrder ==
    ASSUME AuditInv, OrderInv, NEW w \in Writers, RotateIfNeeded(w), ~(Len(active) < RotateAt)
    PROVE  OrderInv'
<1>1. /\ rotated' = Shift(rotated) /\ active # << >>
      /\ UNCHANGED <<active, tail, written, excuses>>
  BY AuditBounds DEF RotateIfNeeded
<1>2. AuditTypes /\ Keep \in Nat /\ Keep >= 1 /\ active \in Seq(Lines)
  BY AuditBounds DEF AuditInv, AuditTypes
<1>3. /\ Generation(0)' = Generation(0) /\ Generation(1)' = << >>
      /\ \A g \in 2..Keep : g - 1 \in 1..Keep-1 /\ Generation(g)' = Generation(g - 1)
      /\ \A g \in 1..Keep-1 : g + 1 \in 2..Keep /\ Generation(g + 1)' = Generation(g)
      /\ \A g \in 0..Keep : g = 0 \/ g = 1 \/ g \in 2..Keep
  BY <1>1, <1>2, ShiftIs, GenerationIs
<1>4. \A g \in 0..Keep : NoneAhead(Generation(g))'
  BY <1>1, <1>2, <1>3 DEF OrderInv, NoneAhead
<1>5. ASSUME Sound'
      PROVE  /\ \A g \in 0..Keep : Ascending(Generation(g)')
             /\ \A g, h \in 0..Keep : g < h => Newer(Generation(g)', Generation(h)')
             /\ written # 0 => written \in Held'
  <2>1. /\ \A g \in 0..Keep : Ascending(Generation(g))
        /\ \A g, h \in 0..Keep : g < h => Newer(Generation(g), Generation(h))
        /\ written # 0 => written \in Held
    BY <1>1, <1>5 DEF Sound, OrderInv
  <2>2. \A g \in 0..Keep : Ascending(Generation(g)')
    BY <1>2, <1>3, <2>1 DEF Ascending
  <2>3. ASSUME NEW g \in 0..Keep, NEW h \in 0..Keep, g < h
        PROVE  Newer(Generation(g)', Generation(h)')
    <3>1. CASE h = 1 \/ g = 1
      BY <1>3, <3>1 DEF Newer
    <3>2. CASE g = 0 /\ h \in 2..Keep
      <4>1. h - 1 \in 0..Keep /\ 0 < h - 1 /\ 0 \in 0..Keep
        BY <1>2, <3>2
      <4> QED
        BY <1>3, <2>1, <3>2, <4>1
    <3>3. CASE g \in 2..Keep /\ h \in 2..Keep
      <4>1. g - 1 \in 0..Keep /\ h - 1 \in 0..Keep /\ g - 1 < h - 1
        BY <1>2, <2>3, <3>3
      <4> QED
        BY <1>3, <2>1, <3>3, <4>1
    <3> QED
      BY <1>3, <2>3, <3>1, <3>2, <3>3
  <2>4. ASSUME written # 0 PROVE written \in Held'
    <3>1. PICK g \in 0..Keep : written \in HashesIn(Generation(g))
      BY <2>1, <2>4 DEF Held
    <3>2. CASE g = 0
      <4>1. written \in HashesIn(Generation(0)')
        BY <1>3, <3>1, <3>2
      <4> QED
        BY <1>2, <4>1 DEF Held, HashesIn
    <3>3. CASE g \in 1..Keep-1
      <4>1. g + 1 \in 0..Keep /\ written \in HashesIn(Generation(g + 1)')
        BY <1>2, <1>3, <3>1, <3>3
      <4> QED
        BY <4>1 DEF Held, HashesIn
    <3>4. CASE g = Keep
      <4>1. PICK j \in DOMAIN Generation(g) : Generation(g)[j].hash = written
        BY <3>1 DEF HashesIn
      <4>2. 1 \in DOMAIN Generation(0) /\ 0 \in 0..Keep /\ 0 < g
        BY <1>1, <1>2, <3>4, GenerationIs
      <4>3. written < Generation(0)[1].hash
        BY <2>1, <4>1, <4>2 DEF Newer
      <4>4. Generation(0)[1].hash <= written
        BY <4>2 DEF OrderInv, NoneAhead
      <4>5. Generation(0)[1].hash \in Nat /\ written \in Nat
        <5>1. Generation(0)[1] \in Lines
          BY <1>2, <4>2, GenerationIs
        <5> QED
          BY <1>2, <5>1 DEF AuditTypes, Lines
      <4> QED
        BY <4>3, <4>4, <4>5
    <3> QED
      BY <1>2, <3>1, <3>2, <3>3, <3>4
  <2> QED
    BY <2>2, <2>3, <2>4
<1> QED
  BY <1>1, <1>4, <1>5 DEF OrderInv, Ascending, Newer

(* The active file is renamed to a place that is free.                     *)
LEMMA RenameIs ==
    ASSUME AuditInv, NEW w \in Writers, RenameActive(w), active # << >>
    PROVE  /\ Generation(0)' = << >> /\ Generation(1)' = Generation(0)
           /\ \A g \in 2..Keep : Generation(g)' = Generation(g)
           /\ 1 \in 0..Keep /\ \A g \in 0..Keep : g = 0 \/ g = 1 \/ g \in 2..Keep
           /\ Sound => Generation(1) = << >>
           /\ UNCHANGED <<written, excuses>>
           /\ \A v \in Writers : tail'[v].hash = tail[v].hash
<1>1. /\ pc[w] = "rename" /\ rotated' = [rotated EXCEPT ![1] = active] /\ active' = << >>
      /\ tail' = [tail EXCEPT ![w].seq = 0] /\ UNCHANGED <<written, excuses>>
  BY DEF RenameActive, Moves, auditHistory
<1>2. /\ rotated \in [Generations -> Seq(Lines)] /\ 1 \in Generations /\ Keep \in Nat
      /\ Generations = 1..Keep /\ tail \in [Writers -> [hash : Nat, seq : Nat]]
  BY AuditBounds DEF AuditInv, AuditTypes, Generations
<1>3. /\ rotated'[1] = active /\ \A g \in 2..Keep : rotated'[g] = rotated[g]
  BY <1>1, <1>2
<1>4. Sound => rotated[1] = << >>
  BY <1>1 DEF AuditInv, KeepingInv
<1>5. \A v \in Writers : tail'[v].hash = tail[v].hash
  BY <1>1, <1>2
<1> QED
  BY <1>1, <1>2, <1>3, <1>4, <1>5 DEF Generation

(* It stays behind whatever was rotated before, in the same order.         *)
LEMMA RenameStaysInOrder ==
    ASSUME AuditInv, OrderInv, NEW w \in Writers, RenameActive(w), active # << >>
    PROVE  OrderInv'
<1>1. /\ Generation(0)' = << >> /\ Generation(1)' = Generation(0)
      /\ \A g \in 2..Keep : Generation(g)' = Generation(g)
      /\ 1 \in 0..Keep /\ \A g \in 0..Keep : g = 0 \/ g = 1 \/ g \in 2..Keep
      /\ Sound => Generation(1) = << >>
      /\ UNCHANGED <<written, excuses>>
      /\ \A v \in Writers : tail'[v].hash = tail[v].hash
  BY RenameIs
<1>2. 0 \in 0..Keep
  BY AuditBounds
<1>3. \A g \in 0..Keep : NoneAhead(Generation(g))'
  BY <1>1, <1>2 DEF OrderInv, NoneAhead
<1>4. ASSUME Sound'
      PROVE  /\ \A g \in 0..Keep : Ascending(Generation(g)')
             /\ \A g, h \in 0..Keep : g < h => Newer(Generation(g)', Generation(h)')
             /\ written # 0 => written \in Held'
  <2>1. /\ \A g \in 0..Keep : Ascending(Generation(g))
        /\ \A g, h \in 0..Keep : g < h => Newer(Generation(g), Generation(h))
        /\ written # 0 => written \in Held
        /\ Generation(1) = << >>
    BY <1>1, <1>4 DEF Sound, OrderInv
  <2>2. \A g \in 0..Keep : Ascending(Generation(g)')
    BY <1>1, <1>2, <2>1 DEF Ascending
  <2>3. ASSUME NEW g \in 0..Keep, NEW h \in 0..Keep, g < h
        PROVE  Newer(Generation(g)', Generation(h)')
    <3>1. CASE g = 0
      BY <1>1, <3>1 DEF Newer
    <3>2. CASE g = 1 /\ h \in 2..Keep
      <4>1. 0 < h
        BY <2>3, <3>2
      <4> QED
        BY <1>1, <1>2, <2>1, <3>2, <4>1
    <3>3. CASE g \in 2..Keep /\ h \in 2..Keep
      BY <1>1, <2>1, <2>3, <3>3
    <3> QED
      BY <1>1, <1>2, <2>3, <3>1, <3>2, <3>3
  <2>4. ASSUME written # 0 PROVE written \in Held'
    <3>1. PICK g \in 0..Keep : written \in HashesIn(Generation(g))
      BY <2>1, <2>4 DEF Held
    <3>2. CASE g = 0
      <4>1. written \in HashesIn(Generation(1)')
        BY <1>1, <3>1, <3>2
      <4> QED
        BY <1>1, <4>1 DEF Held, HashesIn
    <3>3. CASE g = 1
      BY <2>1, <3>1, <3>3 DEF HashesIn
    <3>4. CASE g \in 2..Keep
      <4>1. written \in HashesIn(Generation(g)')
        BY <1>1, <3>1, <3>4
      <4> QED
        BY <4>1 DEF Held, HashesIn
    <3> QED
      BY <1>1, <3>2, <3>3, <3>4
  <2> QED
    BY <2>2, <2>3, <2>4
<1>5. \A v \in Writers : tail'[v].hash <= written
  BY <1>1 DEF OrderInv
<1> QED
  BY <1>1, <1>3, <1>4, <1>5 DEF OrderInv, Ascending, Newer

(* What a write adds to the active file, torn or not.                      *)
LEMMA WriteIs ==
    ASSUME AuditInv, NEW w \in Writers, WriteEntry(w)
    PROVE  \E e \in Lines :
              /\ e.hash = written + 1 /\ e.prev = tail[w].hash
              /\ active' \in {Append(active, e), Append(active, TornLine)}
              /\ Sound => active' = Append(active, e)
              /\ active' \in Seq(Lines)
              /\ pc[w] = "append" /\ written \in Nat /\ written' = written + 1
              /\ UNCHANGED <<rotated, excuses>>
              /\ \A v \in Writers : tail'[v].hash = IF v = w THEN written + 1 ELSE tail[v].hash
<1> DEFINE entry == [hash |-> written + 1, seq |-> tail[w].seq + 1, prev |-> tail[w].hash,
                     key |-> key[w]]
<1>1. AuditTypes
  BY DEF AuditInv
<1>2. /\ active' = Line(active, entry) /\ pc[w] = "append"
      /\ tail' = [tail EXCEPT ![w] = [hash |-> entry.hash, seq |-> entry.seq]]
      /\ written' = written + 1 /\ UNCHANGED <<rotated, excuses>>
  BY DEF WriteEntry, Moves
<1>3. entry \in Lines /\ entry.hash = written + 1 /\ entry.prev = tail[w].hash /\ written \in Nat
  <2>1. /\ tail[w].seq \in Nat /\ tail[w].hash \in Nat /\ key[w] \in Writers \cup {"nobody"}
        /\ written + 1 \in Nat /\ written \in Nat
    BY <1>1 DEF AuditTypes
  <2> QED
    BY <2>1 DEF Lines
<1>4. \A v \in Writers : tail'[v].hash = IF v = w THEN written + 1 ELSE tail[v].hash
  BY <1>1, <1>2 DEF AuditTypes
<1> HIDE DEF entry
<1>5. active \in Seq(Lines) /\ TornLine \in Lines
  BY <1>1 DEF AuditTypes, TornLine, NoEntry, Lines
<1>6. Append(active, TornLine) \in Seq(Lines) /\ Append(active, entry) \in Seq(Lines)
  BY <1>3, <1>5, AppendIsSeq
<1>7. ASSUME Sound PROVE active' = Append(active, entry)
  <2>1. Untorn(active)
    BY <1>7, GenerationIs, AuditBounds DEF AuditInv, KeepingInv
  <2>2. active # << >> => active[Len(active)] # TornLine
    BY <1>5, <2>1 DEF Untorn, TornLine
  <2> QED
    BY <1>2, <2>2 DEF Line
<1>8. active' \in {Append(active, entry), Append(active, TornLine)}
  BY <1>2 DEF Line
<1> QED
  BY <1>2, <1>3, <1>4, <1>6, <1>7, <1>8

(* The new entry is the last.                                              *)
LEMMA WriteStaysInOrder ==
    ASSUME AuditInv, OrderInv, NEW w \in Writers, WriteEntry(w)
    PROVE  OrderInv'
<1>1. PICK e \in Lines :
          /\ e.hash = written + 1 /\ e.prev = tail[w].hash
          /\ active' \in {Append(active, e), Append(active, TornLine)}
          /\ Sound => active' = Append(active, e)
          /\ active' \in Seq(Lines)
          /\ pc[w] = "append" /\ written \in Nat /\ written' = written + 1
          /\ UNCHANGED <<rotated, excuses>>
          /\ \A v \in Writers : tail'[v].hash = IF v = w THEN written + 1 ELSE tail[v].hash
  BY WriteIs
<1>2. /\ Generation(0)' = active' /\ Generation(0) = active /\ 0 \in 0..Keep
      /\ \A g \in 1..Keep : Generation(g)' = Generation(g)
      /\ \A g \in 0..Keep : g = 0 \/ g \in 1..Keep
  BY <1>1, AuditBounds DEF Generation
<1>3. AuditTypes /\ active \in Seq(Lines)
  BY DEF AuditInv, AuditTypes
<1>4. \A g \in 0..Keep : \A i \in DOMAIN Generation(g) :
          Generation(g)[i].hash <= written /\ Generation(g)[i].hash \in Nat
  <2>1. \A g \in 0..Keep : Generation(g) \in Seq(Lines)
    BY <1>3, FilesAre
  <2>2. \A g \in 0..Keep : \A i \in DOMAIN Generation(g) : Generation(g)[i].hash \in Nat
    <3>1. ASSUME NEW g \in 0..Keep, NEW i \in DOMAIN Generation(g)
          PROVE  Generation(g)[i].hash \in Nat
      <4>1. Generation(g)[i] \in Lines
        BY <2>1
      <4> QED
        BY <4>1 DEF Lines
    <3> QED
      BY <3>1
  <2> QED
    BY <2>2 DEF OrderInv, NoneAhead
<1>5. PICK n \in Nat : n = Len(active)
  BY <1>3
<1>6. /\ DOMAIN active = 1..n /\ DOMAIN active' = 1..(n+1)
      /\ \A i \in 1..n : active'[i] = active[i]
      /\ active'[n + 1] \in {e, TornLine}
      /\ Sound => active'[n + 1] = e
  <2>1. TornLine \in Lines
    BY DEF TornLine, NoEntry, Lines
  <2> QED
    BY <1>1, <1>3, <1>5, <2>1
<1>7. ASSUME NEW i \in DOMAIN active' PROVE active'[i].hash <= written + 1
  <2>1. CASE i \in 1..n
    <3>1. active'[i].hash <= written /\ active'[i].hash \in Nat
      BY <1>2, <1>4, <1>6, <2>1
    <3> QED
      BY <1>1, <3>1
  <2>2. CASE i = n + 1
    <3>1. active'[i].hash \in {written + 1, 0}
      BY <1>1, <1>6, <2>2 DEF TornLine, NoEntry
    <3> QED
      BY <1>1, <3>1
  <2> QED
    BY <1>6, <2>1, <2>2
<1>8. \A g \in 0..Keep : NoneAhead(Generation(g))'
  <2>1. \A g \in 1..Keep : \A i \in DOMAIN Generation(g)' : Generation(g)'[i].hash <= written + 1
    BY <1>1, <1>2, <1>4
  <2> QED
    BY <1>1, <1>2, <1>7, <2>1 DEF NoneAhead
<1>9. ASSUME Sound'
      PROVE  /\ \A g \in 0..Keep : Ascending(Generation(g)')
             /\ \A g, h \in 0..Keep : g < h => Newer(Generation(g)', Generation(h)')
             /\ written + 1 \in Held'
  <2>1. /\ \A g \in 0..Keep : Ascending(Generation(g))
        /\ \A g, h \in 0..Keep : g < h => Newer(Generation(g), Generation(h))
        /\ active'[n + 1].hash = written + 1
    BY <1>1, <1>6, <1>9 DEF Sound, OrderInv
  <2>2. Ascending(active')
    <3>1. ASSUME NEW i \in 1..(n+1), NEW j \in 1..(n+1), i < j
          PROVE  active'[i].hash < active'[j].hash
      <4>1. i \in 1..n
        BY <3>1
      <4>2. active'[i].hash <= written /\ active'[i].hash \in Nat
        BY <1>2, <1>4, <1>6, <4>1
      <4>3. CASE j = n + 1
        BY <1>1, <2>1, <4>2, <4>3
      <4>4. CASE j \in 1..n
        BY <1>2, <1>6, <2>1, <3>1, <4>1, <4>4 DEF Ascending
      <4> QED
        BY <4>3, <4>4
    <3> QED
      BY <1>6, <3>1 DEF Ascending
  <2>3. \A g \in 0..Keep : Ascending(Generation(g)')
    BY <1>2, <2>1, <2>2
  <2>4. ASSUME NEW g \in 0..Keep, NEW h \in 0..Keep, g < h
        PROVE  Newer(Generation(g)', Generation(h)')
    <3>1. CASE g \in 1..Keep
      <4>1. h \in 1..Keep
        BY <1>2, <2>4, <3>1
      <4> QED
        BY <1>2, <2>1, <2>4, <3>1, <4>1
    <3>2. CASE g = 0
      <4>1. h \in 1..Keep /\ Generation(h)' = Generation(h)
        BY <1>2, <2>4, <3>2
      <4>2. ASSUME NEW i \in 1..(n+1), NEW j \in DOMAIN Generation(h)
            PROVE  Generation(h)[j].hash < active'[i].hash
        <5>1. CASE i \in 1..n
          BY <1>2, <1>6, <2>1, <2>4, <3>2, <5>1 DEF Newer
        <5>2. CASE i = n + 1
          BY <1>1, <1>4, <2>1, <5>2
        <5> QED
          BY <5>1, <5>2
      <4> QED
        BY <1>2, <1>6, <3>2, <4>1, <4>2 DEF Newer
    <3> QED
      BY <1>2, <3>1, <3>2
  <2>5. written + 1 \in Held'
    <3>1. n + 1 \in DOMAIN active' /\ active'[n + 1].hash # NoEntry
      BY <1>1, <1>6, <2>1 DEF NoEntry
    <3>2. written + 1 \in HashesIn(active')
      BY <2>1, <3>1 DEF HashesIn
    <3> QED
      BY <1>2, <3>2 DEF Held, HashesIn
  <2> QED
    BY <2>3, <2>4, <2>5
<1>10. \A v \in Writers : tail'[v].hash <= written'
  <2>1. \A v \in Writers : tail[v].hash <= written /\ tail[v].hash \in Nat
    BY <1>3 DEF AuditTypes, OrderInv
  <2> QED
    BY <1>1, <2>1
<1> QED
  BY <1>1, <1>8, <1>9, <1>10 DEF OrderInv, Ascending, Newer

-----------------------------------------------------------------------------
(* The files and their entries, with types.                                *)
LEMMA EntriesAre ==
    ASSUME AuditTypes, NEW g \in 0..Keep, NEW i \in DOMAIN Generation(g)
    PROVE  /\ Generation(g) \in Seq(Lines) /\ Generation(g)[i] \in Lines
           /\ Generation(g)[i].hash \in Nat /\ Generation(g)[i].prev \in Nat
           /\ i \in 1..Len(Generation(g)) /\ Len(Generation(g)) \in Nat
<1>1. Generation(g) \in Seq(Lines)
  BY FilesAre
<1>2. Generation(g)[i] \in Lines /\ i \in 1..Len(Generation(g)) /\ Len(Generation(g)) \in Nat
  BY <1>1
<1> QED
  BY <1>1, <1>2 DEF Lines

(* The writer inside knows the last entry.                                 *)
LEMMA TailIsLast ==
    ASSUME AuditInv, OrderInv, excuses = {}, NEW w \in Writers, pc[w] = "append"
    PROVE  tail[w].hash = written
<1>1. /\ AuditTypes /\ KnowsTail(w) /\ Sound
      /\ \A g \in 0..Keep : NoneAhead(Generation(g)) /\ Ascending(Generation(g))
      /\ \A g, h \in 0..Keep : g < h => Newer(Generation(g), Generation(h))
      /\ written # 0 => written \in Held
      /\ tail[w].hash <= written
  BY DEF AuditInv, ChainInv, Sound, OrderInv
<1>2. written \in Nat /\ tail[w].hash \in Nat /\ Keep \in Nat /\ 0 \in 0..Keep
  BY <1>1, AuditBounds DEF AuditTypes
<1>3. ASSUME NEW g \in 0..Keep, Generation(g) # << >>,
             \A k \in 0..Keep : k < g => Generation(k) = << >>, written # 0
      PROVE  LastOf(Generation(g)) = written
  <2>1. Len(Generation(g)) \in DOMAIN Generation(g)
    BY <1>1, <1>3, FilesAre
  <2>2. LastOf(Generation(g)) <= written /\ LastOf(Generation(g)) \in Nat
    BY <1>1, <2>1, EntriesAre DEF LastOf, NoneAhead
  <2>3. PICK k \in 0..Keep : written \in HashesIn(Generation(k))
    BY <1>1, <1>3 DEF Held
  <2>4. PICK j \in DOMAIN Generation(k) : Generation(k)[j].hash = written
    BY <2>3 DEF HashesIn
  <2>5. CASE k < g
    <3>1. Generation(k) = << >>
      BY <1>3, <2>5
    <3> QED
      BY <2>4, <3>1
  <2>6. CASE g < k
    <3>1. written < LastOf(Generation(g))
      BY <1>1, <2>1, <2>4, <2>6 DEF Newer, LastOf
    <3> QED
      BY <1>2, <2>2, <3>1
  <2>7. CASE k = g
    <3>1. j = Len(Generation(g)) \/ j < Len(Generation(g))
      BY <1>1, <2>4, <2>7, EntriesAre
    <3>2. CASE j < Len(Generation(g))
      <4>1. written < LastOf(Generation(g))
        BY <1>1, <2>1, <2>4, <2>7, <3>2 DEF Ascending, LastOf
      <4> QED
        BY <1>2, <2>2, <4>1
    <3> QED
      BY <2>4, <2>7, <3>1, <3>2 DEF LastOf
  <2> QED
    BY <1>2, <2>5, <2>6, <2>7
<1>4. CASE written = 0
  BY <1>1, <1>2, <1>4
<1>5. CASE written # 0 /\ active # << >>
  <2>1. LastOf(Generation(0)) = written
    BY <1>2, <1>3, <1>5, GenerationIs
  <2> QED
    BY <1>1, <1>5, <2>1, GenerationIs DEF KnowsTail
<1>6. CASE written # 0 /\ active = << >>
  <2>1. PICK k \in 0..Keep : written \in HashesIn(Generation(k))
    BY <1>1, <1>6 DEF Held
  <2>2. Generation(k) # << >> /\ k # 0
    BY <1>6, <2>1, GenerationIs DEF HashesIn
  <2>3. k \in Behind(0) /\ Behind(0) \in SUBSET Nat
    BY <1>2, <2>2 DEF Behind, Generation
  <2>4. PICK h \in Behind(0) : \A y \in Behind(0) : h <= y
    BY <2>3, LeastIn
  <2>5. h \in 1..Keep /\ rotated[h] # << >> /\ \A y \in 1..h - 1 : rotated[y] = << >>
    BY <1>2, <2>4 DEF Behind
  <2>6. Nearest(0, h) /\ h \in Generations /\ Generation(h) = rotated[h]
    BY <1>2, <2>5 DEF Nearest, Generations, Generation
  <2>7. \A y \in 0..Keep : y < h => Generation(y) = << >>
    BY <1>6, <2>5 DEF Generation
  <2>8. LastOf(Generation(h)) = written
    BY <1>2, <1>3, <1>6, <2>5, <2>6, <2>7
  <2> QED
    BY <1>1, <1>6, <2>6, <2>8 DEF KnowsTail
<1> QED
  BY <1>4, <1>5, <1>6

(* An entry that is in a file is kept, and the other way round.            *)
LEMMA KeptIs ==
    /\ \A e : e \in Kept <=> \E g \in 0..Keep : e \in EntriesIn(Generation(g))
    /\ \A e : e \in Kept' <=> \E g \in 0..Keep : e \in EntriesIn(Generation(g)')
BY DEF Kept, EntriesIn

(* What is written is recorded.                                            *)
LEMMA WriteRecords ==
    ASSUME AuditInv, OrderInv, excuses' = {}, NEW w \in Writers, WriteEntry(w)
    PROVE  Trail!Record
<1>1. PICK e \in Lines :
          /\ e.hash = written + 1 /\ e.prev = tail[w].hash
          /\ active' \in {Append(active, e), Append(active, TornLine)}
          /\ Sound => active' = Append(active, e)
          /\ active' \in Seq(Lines)
          /\ pc[w] = "append" /\ written \in Nat /\ written' = written + 1
          /\ UNCHANGED <<rotated, excuses>>
          /\ \A v \in Writers : tail'[v].hash = IF v = w THEN written + 1 ELSE tail[v].hash
  BY WriteIs
<1>2. active' = Append(active, e) /\ e.prev = written
  BY <1>1, TailIsLast DEF Sound
<1>3. EntriesIn(active') = EntriesIn(active) \cup {[hash |-> written + 1, prev |-> written]}
  <2>1. active \in Seq(Lines)
    BY DEF AuditInv, AuditTypes
  <2>2. PICK n \in Nat : n = Len(active)
    BY <2>1
  <2>3. /\ DOMAIN active = 1..n /\ DOMAIN active' = 1..(n+1)
        /\ \A i \in 1..n : active'[i] = active[i]
        /\ active'[n + 1] = e
    BY <1>2, <2>1, <2>2
  <2>4. \A i \in 1..(n+1) : i = n + 1 \/ i \in 1..n
    OBVIOUS
  <2>5. n + 1 \in 1..(n+1) /\ \A i \in 1..n : i \in 1..(n+1)
    OBVIOUS
  <2>6. \A x : x \in EntriesIn(active') <=>
               \E i \in 1..(n+1) : x = [hash |-> active'[i].hash, prev |-> active'[i].prev]
    BY <2>3 DEF EntriesIn
  <2>7. \A x : x \in EntriesIn(active) <=>
               \E i \in 1..n : x = [hash |-> active[i].hash, prev |-> active[i].prev]
    BY <2>3 DEF EntriesIn
  <2>8. \A x : x \in EntriesIn(active') <=>
               x \in EntriesIn(active) \/ x = [hash |-> written + 1, prev |-> written]
    BY <1>1, <1>2, <2>3, <2>4, <2>5, <2>6, <2>7
  <2> QED
    BY <2>8
<1>4. /\ Generation(0)' = active' /\ Generation(0) = active /\ 0 \in 0..Keep
      /\ \A g \in 1..Keep : Generation(g)' = Generation(g)
      /\ \A g \in 0..Keep : g = 0 \/ g \in 1..Keep
  BY <1>1, AuditBounds DEF Generation
<1>5. \A x : x \in Kept' <=> x \in Kept \/ x = [hash |-> written + 1, prev |-> written]
  BY <1>3, <1>4, KeptIs
<1>6. Kept' = Kept \cup {[hash |-> written + 1, prev |-> written]}
  BY <1>5
<1> QED
  BY <1>1, <1>6 DEF Trail!Record

(* A rotation forgets the oldest file.                                     *)
LEMMA RotationForgets ==
    ASSUME AuditInv, OrderInv, excuses' = {}, NEW w \in Writers, RotateIfNeeded(w),
           ~(Len(active) < RotateAt)
    PROVE  Trail!Forget
<1>1. /\ rotated' = Shift(rotated) /\ active # << >>
      /\ UNCHANGED <<active, tail, written, excuses>>
  BY AuditBounds DEF RotateIfNeeded
<1>2. AuditTypes /\ Keep \in Nat /\ Keep >= 1 /\ active \in Seq(Lines) /\ written \in Nat
  BY AuditBounds DEF AuditInv, AuditTypes
<1>3. /\ Generation(0)' = Generation(0) /\ Generation(1)' = << >>
      /\ \A g \in 2..Keep : g - 1 \in 1..Keep-1 /\ Generation(g)' = Generation(g - 1)
      /\ \A g \in 1..Keep-1 : g + 1 \in 2..Keep /\ Generation(g + 1)' = Generation(g)
      /\ \A g \in 0..Keep : g = 0 \/ g = 1 \/ g \in 2..Keep
  BY <1>1, <1>2, ShiftIs, GenerationIs
<1>4. /\ \A g \in 0..Keep : NoneAhead(Generation(g)) /\ Ascending(Generation(g))
      /\ \A g \in 0..Keep : Untorn(Generation(g))
      /\ \A g, h \in 0..Keep : g < h => Newer(Generation(g), Generation(h))
  BY <1>1 DEF AuditInv, KeepingInv, Sound, OrderInv
<1>5. Keep \in 0..Keep /\ 0 \in 0..Keep /\ 1 \in DOMAIN Generation(0)
  BY <1>1, <1>2, GenerationIs
<1>6. Generation(0)[1].hash \in Nat /\ 0 < Generation(0)[1].hash /\ Generation(0)[1].hash <= written
  BY <1>2, <1>4, <1>5, EntriesAre DEF Untorn, NoEntry, NoneAhead
<1> DEFINE old == IF Generation(Keep) = << >> THEN 0 ELSE LastOf(Generation(Keep))
<1>7. /\ old \in Nat /\ old < written
      /\ \A g \in 0..Keep : g < Keep =>
             \A i \in DOMAIN Generation(g) : old < Generation(g)[i].hash
      /\ \A i \in DOMAIN Generation(Keep) : Generation(Keep)[i].hash <= old
  <2>1. CASE Generation(Keep) = << >>
    <3>1. \A g \in 0..Keep : \A i \in DOMAIN Generation(g) :
              Generation(g)[i].hash \in Nat /\ Generation(g)[i].hash # 0
      BY <1>2, <1>4, EntriesAre DEF Untorn, NoEntry
    <3> QED
      BY <1>2, <1>6, <2>1, <3>1
  <2>2. CASE Generation(Keep) # << >>
    <3>1. Len(Generation(Keep)) \in DOMAIN Generation(Keep)
      BY <1>2, <1>5, <2>2, FilesAre
    <3>2. old = Generation(Keep)[Len(Generation(Keep))].hash /\ old \in Nat
      BY <1>2, <1>5, <2>2, <3>1, EntriesAre DEF LastOf
    <3> HIDE DEF old
    <3>3. \A g \in 0..Keep : g < Keep =>
              \A i \in DOMAIN Generation(g) : old < Generation(g)[i].hash
      BY <1>4, <1>5, <3>1, <3>2 DEF Newer
    <3>4. ASSUME NEW i \in DOMAIN Generation(Keep) PROVE Generation(Keep)[i].hash <= old
      <4>1. i = Len(Generation(Keep)) \/ i < Len(Generation(Keep))
        BY <1>2, <1>5, EntriesAre
      <4>2. Generation(Keep)[i].hash \in Nat
        BY <1>2, <1>5, EntriesAre
      <4>3. i < Len(Generation(Keep)) => Generation(Keep)[i].hash < old
        BY <1>4, <1>5, <3>1, <3>2 DEF Ascending
      <4> QED
        BY <3>2, <4>1, <4>2, <4>3
    <3>5. old < written
      <4>1. old < Generation(0)[1].hash
        BY <1>2, <1>5, <3>3
      <4> QED
        BY <1>2, <1>6, <3>2, <4>1
    <3> QED
      BY <3>2, <3>3, <3>4, <3>5
  <2> QED
    BY <2>1, <2>2
<1> HIDE DEF old
<1>8. ASSUME NEW x \in Kept' PROVE x \in Kept /\ x.hash > old
  <2>1. PICK g \in 0..Keep : x \in EntriesIn(Generation(g)')
    BY KeptIs
  <2>2. PICK k \in 0..Keep : k < Keep /\ x \in EntriesIn(Generation(k))
    <3>1. CASE g = 0
      BY <1>2, <1>3, <2>1, <3>1
    <3>2. CASE g = 1
      BY <1>3, <2>1, <3>2 DEF EntriesIn
    <3>3. CASE g \in 2..Keep
      <4>1. g - 1 \in 0..Keep /\ g - 1 < Keep /\ x \in EntriesIn(Generation(g - 1))
        BY <1>2, <1>3, <2>1, <3>3
      <4> QED
        BY <4>1
    <3> QED
      BY <1>3, <3>1, <3>2, <3>3
  <2>3. PICK i \in DOMAIN Generation(k) : x.hash = Generation(k)[i].hash
    BY <2>2 DEF EntriesIn
  <2> QED
    BY <1>2, <1>7, <2>2, <2>3, EntriesAre, KeptIs
<1>9. ASSUME NEW x \in Kept, x.hash > old PROVE x \in Kept'
  <2>1. PICK g \in 0..Keep : x \in EntriesIn(Generation(g))
    BY KeptIs
  <2>2. PICK i \in DOMAIN Generation(g) : x.hash = Generation(g)[i].hash
    BY <2>1 DEF EntriesIn
  <2>3. g # Keep
    <3>1. SUFFICES ASSUME g = Keep PROVE FALSE
      OBVIOUS
    <3>2. x.hash <= old /\ x.hash \in Nat
      BY <1>2, <1>7, <2>2, <3>1, EntriesAre
    <3> QED
      BY <1>7, <1>9, <3>2
  <2>4. CASE g = 0
    <3>1. x \in EntriesIn(Generation(0)')
      BY <1>3, <2>1, <2>4
    <3> QED
      BY <1>5, <3>1, KeptIs
  <2>5. CASE g \in 1..Keep-1
    <3>1. g + 1 \in 0..Keep /\ x \in EntriesIn(Generation(g + 1)')
      BY <1>2, <1>3, <2>1, <2>5
    <3> QED
      BY <3>1, KeptIs
  <2> QED
    BY <1>2, <2>3, <2>4, <2>5
<1>10. Kept' = {x \in Kept : x.hash > old}
  BY <1>8, <1>9
<1>11. old \in 0..written
  BY <1>2, <1>7
<1> QED
  BY <1>1, <1>7, <1>10, <1>11 DEF Trail!Forget

(* The rename behind it moves entries, and nothing else.                   *)
LEMMA RenameStutters ==
    ASSUME AuditInv, OrderInv, excuses' = {}, NEW w \in Writers, RenameActive(w), active # << >>
    PROVE  UNCHANGED <<Kept, written>>
<1>1. /\ Generation(0)' = << >> /\ Generation(1)' = Generation(0)
      /\ \A g \in 2..Keep : Generation(g)' = Generation(g)
      /\ 1 \in 0..Keep /\ \A g \in 0..Keep : g = 0 \/ g = 1 \/ g \in 2..Keep
      /\ Sound => Generation(1) = << >>
      /\ UNCHANGED <<written, excuses>>
      /\ \A v \in Writers : tail'[v].hash = tail[v].hash
  BY RenameIs
<1>2. 0 \in 0..Keep /\ Generation(1) = << >> /\ EntriesIn(<< >>) = {}
  <2>1. excuses = {}
    BY <1>1
  <2>2. Sound
    BY <2>1 DEF Sound
  <2>3. 0 \in 0..Keep
    BY AuditBounds
  <2>4. EntriesIn(<< >>) = {}
    BY DEF EntriesIn
  <2> QED
    BY <1>1, <2>2, <2>3, <2>4
<1>3. \A x : x \in Kept' <=> x \in Kept
  BY <1>1, <1>2, KeptIs
<1> QED
  BY <1>1, <1>3

-----------------------------------------------------------------------------
(* Every step keeps the order, and while nothing has happened changes the  *)
(* log at its ends.                                                        *)
LEMMA LogEvolves ==
    ASSUME AuditInv, OrderInv, [AuditNext]_auditVars
    PROVE  /\ OrderInv'
           /\ excuses' = {} => excuses = {} /\ [Trail!Evolve]_<<Kept, written>>
<1>1. UNCHANGED <<active, rotated, written>> => UNCHANGED <<Kept, written>>
  BY FilesStay DEF Kept, EntriesIn
<1>2. ASSUME NEW w \in Writers, RotateIfNeeded(w), ~(Len(active) < RotateAt)
      PROVE  OrderInv' /\ (excuses' = {} => excuses = {} /\ Trail!Forget)
  <2>1. excuses' = excuses
    BY <1>2 DEF RotateIfNeeded
  <2> QED
    BY <1>2, <2>1, ShiftStaysInOrder, RotationForgets
<1>3. ASSUME NEW w \in Writers, RenameActive(w), active # << >>
      PROVE  OrderInv' /\ (excuses' = {} => excuses = {} /\ UNCHANGED <<Kept, written>>)
  <2>1. excuses' = excuses
    BY <1>3 DEF RenameActive, auditHistory
  <2> QED
    BY <1>3, <2>1, RenameStaysInOrder, RenameStutters
<1>4. ASSUME NEW w \in Writers, WriteEntry(w)
      PROVE  OrderInv' /\ (excuses' = {} => excuses = {} /\ Trail!Record)
  <2>1. excuses' = excuses
    BY <1>4 DEF WriteEntry
  <2> QED
    BY <1>4, <2>1, WriteStaysInOrder, WriteRecords
<1>5. ASSUME NEW w \in Writers, WriteFails(w, TRUE) PROVE OrderInv' /\ excuses' # {}
  BY <1>5, TornStaysInOrder
<1>6. ASSUME NEW w \in Writers,
             \/ BeginAppend(w) \/ LoadKey(w) \/ GenerateKey(w) \/ ReadTail(w) \/ StatTail(w)
             \/ TakeLock(w) \/ LockExists(w) \/ ReadHolder(w) \/ Reclaim(w) \/ GivesUp(w)
             \/ WritePid(w) \/ Release(w) \/ RefreshTailState(w) \/ Crash(w)
             \/ WriteFails(w, FALSE)
             \/ RotateIfNeeded(w) /\ Len(active) < RotateAt
             \/ RenameActive(w) /\ active = << >>
      PROVE  /\ OrderInv' /\ UNCHANGED <<Kept, written>>
             /\ excuses' = {} => excuses = {}
  <2>1. OrderInv' /\ UNCHANGED <<active, rotated, written>>
    BY <1>6, QuietStaysInOrder
  <2>2. excuses' = {} => excuses = {}
    BY <1>6 DEF BeginAppend, LoadKey, GenerateKey, ReadTail, StatTail, TakeLock, LockExists,
                ReadHolder, Reclaim, GivesUp, WritePid, Release, RefreshTailState, Crash,
                WriteFails, RotateIfNeeded, RenameActive, Excused, auditHistory
  <2> QED
    BY <1>1, <2>1, <2>2
<1>7. CASE UNCHANGED auditVars
  <2>1. UNCHANGED <<active, rotated, written, tail, excuses>>
    BY <1>7 DEF auditVars, auditFiles, auditMemory, auditHistory
  <2>2. OrderInv'
    BY <2>1, OrderStays DEF OrderInv
  <2> QED
    BY <1>1, <2>1, <2>2
<1>8. CASE AuditNext
  <2>1. PICK w \in Writers :
          \/ BeginAppend(w) \/ LoadKey(w) \/ GenerateKey(w) \/ ReadTail(w) \/ StatTail(w)
          \/ TakeLock(w) \/ LockExists(w) \/ ReadHolder(w) \/ Reclaim(w) \/ GivesUp(w)
          \/ WritePid(w) \/ Release(w)
          \/ RefreshTailState(w) \/ RotateIfNeeded(w) \/ RenameActive(w) \/ WriteEntry(w)
          \/ WriteFails(w, FALSE) \/ WriteFails(w, TRUE)
          \/ Crash(w)
    BY <1>8 DEF AuditNext
  <2> QED
    BY <1>2, <1>3, <1>4, <1>5, <1>6, <2>1 DEF Trail!Evolve
<1> QED
  BY <1>7, <1>8

(* As long as nothing has happened that breaks the chain, a log of any     *)
(* number of writers and generations changes as EvidenceLog does: an entry *)
(* is added behind the last and linked to it, or the oldest are forgotten  *)
(* (audit-log.ts:1-42, 244-321, 427-483).                                  *)
THEOREM LogGrowsAtItsEnd == AuditSpec => ImplementsEvidence
<1> DEFINE LogInv == AuditInv /\ OrderInv
           Step == excuses' = {} => [Trail!Evolve]_<<Kept, written>>
<1>1. AuditInit => LogInv
  BY AuditInvInit, OrderInit
<1>2. LogInv /\ [AuditNext]_auditVars => LogInv' /\ Step
  BY AuditInvNext, LogEvolves
<1>3. AuditInit => Trail!Begin
  <2>1. AuditInit => \A g \in 0..Keep : Generation(g) = << >>
    BY AuditBounds DEF AuditInit, Generation, Generations
  <2> QED
    BY <2>1 DEF AuditInit, Trail!Begin, Kept, EntriesIn
<1> HIDE DEF LogInv, Step
<1>4. LogInv /\ [AuditNext]_auditVars => [Step]_auditVars
  BY <1>2
<1>5. AuditSpec => [][Step]_auditVars
  BY <1>1, <1>2, <1>4, PTL DEF AuditSpec
<1>6. AuditSpec => Trail!Begin
  BY <1>3 DEF AuditSpec
<1> QED
  BY <1>5, <1>6 DEF ImplementsEvidence, Step

(* Both together: what can be read is evidence, and grows as such          *)
(* (audit-log.ts:1-46).                                                    *)
THEOREM EvidenceStays == AuditSpec => EvidenceIsKept
BY LogStaysEvidence, LogGrowsAtItsEnd DEF EvidenceIsKept

(* A log to which none of it ever happens implements EvidenceLog.          *)
THEOREM SoundLogIsEvidence == AuditSpec /\ [](excuses = {}) => Trail!Evidence
<1>1. AuditInit => AuditInv /\ OrderInv /\ Trail!Begin
  <2>1. AuditInit => \A g \in 0..Keep : Generation(g) = << >>
    BY AuditBounds DEF AuditInit, Generation, Generations
  <2> QED
    BY <2>1, AuditInvInit, OrderInit DEF AuditInit, Trail!Begin, Kept, EntriesIn
<1>2. (AuditInv /\ OrderInv) /\ [AuditNext]_auditVars => (AuditInv /\ OrderInv)'
  BY AuditInvNext, LogEvolves
<1>3. /\ AuditInv /\ OrderInv /\ [AuditNext]_auditVars /\ (excuses = {})'
      => [Trail!Evolve]_(Trail!evidenceVars)
  BY LogEvolves DEF Trail!evidenceVars
<1> QED
  BY <1>1, <1>2, <1>3, PTL DEF AuditSpec, Trail!Evidence

(* Such a log has no gap: from any entry that can be read on to the last,  *)
(* each is there and linked to the one before.                             *)
THEOREM SoundLogIsUnbroken == AuditSpec => [](excuses = {} => Trail!Unbroken)
<1> DEFINE Whole == excuses = {} => Trail!Unbroken
<1>1. AuditInit => AuditInv /\ OrderInv /\ Whole
  <2>1. AuditInit => \A g \in 0..Keep : Generation(g) = << >>
    BY AuditBounds DEF AuditInit, Generation, Generations
  <2> QED
    BY <2>1, AuditInvInit, OrderInit DEF Trail!Unbroken, Kept, EntriesIn
<1>2. ASSUME AuditInv, OrderInv, Whole, [AuditNext]_auditVars, excuses' = {} PROVE Trail!Unbroken'
  <2>1. Trail!Unbroken /\ [Trail!Evolve]_<<Kept, written>>
    BY <1>2, LogEvolves
  <2>2. written \in Nat /\ \A e \in Kept : e.hash \in Nat
    <3>1. written \in Nat /\ AuditTypes
      BY <1>2 DEF AuditInv, AuditTypes
    <3>2. ASSUME NEW e \in Kept PROVE e.hash \in Nat
      <4>1. PICK g \in 0..Keep : e \in EntriesIn(Generation(g))
        BY DEF Kept
      <4>2. PICK i \in DOMAIN Generation(g) :
                e = [hash |-> Generation(g)[i].hash, prev |-> Generation(g)[i].prev]
        BY <4>1 DEF EntriesIn
      <4>3. Generation(g)[i].hash \in Nat
        BY <3>1, EntriesAre
      <4> QED
        BY <4>2, <4>3
    <3> QED
      BY <3>1, <3>2
  <2>3. CASE UNCHANGED <<Kept, written>>
    BY <2>1, <2>3 DEF Trail!Unbroken
  <2>4. CASE Trail!Record
    <3>1. written' = written + 1 /\ Kept' = Kept \cup {[hash |-> written + 1, prev |-> written]}
      BY <2>4 DEF Trail!Record
    <3>2. ASSUME NEW e \in Kept' PROVE e.hash <= written + 1 /\ e.hash \in Nat
      BY <2>1, <2>2, <3>1 DEF Trail!Unbroken
    <3>3. ASSUME NEW e \in Kept', NEW n \in e.hash..written + 1
          PROVE  [hash |-> n, prev |-> n - 1] \in Kept'
      <4>1. CASE n = written + 1
        <5>1. n - 1 = written
          BY <2>2, <4>1
        <5> QED
          BY <3>1, <4>1, <5>1
      <4>2. CASE n # written + 1
        <5>1. n \in e.hash..written /\ e.hash # written + 1
          BY <2>2, <3>2, <3>3, <4>2
        <5>2. e \in Kept
          BY <3>1, <5>1
        <5> QED
          BY <2>1, <3>1, <5>1, <5>2 DEF Trail!Unbroken
      <4> QED
        BY <4>1, <4>2
    <3> QED
      BY <3>1, <3>2, <3>3 DEF Trail!Unbroken
  <2>5. CASE Trail!Forget
    <3>1. PICK old \in 0..written : Kept' = {e \in Kept : e.hash > old} /\ written' = written
      BY <2>5 DEF Trail!Forget
    <3>2. ASSUME NEW e \in Kept', NEW n \in e.hash..written
          PROVE  [hash |-> n, prev |-> n - 1] \in Kept'
      <4>1. e \in Kept /\ e.hash > old /\ e.hash \in Nat
        BY <2>2, <3>1
      <4>2. [hash |-> n, prev |-> n - 1] \in Kept /\ n > old
        BY <2>1, <2>2, <3>1, <3>2, <4>1 DEF Trail!Unbroken
      <4> QED
        BY <3>1, <4>2
    <3> QED
      BY <2>1, <3>1, <3>2 DEF Trail!Unbroken
  <2> QED
    BY <2>1, <2>3, <2>4, <2>5 DEF Trail!Evolve
<1>3. AuditInv /\ OrderInv /\ Whole /\ [AuditNext]_auditVars => (AuditInv /\ OrderInv /\ Whole)'
  BY <1>2, AuditInvNext, LogEvolves
<1> QED
  BY <1>1, <1>3, PTL DEF AuditSpec
===============================================================================

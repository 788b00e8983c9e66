----------------------- MODULE DaemonSupervisor_proofs -----------------------
(***************************************************************************)
(* Proofs about DaemonSupervisor, for every set of connections and         *)
(* profiles, every bound on the epochs and, except where the theorem says  *)
(* so, both with and without pipelined chunks.                             *)
(*                                                                         *)
(* None of the properties is inductive alone: that a stopped session holds *)
(* no services depends on the epoch test of the overtaken boot, on stop()  *)
(* waiting for the boot it overtook, and on start() refusing every status  *)
(* but "stopped".  Stage says, for every status, which boots exist and     *)
(* where the one bundle of services is; the rest follows from it.          *)
(***************************************************************************)
EXTENDS DaemonSupervisor, TLAPS

(* Nothing boots, nothing is being torn down.                              *)
Idle == /\ discarding = {}
        /\ stopPc = "idle"
        /\ taken = 0

StoppedStage ==
    status = "stopped" => Idle /\ booting = {} /\ live = {} /\ wired = 0

StartingStage ==
    status = "starting" =>
        /\ Idle /\ live = {} /\ wired = 0
        /\ booting = {bootEpoch}
        /\ bootInFlight = bootEpoch
        /\ bootEpoch # 0

RunningStage ==
    status = "running" =>
        /\ Idle /\ booting = {}
        /\ wired = bootEpoch
        /\ live = {wired}
        /\ bootEpoch # 0

(* stop() waits for the boot: it is still running, on its way out, gone,   *)
(* or had already been wired.                                              *)
JoiningStage ==
    stopPc = "join" =>
        /\ status = "stopping" /\ taken = 0
        /\ \/ wired = 0 /\ live = discarding /\ discarding \in {{}, {bootInFlight}}
              /\ booting \in {{}, {bootInFlight}}
              /\ (booting = {} \/ discarding = {})
              /\ bootInFlight # 0 /\ bootInFlight # bootEpoch
           \/ wired # 0 /\ live = {wired} /\ booting = {} /\ discarding = {}

DisposingStage ==
    stopPc = "dispose" =>
        /\ status = "stopping" /\ taken # 0 /\ live = {taken}
        /\ booting = {} /\ discarding = {} /\ wired = 0

StoppingStage ==
    status = "stopping" => stopPc \in {"join", "dispose"}

Stage == /\ StoppedStage
         /\ StartingStage
         /\ RunningStage
         /\ JoiningStage
         /\ DisposingStage
         /\ StoppingStage

IInv == TypeOK /\ Stage

(* The invariant holds of a supervisor without a session.                  *)
LEMMA InitIInv == Init => IInv
  <1> SUFFICES ASSUME Init
               PROVE  IInv
    OBVIOUS
  <1>1. TypeOK
    BY DEF Init, TypeOK
  <1>2. Stage
    BY DEF Init, Stage, Idle, StoppedStage, StartingStage, RunningStage,
           JoiningStage, DisposingStage, StoppingStage
  <1>3. QED
    BY <1>1, <1>2 DEF IInv

(* Every step keeps the types.                                             *)
LEMMA NextTypeOK == TypeOK /\ [Next]_vars => TypeOK'
  <1> SUFFICES ASSUME TypeOK, [Next]_vars
               PROVE  TypeOK'
    OBVIOUS
  <1> USE DEF TypeOK, session, boots, teardown
  <1>1. ASSUME NEW p \in Profiles, Start(p)
      PROVE  TypeOK'
    BY <1>1 DEF Start, BeginBoot
  <1>2. ASSUME NEW c \in Conns, NEW p \in Profiles, AttachFirst(c, p)
      PROVE  TypeOK'
    <2>1. BeginBoot(p) /\ resuming' = c /\ bare' = FALSE /\ UNCHANGED attached
      BY <1>2 DEF AttachFirst
    <2>2. /\ asked' \in [Conns -> Profiles \cup {NoProfile}]
          /\ resuming' \in Conns \cup {NoConn}
          /\ bare' \in BOOLEAN
      BY <1>2 DEF AttachFirst
    <2>3. QED
      BY <2>1, <2>2 DEF BeginBoot
  <1>3. CASE AttachResume
    BY <1>3 DEF AttachResume
  <1>4. ASSUME NEW c \in Conns, NEW p \in Profiles, AttachJoin(c, p)
      PROVE  TypeOK'
    BY <1>4 DEF AttachJoin
  <1>5. ASSUME NEW c \in Conns, Release(c)
      PROVE  TypeOK'
    <2>1. CASE BeginStop
      BY <1>5, <2>1 DEF Release, BeginStop
    <2>2. CASE attached' = attached \ {c} /\ UNCHANGED <<session, wired, boots, live, teardown>>
      BY <1>5, <2>2 DEF Release
    <2>3. QED
      BY <1>5, <2>1, <2>2 DEF Release
  <1>6. CASE Stop
    <2>1. CASE BeginStop
      BY <1>6, <2>1 DEF Stop, BeginStop
    <2>2. CASE attached' = {} /\ UNCHANGED <<session, wired, boots, live, teardown>>
      BY <1>6, <2>2 DEF Stop
    <2>3. QED
      BY <1>6, <2>1, <2>2 DEF Stop
  <1>7. CASE StopJoined
    BY <1>7 DEF StopJoined
  <1>8. CASE StopDisposed
    BY <1>8 DEF StopDisposed
  <1>9. ASSUME NEW e \in Epochs, BootReady(e)
      PROVE  TypeOK'
    BY <1>9 DEF BootReady
  <1>10. ASSUME NEW e \in Epochs, BootOvertaken(e)
       PROVE  TypeOK'
    BY <1>10 DEF BootOvertaken
  <1>11. ASSUME NEW e \in Epochs, BootDiscarded(e)
       PROVE  TypeOK'
    BY <1>11 DEF BootDiscarded
  <1>12. ASSUME NEW e \in Epochs, BootFail(e)
       PROVE  TypeOK'
    <2>1. CASE e = bootEpoch
      BY <1>12, <2>1 DEF BootFail
    <2>2. CASE e # bootEpoch
      BY <1>12, <2>2 DEF BootFail
    <2>3. QED
      BY <2>1, <2>2
  <1>13. CASE UNCHANGED vars
    BY <1>13 DEF vars
  <1>14. QED
    BY <1>1, <1>2, <1>3, <1>4, <1>5, <1>6, <1>7, <1>8, <1>9, <1>10, <1>11, <1>12, <1>13
    DEF Next, Settle

(* Every step keeps the tie between the status and the boot or teardown    *)
(* that is under way.                                                      *)
LEMMA NextStage == IInv /\ [Next]_vars => Stage'
  <1> SUFFICES ASSUME IInv, [Next]_vars
               PROVE  Stage'
    OBVIOUS
  <1> USE DEF Stage, Idle, StoppedStage, StartingStage,
              RunningStage, JoiningStage, DisposingStage, StoppingStage,
              session, boots, teardown, Quiet
  <1> /\ bootEpoch \in Nat
      /\ status \in {"stopped", "starting", "running", "stopping"}
    BY DEF IInv, TypeOK
  <1> Stage
    BY DEF IInv
  <1>1. ASSUME NEW p \in Profiles, Start(p)
      PROVE  Stage'
    BY <1>1 DEF Start, BeginBoot
  <1>2. ASSUME NEW c \in Conns, NEW p \in Profiles, AttachFirst(c, p)
      PROVE  Stage'
    BY <1>2 DEF AttachFirst, BeginBoot
  <1>3. CASE AttachResume
    BY <1>3 DEF AttachResume
  <1>4. ASSUME NEW c \in Conns, NEW p \in Profiles, AttachJoin(c, p)
      PROVE  Stage'
    BY <1>4 DEF AttachJoin
  <1>5. ASSUME NEW c \in Conns, Release(c)
      PROVE  Stage'
    <2>1. CASE BeginStop
      BY <1>5, <2>1 DEF Release, BeginStop
    <2>2. CASE attached' = attached \ {c} /\ UNCHANGED <<session, wired, boots, live, teardown>>
      BY <1>5, <2>2 DEF Release
    <2>3. QED
      BY <1>5, <2>1, <2>2 DEF Release
  <1>6. CASE Stop
    <2>1. CASE BeginStop
      BY <1>6, <2>1 DEF Stop, BeginStop
    <2>2. CASE attached' = {} /\ UNCHANGED <<session, wired, boots, live, teardown>>
      BY <1>6, <2>2 DEF Stop
    <2>3. QED
      BY <1>6, <2>1, <2>2 DEF Stop
  <1>7. CASE StopJoined
    BY <1>7 DEF StopJoined
  <1>8. CASE StopDisposed
    BY <1>8 DEF StopDisposed
  <1>9. ASSUME NEW e \in Epochs, BootReady(e)
      PROVE  Stage'
    <2>1. status = "starting"
      BY <1>9 DEF BootReady
    <2>2. booting' = {} /\ live' = {e}
      BY <1>9, <2>1 DEF BootReady
    <2>3. QED
      BY <1>9, <2>1, <2>2 DEF BootReady
  <1>10. ASSUME NEW e \in Epochs, BootOvertaken(e)
       PROVE  Stage'
    BY <1>10 DEF BootOvertaken
  <1>11. ASSUME NEW e \in Epochs, BootDiscarded(e)
       PROVE  Stage'
    BY <1>11 DEF BootDiscarded
  <1>12. ASSUME NEW e \in Epochs, BootFail(e)
       PROVE  Stage'
    <2>1. CASE e = bootEpoch
      <3>1. status = "starting"
        BY <1>12, <2>1 DEF BootFail
      <3>2. booting' = {}
        BY <1>12, <2>1, <3>1 DEF BootFail
      <3>3. QED
        BY <1>12, <2>1, <3>1, <3>2 DEF BootFail
    <2>2. CASE e # bootEpoch
      BY <1>12, <2>2 DEF BootFail
    <2>3. QED
      BY <2>1, <2>2
  <1>13. CASE UNCHANGED vars
    BY <1>13 DEF vars
  <1>14. QED
    BY <1>1, <1>2, <1>3, <1>4, <1>5, <1>6, <1>7, <1>8, <1>9, <1>10, <1>11, <1>12, <1>13
    DEF Next, Settle

(* Every step keeps the invariant.                                         *)
LEMMA NextIInv == IInv /\ [Next]_vars => IInv'
  BY NextTypeOK, NextStage DEF IInv

(* The invariant holds in every state.                                     *)
THEOREM Inductive == Safety => []IInv
  BY InitIInv, NextIInv, PTL DEF Safety

(* Every variable keeps its type.                                          *)
THEOREM TypeCorrect == Safety => []TypeOK
  <1>1. IInv => TypeOK
    BY DEF IInv
  <1>2. QED
    BY Inductive, <1>1, PTL

(* NoOrphanServices: what was booted and not disposed of is the session's  *)
(* or on its way out, and a stopped session has nothing.                   *)
THEOREM NoServicesOrphaned == Safety => []NoOrphanServices
  <1>1. IInv => NoOrphanServices
    <2> SUFFICES ASSUME IInv
                 PROVE  NoOrphanServices
      OBVIOUS
    <2> USE DEF IInv, TypeOK, Stage, Idle, NoOrphanServices
    <2>1. CASE status = "stopped"
      BY <2>1 DEF StoppedStage
    <2>2. CASE status = "starting"
      BY <2>2 DEF StartingStage
    <2>3. CASE status = "running"
      BY <2>3 DEF RunningStage
    <2>4. CASE status = "stopping" /\ stopPc = "join"
      BY <2>4 DEF JoiningStage
    <2>5. CASE status = "stopping" /\ stopPc = "dispose"
      BY <2>5 DEF DisposingStage
    <2>6. QED
      BY <2>1, <2>2, <2>3, <2>4, <2>5 DEF StoppingStage
  <1>2. QED
    BY Inductive, <1>1, PTL

(* OneBootAtATime: boots and live services exclude each other, so the      *)
(* ports and children of the worktree are never contended for.             *)
THEOREM BootsExclusive == Safety => []OneBootAtATime
  <1>1. IInv => OneBootAtATime
    <2> SUFFICES ASSUME IInv
                 PROVE  OneBootAtATime
      OBVIOUS
    <2> USE DEF IInv, TypeOK, Stage, Idle, OneBootAtATime
    <2>1. CASE status = "stopped"
      BY <2>1 DEF StoppedStage
    <2>2. CASE status = "starting"
      BY <2>2 DEF StartingStage
    <2>3. CASE status = "running"
      BY <2>3 DEF RunningStage
    <2>4. CASE status = "stopping" /\ stopPc = "join"
      BY <2>4 DEF JoiningStage
    <2>5. CASE status = "stopping" /\ stopPc = "dispose"
      BY <2>5 DEF DisposingStage
    <2>6. QED
      BY <2>1, <2>2, <2>3, <2>4, <2>5 DEF StoppingStage
  <1>2. QED
    BY Inductive, <1>1, PTL

(* Only the boot of a "starting" session has the current epoch: every      *)
(* stop() takes the epoch away from the boot it overtakes.                 *)
LEMMA CurrentBoot ==
  ASSUME IInv, NEW e \in booting, e = bootEpoch
  PROVE  status = "starting"
  BY DEF IInv, TypeOK, Stage, Idle, StoppedStage, RunningStage, JoiningStage,
         DisposingStage, StoppingStage

(* The reference count.                                                    *)
LEMMA NextRefcount ==
  IInv /\ RefcountHoldsSession /\ [Next]_vars => RefcountHoldsSession'
  <1> SUFFICES ASSUME IInv, RefcountHoldsSession, [Next]_vars
               PROVE  RefcountHoldsSession'
    OBVIOUS
  <1> USE DEF RefcountHoldsSession, Quiet, session
  <1>1. ASSUME NEW p \in Profiles, Start(p)
      PROVE  RefcountHoldsSession'
    BY <1>1 DEF Start, BeginBoot
  <1>2. ASSUME NEW c \in Conns, NEW p \in Profiles, AttachFirst(c, p)
      PROVE  RefcountHoldsSession'
    BY <1>2, NoConnAssumption DEF AttachFirst, BeginBoot
  <1>3. CASE AttachResume
    BY <1>3 DEF AttachResume
  <1>4. ASSUME NEW c \in Conns, NEW p \in Profiles, AttachJoin(c, p)
      PROVE  RefcountHoldsSession'
    BY <1>4 DEF AttachJoin
  <1>5. ASSUME NEW c \in Conns, Release(c)
      PROVE  RefcountHoldsSession'
    BY <1>5 DEF Release, BeginStop
  <1>6. CASE Stop
    BY <1>6 DEF Stop, BeginStop
  <1>7. CASE StopJoined
    BY <1>7 DEF StopJoined
  <1>8. CASE StopDisposed
    BY <1>8 DEF StopDisposed
  <1>9. ASSUME NEW e \in Epochs, BootReady(e)
      PROVE  RefcountHoldsSession'
    BY <1>9, CurrentBoot DEF BootReady
  <1>10. ASSUME NEW e \in Epochs, BootOvertaken(e)
       PROVE  RefcountHoldsSession'
    BY <1>10 DEF BootOvertaken
  <1>11. ASSUME NEW e \in Epochs, BootDiscarded(e)
       PROVE  RefcountHoldsSession'
    BY <1>11 DEF BootDiscarded
  <1>12. ASSUME NEW e \in Epochs, BootFail(e)
       PROVE  RefcountHoldsSession'
    BY <1>12, CurrentBoot DEF BootFail
  <1>13. CASE UNCHANGED vars
    BY <1>13 DEF vars
  <1>14. QED
    BY <1>1, <1>2, <1>3, <1>4, <1>5, <1>6, <1>7, <1>8, <1>9, <1>10, <1>11, <1>12, <1>13
    DEF Next, Settle

(* RefcountHoldsSession: a session that came up by attach() never boots or *)
(* runs with nobody attached.                                              *)
THEOREM RefcountKept == Safety => []RefcountHoldsSession
  <1>1. Init => RefcountHoldsSession
    BY DEF Init, RefcountHoldsSession
  <1>2. QED
    BY Inductive, <1>1, NextRefcount, PTL DEF Safety

-----------------------------------------------------------------------------
(* What a connection was promised, when nobody pipelines: the attach() that *)
(* awaits start() finds the session still booting, for the profile it      *)
(* asked for.                                                              *)
Window ==
    /\ resuming # NoConn => status = "starting" /\ asked[resuming] = activeProfile
    /\ status \in {"starting", "running"} => activeProfile \in Profiles

Promise == Window /\ AttachersAgree /\ NobodyAttachedWhenDown

(* Without pipelined chunks every step keeps what attachers were promised. *)
LEMMA NextPromise ==
  ~Pipelined /\ IInv /\ Promise /\ [Next]_vars => Promise'
  <1> SUFFICES ASSUME ~Pipelined, IInv, Promise, [Next]_vars
               PROVE  Promise'
    OBVIOUS
  <1> USE DEF Promise, Window, AttachersAgree, NobodyAttachedWhenDown, Quiet,
              session
  <1> TypeOK
    BY DEF IInv
  <1>1. ASSUME NEW p \in Profiles, Start(p)
      PROVE  Promise'
    BY <1>1 DEF Start, BeginBoot
  <1>2. ASSUME NEW c \in Conns, NEW p \in Profiles, AttachFirst(c, p)
      PROVE  Promise'
    <2>1. attached = {} /\ c # NoConn /\ asked'[c] = p
      BY <1>2, NoConnAssumption DEF AttachFirst, BeginBoot, TypeOK
    <2>2. QED
      BY <1>2, <2>1 DEF AttachFirst, BeginBoot
  <1>3. CASE AttachResume
    BY <1>3 DEF AttachResume
  <1>4. ASSUME NEW c \in Conns, NEW p \in Profiles, AttachJoin(c, p)
      PROVE  Promise'
    <2>1. activeProfile = p
      BY <1>4, NoProfileAssumption DEF AttachJoin
    <2>2. asked'[c] = p /\ \A d \in attached \ {c} : asked'[d] = asked[d]
      BY <1>4 DEF AttachJoin, TypeOK
    <2>3. QED
      BY <1>4, <2>1, <2>2 DEF AttachJoin
  <1>5. ASSUME NEW c \in Conns, Release(c)
      PROVE  Promise'
    BY <1>5 DEF Release, BeginStop
  <1>6. CASE Stop
    BY <1>6 DEF Stop, BeginStop
  <1>7. CASE StopJoined
    <2>1. status = "stopping"
      BY <1>7 DEF StopJoined, IInv, Stage, JoiningStage
    <2>2. QED
      BY <1>7, <2>1 DEF StopJoined
  <1>8. CASE StopDisposed
    <2>1. status = "stopping"
      BY <1>8 DEF StopDisposed, IInv, Stage, DisposingStage
    <2>2. QED
      BY <1>8, <2>1 DEF StopDisposed
  <1>9. ASSUME NEW e \in Epochs, BootReady(e)
      PROVE  Promise'
    BY <1>9, CurrentBoot DEF BootReady
  <1>10. ASSUME NEW e \in Epochs, BootOvertaken(e)
       PROVE  Promise'
    BY <1>10 DEF BootOvertaken
  <1>11. ASSUME NEW e \in Epochs, BootDiscarded(e)
       PROVE  Promise'
    BY <1>11 DEF BootDiscarded
  <1>12. ASSUME NEW e \in Epochs, BootFail(e)
       PROVE  Promise'
    BY <1>12, CurrentBoot DEF BootFail
  <1>13. CASE UNCHANGED vars
    BY <1>13 DEF vars
  <1>14. QED
    BY <1>1, <1>2, <1>3, <1>4, <1>5, <1>6, <1>7, <1>8, <1>9, <1>10, <1>11, <1>12, <1>13
    DEF Next, Settle

(* Without pipelined chunks what attachers were promised holds always.     *)
LEMMA PromiseKept ==
  ASSUME ~Pipelined
  PROVE  Safety => []Promise
  <1>0. IInv /\ Promise /\ [Next]_vars => Promise'
    BY NextPromise
  <1>1. Init => Promise
    BY DEF Init, Promise, Window, AttachersAgree, NobodyAttachedWhenDown
  <1>2. QED
    BY Inductive, <1>0, <1>1, PTL DEF Safety

(* AttachersAgree: without pipelined chunks, nobody is attached to another *)
(* profile's session.                                                      *)
THEOREM NobodyMisled ==
  ASSUME ~Pipelined
  PROVE  Safety => []AttachersAgree
  <1>1. Promise => AttachersAgree
    BY DEF Promise
  <1>2. QED
    BY PromiseKept, <1>1, PTL

(* NobodyAttachedWhenDown: without pipelined chunks, no entry survives the *)
(* session it was attached to.                                             *)
THEOREM NoStaleEntry ==
  ASSUME ~Pipelined
  PROVE  Safety => []NobodyAttachedWhenDown
  <1>1. Promise => NobodyAttachedWhenDown
    BY DEF Promise
  <1>2. QED
    BY PromiseKept, <1>1, PTL

-----------------------------------------------------------------------------
(* Every step is a step of the ladder, or leaves it where it is.           *)
LEMMA NextLadder ==
  IInv /\ [Next]_vars => [Ladder!Next]_(Ladder!vars)
  <1> SUFFICES ASSUME IInv, [Next]_vars
               PROVE  [Ladder!Next]_(Ladder!vars)
    OBVIOUS
  <1> USE DEF Ladder!Next, Ladder!vars, Ladder!Begin, Ladder!Ready, Ladder!Fail,
              Ladder!Halt, Ladder!Materialise, Ladder!Discard, Ladder!Halted,
              session, boots, teardown
  <1> Stage /\ TypeOK
    BY DEF IInv
  <1> USE DEF Stage, Idle, StoppedStage, JoiningStage, DisposingStage
  <1>1. ASSUME NEW p \in Profiles, Start(p)
      PROVE  [Ladder!Next]_(Ladder!vars)
    BY <1>1 DEF Start, BeginBoot
  <1>2. ASSUME NEW c \in Conns, NEW p \in Profiles, AttachFirst(c, p)
      PROVE  [Ladder!Next]_(Ladder!vars)
    BY <1>2 DEF AttachFirst, BeginBoot
  <1>3. CASE AttachResume
    BY <1>3 DEF AttachResume
  <1>4. ASSUME NEW c \in Conns, NEW p \in Profiles, AttachJoin(c, p)
      PROVE  [Ladder!Next]_(Ladder!vars)
    BY <1>4 DEF AttachJoin
  <1>5. ASSUME NEW c \in Conns, Release(c)
      PROVE  [Ladder!Next]_(Ladder!vars)
    BY <1>5 DEF Release, BeginStop
  <1>6. CASE Stop
    BY <1>6 DEF Stop, BeginStop
  <1>7. CASE StopJoined
    BY <1>7 DEF StopJoined
  <1>8. CASE StopDisposed
    BY <1>8 DEF StopDisposed
  <1>9. ASSUME NEW e \in Epochs, BootReady(e)
      PROVE  [Ladder!Next]_(Ladder!vars)
    <2>1. status = "starting" /\ live' # {}
      BY <1>9, CurrentBoot DEF BootReady
    <2>2. QED
      BY <1>9, <2>1 DEF BootReady
  <1>10. ASSUME NEW e \in Epochs, BootOvertaken(e)
       PROVE  [Ladder!Next]_(Ladder!vars)
    <2>1. status = "stopping" /\ live = {} /\ live' # {}
      BY <1>10 DEF BootOvertaken, StartingStage, RunningStage, StoppingStage,
                   TypeOK
    <2>2. QED
      BY <1>10, <2>1 DEF BootOvertaken
  <1>11. ASSUME NEW e \in Epochs, BootDiscarded(e)
       PROVE  [Ladder!Next]_(Ladder!vars)
    <2>1. status = "stopping" /\ live = {e} /\ live' = {}
      BY <1>11 DEF BootDiscarded, StartingStage, RunningStage, StoppingStage,
                   TypeOK
    <2>2. QED
      BY <1>11, <2>1 DEF BootDiscarded
  <1>12. ASSUME NEW e \in Epochs, BootFail(e)
       PROVE  [Ladder!Next]_(Ladder!vars)
    <2>1. CASE e = bootEpoch
      <3>1. status = "starting"
        BY <1>12, <2>1, CurrentBoot DEF BootFail
      <3>2. QED
        BY <1>12, <2>1, <3>1 DEF BootFail
    <2>2. CASE e # bootEpoch
      BY <1>12, <2>2 DEF BootFail
    <2>3. QED
      BY <2>1, <2>2
  <1>13. CASE UNCHANGED vars
    BY <1>13 DEF vars
  <1>14. QED
    BY <1>1, <1>2, <1>3, <1>4, <1>5, <1>6, <1>7, <1>8, <1>9, <1>10, <1>11, <1>12, <1>13
    DEF Next, Settle

(* The supervisor implements the safety part of SessionLadder: each of its *)
(* steps is a step of the ladder or leaves it where it is.                 *)
THEOREM SafetyImplementsLadder == Safety => Ladder!Safety
  <1>1. Init => Ladder!Init
    BY DEF Init, Ladder!Init
  <1>2. QED
    BY Inductive, <1>1, NextLadder, PTL DEF Safety, Ladder!Safety

=============================================================================

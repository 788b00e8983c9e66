--------------------------- MODULE Services_proofs ----------------------------
(***************************************************************************)
(* Proofs about four services of a session.                                *)
(*                                                                         *)
(* Watcher, for any files and on-save actions: the pipelines that an abort *)
(* leaves behind have no command that was not told to end. OnlyNewestRuns  *)
(* is not inductive alone: the pipeline that the debounce begins must be a *)
(* new one. That needs every pipeline that was ever referred to to have    *)
(* been given files, hence a timer that is set to have something gathered. *)
(*                                                                         *)
(* BuildRequests, for any requests and sessions: builds overlap, and a     *)
(* build's post hook comes before the build is over, in the two ways only  *)
(* that BuildsAreApart names. Both follow from ProcessIsBuilds: the        *)
(* process a Builder refers to is that of the one request that is being    *)
(* built in its session.                                                   *)
(*                                                                         *)
(* MetroLogs, for any capacity and page size, and CaptureRing, for any     *)
(* requests: a reader misses nothing that is still kept. The rings are     *)
(* numbered without a gap (Numbered) and cursors are behind them           *)
(* (CursorIsBehind, AgentIsBehind).                                        *)
(***************************************************************************)
EXTENDS MCServices, FiniteSetTheorems, WellFoundedInduction, TLAPS

(* A nonempty set of natural numbers has a least element.                  *)
LEMMA LeastIn ==
    ASSUME NEW T \in SUBSET Nat, T # {}
    PROVE  \E x \in T : \A y \in T : x <= y
<1>1. IsWellFoundedOn(OpToRel(<, Nat), Nat)
  BY NatLessThanWellFounded
<1>2. PICK x \in T : \A y \in T : <<y, x>> \notin OpToRel(<, Nat)
  BY <1>1, WFMin
<1>3. \A y \in T : ~(y < x)
  BY <1>2 DEF OpToRel
<1> QED
  BY <1>3

-----------------------------------------------------------------------------
ReferredHaveFiles ==
    /\ timer => pending # {}
    /\ \A p \in aborted \cup {controller} : p # 0 => p \in Started

(* The inductive invariant.                                                *)
WatcherInv == WatcherTypeOK /\ ReferredHaveFiles /\ OnlyNewestRuns

-----------------------------------------------------------------------------
(* Matching() finds the next action of the list or its end.                *)
LEMMA MatchingFinds ==
    ASSUME NEW fs \in SUBSET Files, NEW i \in 1..Done
    PROVE  Matching(fs, i) \in i..Done
<1> DEFINE hits == {j \in i..Len(OnSave) : OnSave[j].glob \cap fs # {}}
<1>0. Len(OnSave) \in Nat
  BY OnSaveAssumption
<1>1. CASE hits = {}
  BY <1>0, <1>1 DEF Matching, Done
<1>2. CASE hits # {}
  <2>1. hits \subseteq Nat
    BY <1>0 DEF Done
  <2>2. \E j \in hits : \A k \in hits : j <= k
    BY <1>2, <2>1, LeastIn
  <2>3. Matching(fs, i) \in hits
    BY <1>2, <2>2 DEF Matching
  <2> QED
    BY <1>0, <2>3 DEF Done
<1> QED
  BY <1>1, <1>2

(* The steps of a pipeline are numbers, as is its end.                     *)
LEMMA StepsAreNumbers == Len(OnSave) \in Nat /\ Steps = 1..Len(OnSave) /\ Done = Len(OnSave) + 1
BY OnSaveAssumption DEF Steps, Done

(* The commands of the pipeline that is aborted are signalled or over.     *)
LEMMA AbortSignals ==
    ASSUME NEW cmd \in [Pipelines \X Steps -> {"none", "alive", "signalled", "gone"}],
           NEW p
    PROVE  /\ Abort(cmd, p) \in [Pipelines \X Steps -> {"none", "alive", "signalled", "gone"}]
           /\ \A c \in Pipelines \X Steps :
                 Abort(cmd, p)[c] = "alive" => cmd[c] = "alive" /\ c[1] # p
BY DEF Abort

(* The invariant holds before anything is saved.                           *)
LEMMA WatcherInvInit == WatcherInit => WatcherInv
<1> SUFFICES ASSUME WatcherInit PROVE WatcherInv
  OBVIOUS
<1>1. WatcherTypeOK
  <2>1. running \in BOOLEAN /\ timer \in BOOLEAN /\ pending \subseteq Files
    BY DEF WatcherInit
  <2>2. /\ watches \subseteq 1..MaxWatches
        /\ watch \in 0..MaxWatches /\ opened \in 0..MaxWatches
        /\ controller \in 0..MaxPipelines /\ aborted \subseteq Pipelines
    BY WatcherBounds DEF WatcherInit
  <2>3. files \in [Pipelines -> SUBSET Files] /\ at \in [Pipelines -> 1..Done]
    BY StepsAreNumbers DEF WatcherInit
  <2>4. command \in [Pipelines \X Steps -> {"none", "alive", "signalled", "gone"}]
    BY DEF WatcherInit
  <2> QED
    BY <2>1, <2>2, <2>3, <2>4 DEF WatcherTypeOK
<1>2. ReferredHaveFiles
  BY DEF WatcherInit, ReferredHaveFiles
<1>3. OnlyNewestRuns
  BY DEF WatcherInit, OnlyNewestRuns
<1> QED
  BY <1>1, <1>2, <1>3 DEF WatcherInv

(* After abort() of the current pipeline no command goes on unsignalled.   *)
LEMMA CurrentAborted ==
    ASSUME WatcherInv
    PROVE  /\ AbortCurrent(command)
                 \in [Pipelines \X Steps -> {"none", "alive", "signalled", "gone"}]
           /\ \A c \in Pipelines \X Steps : AbortCurrent(command)[c] # "alive"
           /\ Halted(at, controller) \in [Pipelines -> 1..Done]
<1>1. CASE controller = 0
  BY <1>1, WatcherBounds
     DEF WatcherInv, WatcherTypeOK, OnlyNewestRuns, AbortCurrent, Halted, Pipelines
<1>2. CASE controller # 0
  <2>1. controller \in Pipelines
    BY <1>2, WatcherBounds DEF WatcherInv, WatcherTypeOK, Pipelines
  <2>2. Halted(at, controller) \in [Pipelines -> 1..Done]
    BY <2>1, StepsAreNumbers DEF WatcherInv, WatcherTypeOK, Halted
  <2>3. AbortCurrent(command) = Abort(command, controller)
    BY <1>2 DEF AbortCurrent
  <2>4. /\ Abort(command, controller)
              \in [Pipelines \X Steps -> {"none", "alive", "signalled", "gone"}]
        /\ \A c \in Pipelines \X Steps : Abort(command, controller)[c] # "alive"
    <3>1. command \in [Pipelines \X Steps -> {"none", "alive", "signalled", "gone"}]
      BY DEF WatcherInv, WatcherTypeOK
    <3>2. \A c \in Pipelines \X Steps : command[c] = "alive" => c[1] = controller
      BY DEF WatcherInv, OnlyNewestRuns
    <3>3. Abort(command, controller)
              \in [Pipelines \X Steps -> {"none", "alive", "signalled", "gone"}]
      BY <3>1, AbortSignals
    <3>4. ASSUME NEW c \in Pipelines \X Steps PROVE Abort(command, controller)[c] # "alive"
      BY <3>1, <3>2, AbortSignals
    <3> QED
      BY <3>3, <3>4
  <2> QED
    BY <2>2, <2>3, <2>4
<1> QED
  BY <1>1, <1>2

(* stop() aborts the current pipeline and begins none.                     *)
LEMMA StopWatchingKeeps == WatcherInv /\ StopWatching => WatcherInv'
<1> SUFFICES ASSUME WatcherInv, StopWatching PROVE WatcherInv'
  OBVIOUS
<1> USE DEF StopWatching
<1>1. WatcherTypeOK'
  <2>1. running' \in BOOLEAN /\ timer' \in BOOLEAN
    OBVIOUS
  <2>2. watches' \subseteq 1..MaxWatches /\ watch' \in 0..MaxWatches /\ opened' \in 0..MaxWatches
    BY WatcherBounds DEF WatcherInv, WatcherTypeOK
  <2>3. /\ pending' \subseteq Files /\ controller' \in 0..MaxPipelines
        /\ files' \in [Pipelines -> SUBSET Files]
    BY DEF WatcherInv, WatcherTypeOK
  <2>4. aborted' \subseteq Pipelines
    BY WatcherBounds DEF WatcherInv, WatcherTypeOK, Pipelines
  <2>5. /\ at' \in [Pipelines -> 1..Done]
        /\ command' \in [Pipelines \X Steps -> {"none", "alive", "signalled", "gone"}]
    BY CurrentAborted
  <2> QED
    BY <2>1, <2>2, <2>3, <2>4, <2>5 DEF WatcherTypeOK
<1>2. ReferredHaveFiles'
  BY DEF WatcherInv, ReferredHaveFiles, Started
<1>3. OnlyNewestRuns'
  BY CurrentAborted DEF OnlyNewestRuns
<1> QED
  BY <1>1, <1>2, <1>3 DEF WatcherInv

(* The pipeline of the debounce is new, so that neither it nor its command *)
(* has been told to end.                                                   *)
LEMMA DebounceKeeps == WatcherInv /\ Debounce => WatcherInv'
<1> SUFFICES ASSUME WatcherInv, NEW p \in Pipelines \ Started,
                    timer, timer' = FALSE,
                    files' = [files EXCEPT ![p] = pending],
                    pending' = {},
                    controller' = p,
                    aborted' = aborted \cup ({controller} \ {0}),
                    at' = [Halted(at, controller) EXCEPT ![p] = Matching(pending, 1)],
                    command' = Spawned(AbortCurrent(command), p, Matching(pending, 1)),
                    UNCHANGED watchVars
             PROVE  WatcherInv'
  BY DEF Debounce
<1> DEFINE i == Matching(pending, 1)
<1>1. i \in 1..Done
  <2>1. 1 \in 1..Done
    BY StepsAreNumbers
  <2>2. pending \in SUBSET Files
    BY DEF WatcherInv, WatcherTypeOK
  <2> QED
    BY <2>1, <2>2, MatchingFinds
<1>2. at' \in [Pipelines -> 1..Done] /\ at'[p] = i
  <2>1. Halted(at, controller) \in [Pipelines -> 1..Done]
    BY CurrentAborted
  <2> QED
    BY <1>1, <2>1
<1>3. /\ command' \in [Pipelines \X Steps -> {"none", "alive", "signalled", "gone"}]
      /\ \A c \in Pipelines \X Steps : command'[c] = "alive" => c = <<p, i>>
  <2> HIDE DEF i
  <2>1. CASE i \in Steps
    <3>1. command' = [AbortCurrent(command) EXCEPT ![<<p, i>>] = "alive"]
      BY <2>1 DEF Spawned, i
    <3> QED
      BY <3>1, CurrentAborted
  <2>2. CASE i \notin Steps
    BY <2>2, CurrentAborted DEF Spawned, i
  <2> QED
    BY <2>1, <2>2
<1>4. p # controller /\ p \notin aborted /\ p # 0
  BY WatcherBounds DEF WatcherInv, ReferredHaveFiles, Pipelines
<1>5. WatcherTypeOK'
  <2>1. controller' \in 0..MaxPipelines /\ aborted' \subseteq Pipelines
    BY WatcherBounds DEF WatcherInv, WatcherTypeOK, Pipelines
  <2>2. files' \in [Pipelines -> SUBSET Files] /\ pending' \subseteq Files
    BY DEF WatcherInv, WatcherTypeOK
  <2> QED
    BY <1>2, <1>3, <2>1, <2>2 DEF WatcherInv, WatcherTypeOK, watchVars
<1>6. ReferredHaveFiles'
  <2>1. p \in Started'
    BY DEF WatcherInv, WatcherTypeOK, ReferredHaveFiles, Started
  <2>2. Started \subseteq Started'
    BY DEF WatcherInv, WatcherTypeOK, Started
  <2> QED
    BY <2>1, <2>2 DEF WatcherInv, ReferredHaveFiles
<1>7. OnlyNewestRuns'
  <2> SUFFICES ASSUME NEW c \in Pipelines \X Steps, command'[c] = "alive"
               PROVE  c[1] = controller' /\ c[1] \notin aborted' /\ at'[c[1]] = c[2]
    BY DEF OnlyNewestRuns
  <2>1. c = <<p, i>>
    BY <1>3
  <2> QED
    BY <1>2, <1>4, <2>1
<1> QED
  BY <1>5, <1>6, <1>7 DEF WatcherInv

(* A command that ends takes its pipeline on, or ends it.                  *)
LEMMA CommandClosesKeeps ==
    ASSUME WatcherInv, NEW p \in Pipelines, NEW ok \in BOOLEAN, CommandCloses(p, ok)
    PROVE  WatcherInv'
<1> DEFINE i == at[p]
           then == IF ~ok /\ OnSave[i].halt THEN Done ELSE Matching(files[p], i + 1)
<1>0. /\ i \in Steps /\ command[<<p, i>>] = "alive"
      /\ at' = [at EXCEPT ![p] = then]
      /\ command' = Spawned([command EXCEPT ![<<p, i>>] = "gone"], p, then)
      /\ UNCHANGED <<watchVars, pending, timer, controller, files, aborted>>
  BY DEF CommandCloses
<1>1. then \in 1..Done
  <2>1. i + 1 \in 1..Done
    BY <1>0, StepsAreNumbers
  <2>2. files[p] \in SUBSET Files
    BY DEF WatcherInv, WatcherTypeOK
  <2>3. Matching(files[p], i + 1) \in (i + 1)..Done
    BY <2>1, <2>2, MatchingFinds
  <2> QED
    BY <1>0, <2>1, <2>3, StepsAreNumbers
<1> HIDE DEF then
<1>2. p = controller /\ p \notin aborted
  BY <1>0 DEF WatcherInv, OnlyNewestRuns
<1>3. /\ command' \in [Pipelines \X Steps -> {"none", "alive", "signalled", "gone"}]
      /\ \A c \in Pipelines \X Steps : command'[c] = "alive" => c = <<p, then>>
  <2> DEFINE gone == [command EXCEPT ![<<p, i>>] = "gone"]
  <2>1. gone \in [Pipelines \X Steps -> {"none", "alive", "signalled", "gone"}]
    BY DEF WatcherInv, WatcherTypeOK
  <2>2. \A c \in Pipelines \X Steps : gone[c] # "alive"
    <3> SUFFICES ASSUME NEW c \in Pipelines \X Steps, gone[c] = "alive" PROVE FALSE
      OBVIOUS
    <3>1. c # <<p, i>> /\ command[c] = "alive"
      BY DEF WatcherInv, WatcherTypeOK
    <3>2. c[1] = p /\ c[2] = i
      BY <1>2, <3>1 DEF WatcherInv, OnlyNewestRuns
    <3> QED
      BY <3>1, <3>2
  <2> HIDE DEF gone
  <2>3. command' = IF then \in Steps THEN [gone EXCEPT ![<<p, then>>] = "alive"] ELSE gone
    BY <1>0 DEF Spawned, gone
  <2> QED
    BY <2>1, <2>2, <2>3
<1>4. WatcherTypeOK'
  BY <1>0, <1>1, <1>3 DEF WatcherInv, WatcherTypeOK, watchVars
<1>5. ReferredHaveFiles'
  BY <1>0 DEF WatcherInv, ReferredHaveFiles, Started
<1>6. OnlyNewestRuns'
  <2>1. at'[p] = then
    BY <1>0 DEF WatcherInv, WatcherTypeOK
  <2> SUFFICES ASSUME NEW c \in Pipelines \X Steps, command'[c] = "alive"
               PROVE  c[1] = controller' /\ c[1] \notin aborted' /\ at'[c[1]] = c[2]
    BY DEF OnlyNewestRuns
  <2>2. c = <<p, then>>
    BY <1>3
  <2>3. c[1] = p /\ c[2] = then
    BY <2>2
  <2> QED
    BY <1>0, <1>2, <2>1, <2>3
<1> QED
  BY <1>4, <1>5, <1>6 DEF WatcherInv

(* Every step keeps the invariant.                                         *)
LEMMA WatcherInvNext == WatcherInv /\ [WatcherNext]_watcherVars => WatcherInv'
<1> SUFFICES ASSUME WatcherInv, [WatcherNext]_watcherVars PROVE WatcherInv'
  OBVIOUS
<1>1. CASE StartWatching
  BY <1>1, WatcherBounds
     DEF StartWatching, pipeVars, WatcherInv, WatcherTypeOK, ReferredHaveFiles,
         OnlyNewestRuns, Started
<1>2. CASE StopWatching
  BY <1>2, StopWatchingKeeps
<1>3. CASE Debounce
  BY <1>3, DebounceKeeps
<1>4. CASE \E file \in Files : FileChanges(file)
  BY <1>4 DEF FileChanges, watchVars, pipeVars, WatcherInv, WatcherTypeOK, ReferredHaveFiles,
              OnlyNewestRuns, Started
<1>5. CASE \E p \in Pipelines, ok \in BOOLEAN : CommandCloses(p, ok)
  BY <1>5, CommandClosesKeeps
<1>6. CASE \E p \in Pipelines, i \in Steps : SignalledEnds(p, i)
  BY <1>6 DEF SignalledEnds, watchVars, WatcherInv, WatcherTypeOK, ReferredHaveFiles,
              OnlyNewestRuns, Started
<1>7. CASE UNCHANGED watcherVars
  BY <1>7 DEF watcherVars, watchVars, pipeVars, WatcherInv, WatcherTypeOK, ReferredHaveFiles,
              OnlyNewestRuns, Started
<1> QED
  BY <1>1, <1>2, <1>3, <1>4, <1>5, <1>6, <1>7 DEF WatcherNext

(* A save during a run leaves no unsignalled command of an older pipeline  *)
(* (watcher.ts:173-176, 282-297), for any list of on-save actions.         *)
THEOREM NewestRunsAlone == WatcherSpec => []OnlyNewestRuns
<1>1. WatcherInv => OnlyNewestRuns
  BY DEF WatcherInv
<1> QED
  BY WatcherInvInit, WatcherInvNext, <1>1, PTL DEF WatcherSpec

-----------------------------------------------------------------------------
ProcessIsBuilds ==
    \A r \in Building : services[r] \in Sessions /\ process[services[r]] = r

ListenersAreTheSessions ==
    \A s \in Sessions : \A r \in awaiting[s] : services[r] = s /\ request[r] = "answered"

UnansweredIsUnbuilt ==
    \A r \in Requests :
        /\ request[r] # "answered" => build[r] = "none"
        /\ request[r] = "pre" => services[r] \in Sessions

(* The inductive invariant.                                                *)
BuildInv ==
    /\ BuildTypeOK
    /\ ProcessIsBuilds
    /\ ListenersAreTheSessions
    /\ UnansweredIsUnbuilt
    /\ PostFiresEarlyByRefusal

-----------------------------------------------------------------------------
(* The invariant holds before anything is requested.                      *)
LEMMA BuildInvInit == BuildInit => BuildInv
BY SessionBound
   DEF BuildInit, BuildInv, BuildTypeOK, ProcessIsBuilds, ListenersAreTheSessions,
       UnansweredIsUnbuilt, PostFiresEarlyByRefusal, Building, Sessions

(* A request that is refused by a session that is down, or waits for its   *)
(* pre hook, keeps the invariant.                                          *)
LEMMA RequestKeeps ==
    ASSUME BuildInv, NEW r \in Requests, RequestBuild(r) \/ PreHookFails(r)
    PROVE  BuildInv'
<1>1. /\ request[r] \in {"idle", "pre"} /\ build[r] = "none"
      /\ \A q \in Requests \ {r} : request'[q] = request[q] /\ services'[q] = services[q]
      /\ request'[r] \in {"down", "pre", "hookFailed"}
      /\ request'[r] = "pre" => services'[r] \in Sessions
      /\ UNCHANGED <<session, begun, builder>>
  BY SessionBound
     DEF RequestBuild, PreHookFails, Answer, BuildInv, BuildTypeOK, UnansweredIsUnbuilt, Sessions
<1>2. BuildTypeOK'
  BY DEF RequestBuild, PreHookFails, Answer, BuildInv, BuildTypeOK, builder
<1>3. ProcessIsBuilds'
  BY <1>1 DEF BuildInv, ProcessIsBuilds, Building, builder
<1>4. ListenersAreTheSessions'
  BY <1>1 DEF BuildInv, BuildTypeOK, ListenersAreTheSessions, builder
<1>5. UnansweredIsUnbuilt'
  BY <1>1 DEF BuildInv, UnansweredIsUnbuilt, builder
<1>6. PostFiresEarlyByRefusal'
  BY <1>1 DEF BuildInv, PostFiresEarlyByRefusal, builder
<1> QED
  BY <1>2, <1>3, <1>4, <1>5, <1>6 DEF BuildInv

(* Who waits for `done` in a session and is being built is its process.    *)
LEMMA ListenerIsProcess ==
    ASSUME BuildInv, NEW s \in Sessions, NEW r \in awaiting[s] \cap Building
    PROVE  process[s] = r
BY DEF BuildInv, ListenersAreTheSessions, ProcessIsBuilds

(* A pre hook that passes makes its request the session's build, or has it *)
(* refused because one is under way.                                       *)
LEMMA PassKeeps ==
    ASSUME BuildInv, NEW r \in Requests, PreHookPasses(r)
    PROVE  BuildInv'
<1> DEFINE s == services[r]
<1>1. /\ s \in Sessions /\ build[r] = "none" /\ request[r] = "pre"
      /\ request' = [request EXCEPT ![r] = "answered"]
      /\ UNCHANGED <<session, begun, services>>
  BY DEF PreHookPasses, Answer, BuildInv, UnansweredIsUnbuilt
<1>2. CASE /\ process[s] # NoRequest
           /\ build' = [build EXCEPT ![r] = "refused"]
           /\ refused' = refused \cup {process[s]}
           /\ EmitDone(s, awaiting[s] \cup {r}, Building)
           /\ UNCHANGED process
  <2>1. BuildTypeOK'
    BY <1>1, <1>2 DEF EmitDone, BuildInv, BuildTypeOK, Building
  <2>2. Building' = Building
    BY <1>1, <1>2 DEF BuildInv, BuildTypeOK, Building
  <2>3. ProcessIsBuilds'
    BY <1>1, <1>2, <2>2 DEF BuildInv, ProcessIsBuilds
  <2>4. ListenersAreTheSessions' /\ UnansweredIsUnbuilt'
    BY <1>1, <1>2 DEF EmitDone, BuildInv, BuildTypeOK, ListenersAreTheSessions, UnansweredIsUnbuilt
  <2>5. (awaiting[s] \cup {r}) \cap Building \subseteq {process[s]}
    BY <1>1, ListenerIsProcess DEF Building
  <2>6. PostFiresEarlyByRefusal'
    BY <1>2, <2>5 DEF EmitDone, BuildInv, PostFiresEarlyByRefusal
  <2> QED
    BY <2>1, <2>3, <2>4, <2>6 DEF BuildInv
<1>3. CASE /\ process[s] = NoRequest
           /\ build' = [build EXCEPT ![r] = "unspawned"]
           /\ EmitDone(s, awaiting[s] \cup {r}, Building)
           /\ UNCHANGED <<process, refused>>
  <2>1. BuildTypeOK'
    BY <1>1, <1>3 DEF EmitDone, BuildInv, BuildTypeOK, Building
  <2>2. Building' = Building
    BY <1>1, <1>3 DEF BuildInv, BuildTypeOK, Building
  <2>3. ProcessIsBuilds'
    BY <1>1, <1>3, <2>2 DEF BuildInv, ProcessIsBuilds
  <2>4. ListenersAreTheSessions' /\ UnansweredIsUnbuilt'
    BY <1>1, <1>3 DEF EmitDone, BuildInv, BuildTypeOK, ListenersAreTheSessions, UnansweredIsUnbuilt
  <2>5. (awaiting[s] \cup {r}) \cap Building = {}
    BY <1>1, <1>3, ListenerIsProcess, NoRequestAssumption DEF Building
  <2>6. PostFiresEarlyByRefusal'
    BY <1>3, <2>5 DEF EmitDone, BuildInv, PostFiresEarlyByRefusal
  <2> QED
    BY <2>1, <2>3, <2>4, <2>6 DEF BuildInv
<1>4. CASE /\ process[s] = NoRequest
           /\ process' = [process EXCEPT ![s] = r]
           /\ build' = [build EXCEPT ![r] = "running"]
           /\ awaiting' = [awaiting EXCEPT ![s] = awaiting[s] \cup {r}]
           /\ UNCHANGED <<post, early, refused>>
  <2>1. BuildTypeOK'
    BY <1>1, <1>4 DEF BuildInv, BuildTypeOK
  <2>2. Building' = Building \cup {r}
    BY <1>1, <1>4 DEF BuildInv, BuildTypeOK, Building
  <2>3. \A q \in Building : services[q] # s
    BY <1>4, NoRequestAssumption DEF BuildInv, ProcessIsBuilds, Building
  <2>4. ProcessIsBuilds'
    BY <1>1, <1>4, <2>2, <2>3 DEF BuildInv, BuildTypeOK, ProcessIsBuilds
  <2>5. ListenersAreTheSessions' /\ UnansweredIsUnbuilt'
    BY <1>1, <1>4 DEF BuildInv, BuildTypeOK, ListenersAreTheSessions, UnansweredIsUnbuilt
  <2>6. PostFiresEarlyByRefusal'
    BY <1>4 DEF BuildInv, PostFiresEarlyByRefusal
  <2> QED
    BY <2>1, <2>4, <2>5, <2>6 DEF BuildInv
<1> QED
  BY <1>2, <1>3, <1>4 DEF PreHookPasses

(* The exit of a build's process ends it for everybody who waits.          *)
LEMMA ExitKeeps ==
    ASSUME BuildInv, NEW r \in Requests, BuildExits(r)
    PROVE  BuildInv'
<1> DEFINE s == services[r]
<1>1. /\ r \in Building /\ s \in Sessions /\ process[s] = r
      /\ build' = [build EXCEPT ![r] = "done"]
      /\ EmitDone(s, awaiting[s], Building \ {r})
      /\ process' = [process EXCEPT ![s] = NoRequest]
      /\ UNCHANGED <<session, begun, request, services, refused>>
  BY DEF BuildExits, BuildInv, ProcessIsBuilds, Building
<1>2. BuildTypeOK'
  BY <1>1 DEF EmitDone, BuildInv, BuildTypeOK, Building
<1>3. Building' = Building \ {r}
  BY <1>1 DEF BuildInv, BuildTypeOK, Building
<1>4. ProcessIsBuilds'
  <2>1. \A q \in Building \ {r} : services[q] # s
    BY <1>1 DEF BuildInv, ProcessIsBuilds
  <2> QED
    BY <1>1, <1>3, <2>1 DEF BuildInv, BuildTypeOK, ProcessIsBuilds
<1>5. ListenersAreTheSessions' /\ UnansweredIsUnbuilt'
  BY <1>1
     DEF EmitDone, BuildInv, BuildTypeOK, ListenersAreTheSessions, UnansweredIsUnbuilt, Building
<1>6. awaiting[s] \cap (Building \ {r}) = {}
  BY <1>1, ListenerIsProcess
<1>7. PostFiresEarlyByRefusal'
  BY <1>1, <1>6 DEF EmitDone, BuildInv, PostFiresEarlyByRefusal
<1> QED
  BY <1>2, <1>4, <1>5, <1>7 DEF BuildInv

(* Every step keeps the invariant.                                         *)
LEMMA BuildInvNext == BuildInv /\ [BuildNext]_buildVars => BuildInv'
<1> SUFFICES ASSUME BuildInv, [BuildNext]_buildVars PROVE BuildInv'
  OBVIOUS
<1>1. CASE SessionRuns \/ SessionEnds
  BY <1>1, SessionBound
     DEF SessionRuns, SessionEnds, builder, BuildInv, BuildTypeOK, ProcessIsBuilds,
         ListenersAreTheSessions, UnansweredIsUnbuilt, PostFiresEarlyByRefusal, Building, Sessions
<1>2. CASE \E r \in Requests : RequestBuild(r) \/ PreHookFails(r)
  BY <1>2, RequestKeeps
<1>3. CASE \E r \in Requests : PreHookPasses(r)
  BY <1>3, PassKeeps
<1>4. CASE \E r \in Requests : BuildExits(r)
  BY <1>4, ExitKeeps
<1>5. CASE \E r \in Requests : PostHookSettles(r)
  BY <1>5 DEF PostHookSettles, BuildInv, BuildTypeOK, ProcessIsBuilds, ListenersAreTheSessions,
              UnansweredIsUnbuilt, PostFiresEarlyByRefusal, Building
<1>6. CASE UNCHANGED buildVars
  BY <1>6 DEF buildVars, builder, BuildInv, BuildTypeOK, ProcessIsBuilds, ListenersAreTheSessions,
              UnansweredIsUnbuilt, PostFiresEarlyByRefusal, Building
<1> QED
  BY <1>1, <1>2, <1>3, <1>4, <1>5, <1>6 DEF BuildNext

(* Two builds run at once only if the session of one has ended under it,   *)
(* and build/post fires early only if another request was refused          *)
(* (client-rpcs.ts:180-215), for any requests and sessions.                *)
THEOREM BuildsKeptApart == BuildSpec => []BuildsAreApart
<1>1. BuildInv => BuildsAreApart
  BY DEF BuildInv, BuildsAreApart, ProcessIsBuilds, BuildsOverlapAcrossSessions
<1> QED
  BY BuildInvInit, BuildInvNext, <1>1, PTL DEF BuildSpec

-----------------------------------------------------------------------------
(* The ring holds lines that were numbered,                                *)
HeldLines == ring \in Seq(Nat) /\ next \in Nat \ {0} /\ \A n \in Range(ring) : n < next

(* the cursor none that comes,                                             *)
CursorIsBehind ==
    /\ cursor.epoch \in Nat /\ epoch \in Nat /\ cursor.epoch <= epoch
    /\ cursor.sequence \in Nat /\ cursor.sequence < next

(* The inductive invariant of MetroLogs.                                   *)
LogInv ==
    /\ HeldLines /\ CursorIsBehind /\ PassedWasGiven
    /\ read \in [given : SUBSET Nat, from : Nat, over : BOOLEAN]

(* A bounded set of numbers has a greatest one,                            *)
LEMMA HighestIsIn ==
    ASSUME NEW S \in SUBSET Nat, NEW b \in Nat, \A x \in S : x < b, S # {}
    PROVE  Max(S) \in S /\ \A x \in S : x <= Max(S)
<1> DEFINE Gaps == {k \in Nat : b - k \in S}
<1>1. PICK y \in S : TRUE
  OBVIOUS
<1>2. b - y \in Gaps
  BY <1>1
<1>3. PICK k \in Gaps : \A j \in Gaps : k <= j
  BY <1>2, LeastIn
<1>4. \A x \in S : b - k >= x
  <2> SUFFICES ASSUME NEW x \in S PROVE b - k >= x
    OBVIOUS
  <2>1. b - x \in Gaps
    OBVIOUS
  <2>2. k <= b - x
    BY <1>3, <2>1
  <2> QED
    BY <2>2
<1>5. b - k \in S
  OBVIOUS
<1> QED
  BY <1>4, <1>5 DEF Max

(* and every set a least one.                                              *)
LEMMA LowestIsIn ==
    ASSUME NEW S \in SUBSET Nat, S # {} PROVE Min(S) \in S /\ \A x \in S : Min(S) <= x
BY LeastIn DEF Min

(* What append() and the drop of the oldest line hold.                     *)
LEMMA Appending ==
    ASSUME NEW s \in Seq(Nat), NEW n \in Nat
    PROVE  /\ Append(s, n) \in Seq(Nat) /\ Range(Append(s, n)) \subseteq Range(s) \cup {n}
           /\ s # <<>> => Tail(s) \in Seq(Nat) /\ Range(Tail(s)) \subseteq Range(s)
<1>1. Append(s, n) \in Seq(Nat) /\ Range(Append(s, n)) \subseteq Range(s) \cup {n}
  BY DEF Range
<1>2. ASSUME s # <<>> PROVE Tail(s) \in Seq(Nat) /\ Range(Tail(s)) \subseteq Range(s)
  <2>1. Tail(s) \in Seq(Nat) /\ Len(s) \in Nat
    BY <1>2
  <2>2. \A i \in DOMAIN Tail(s) : i + 1 \in DOMAIN s /\ Tail(s)[i] = s[i + 1]
    BY <1>2
  <2> QED
    BY <2>1, <2>2 DEF Range
<1> QED
  BY <1>1, <1>2

(* A line that comes after one of the newest is one of them.               *)
LEMMA NewestIsUp ==
    ASSUME NEW S \in SUBSET Nat, IsFiniteSet(S), NEW m \in Newest(S), NEW n \in S, m <= n
    PROVE  n \in Newest(S)
<1> DEFINE Above(k) == {x \in S : k <= x}
<1>1. Above(n) \subseteq Above(m) /\ IsFiniteSet(Above(m))
  <2>1. m \in Nat /\ n \in Nat
    BY DEF Newest
  <2>2. \A x \in S : n <= x => m <= x
    BY <2>1
  <2>3. Above(m) \subseteq S
    OBVIOUS
  <2>4. IsFiniteSet(Above(m))
    BY <2>3, FS_Subset
  <2> QED
    BY <2>2, <2>4
<1>2. Cardinality(Above(n)) <= Cardinality(Above(m))
  BY <1>1, FS_Subset
<1>3. Cardinality(Above(n)) \in Nat /\ Cardinality(Above(m)) \in Nat
  BY <1>1, FS_Subset, FS_CardinalityType
<1> QED
  BY <1>2, <1>3, RingAssumption DEF Newest

(* It holds when the store is made,                                        *)
LEMMA LogInvInit == LogInit => LogInv
BY DEF LogInit, LogInv, HeldLines, CursorIsBehind, PassedWasGiven, NoCursor, NothingRead, Range

(* after a poll: a cursor of this epoch passes what it was given before    *)
(* and now, one of another begins with its page,                           *)
LEMMA PollKeeps == LogInv /\ Poll => LogInv'
<1> SUFFICES ASSUME LogInv, Poll PROVE LogInv'
  OBVIOUS
<1> DEFINE page == Newest(Pool)
           held == Range(ring)
           same == cursor.epoch = epoch
           old == IF same THEN read ELSE [NothingRead EXCEPT !.from = FirstOf(page)]
           reach == EndOf(IF page = {} THEN held ELSE page)
<1>1. /\ cursor' = [epoch |-> epoch, sequence |-> reach]
      /\ read' = [old EXCEPT !.given = @ \cup page, !.over = @ \/ (same /\ page # Pool)]
      /\ UNCHANGED <<ring, matches, next, epoch>>
  BY DEF Poll
<1>2. held \in SUBSET Nat /\ IsFiniteSet(held) /\ \A n \in held : n < next
  <2>1. held \subseteq Nat /\ \A n \in held : n < next
    BY DEF LogInv, HeldLines, Range
  <2>0. next \in Nat
    BY DEF LogInv, HeldLines
  <2> HIDE DEF held
  <2>2. held \subseteq 0..next /\ next \in Nat
    BY <2>0, <2>1
  <2>3. IsFiniteSet(0..next)
    BY <2>0, FS_Interval
  <2>4. IsFiniteSet(held)
    BY <2>2, <2>3, FS_Subset
  <2> QED
    BY <2>1, <2>4
<1>3. Pool \subseteq held /\ page \subseteq Pool /\ Pool \subseteq matches /\ IsFiniteSet(Pool)
  BY <1>2, FS_Subset DEF Pool, Newest
<1>4. reach \in Nat /\ reach < next
  <2> DEFINE S == IF page = {} THEN held ELSE page
  <2>1. S \in SUBSET Nat /\ \A n \in S : n < next
    BY <1>2, <1>3
  <2>2. S # {} => Max(S) \in S
    BY <2>1, HighestIsIn DEF LogInv, HeldLines
  <2>3. next \in Nat /\ 0 < next
    BY DEF LogInv, HeldLines
  <2>4. reach = EndOf(S)
    OBVIOUS
  <2> HIDE DEF S, reach
  <2> QED
    BY <2>1, <2>2, <2>3, <2>4 DEF EndOf
<1>5. HeldLines' /\ CursorIsBehind'
  BY <1>1, <1>4 DEF LogInv, HeldLines, CursorIsBehind
<1>6. old \in [given : SUBSET Nat, from : Nat, over : BOOLEAN]
  <2>1. FirstOf(page) \in Nat
    <3>1. page # {} => Min(page) \in Nat
      BY <1>2, <1>3, LowestIsIn
    <3>2. held # {} => Max(held) \in Nat
      BY <1>2, HighestIsIn DEF LogInv, HeldLines
    <3> HIDE DEF page
    <3> QED
      BY <3>1, <3>2 DEF FirstOf, EndOf
  <2>2. NothingRead \in [given : SUBSET Nat, from : Nat, over : BOOLEAN]
    BY Zenon, SMT DEF NothingRead
  <2> HIDE DEF page, same
  <2>3. read \in [given : SUBSET Nat, from : Nat, over : BOOLEAN]
    BY DEF LogInv
  <2> QED
    BY <2>1, <2>2, <2>3
<1>7. /\ read'.given = old.given \cup page /\ read'.from = old.from
      /\ read'.over = (old.over \/ (same /\ page # Pool))
      /\ read' \in [given : SUBSET Nat, from : Nat, over : BOOLEAN]
  <2> HIDE DEF old, page, same
  <2>1. page \subseteq Nat
    BY <1>2, <1>3
  <2>2. (old.over \/ (same /\ page # Pool)) \in BOOLEAN
    BY <1>6
  <2> QED
    BY <1>1, <1>6, <2>1, <2>2
<1>8. ASSUME ~read'.over, NEW n \in held \cap matches, read'.from <= n, n <= reach
      PROVE  n \in read'.given
  <2>0. n \in Nat
    BY <1>2
  <2>1. CASE same
    <3>1. page = Pool /\ ~read.over /\ read.from <= n /\ old = read
      BY <1>7, <1>8, <2>1
    <3>2. CASE n <= cursor.sequence
      BY <1>7, <1>8, <2>1, <3>1, <3>2 DEF LogInv, PassedWasGiven
    <3>3. CASE n > cursor.sequence
      BY <1>7, <3>1, <3>3 DEF Pool
    <3> QED
      BY <2>0, <3>2, <3>3 DEF LogInv, CursorIsBehind
  <2>2. CASE ~same
    <3>1. n \in Pool /\ FirstOf(page) <= n
      BY <1>7, <1>8, <2>2 DEF Pool, NothingRead
    <3>2. CASE page = {}
      <4>1. FirstOf(page) = reach + 1
        BY <3>2 DEF FirstOf, reach, held
      <4> QED
        BY <1>4, <1>8, <2>0, <3>1, <4>1
    <3>3. CASE page # {}
      <4>0. Pool \in SUBSET Nat /\ page \in SUBSET Nat
        BY <1>2, <1>3
      <4>1. Min(page) \in page /\ Min(page) <= n
        BY <4>0, <3>1, <3>3, LowestIsIn DEF FirstOf
      <4>2. n \in page
        BY <1>3, <3>1, <4>0, <4>1, NewestIsUp
      <4> QED
        BY <1>7, <4>2
    <3> QED
      BY <3>2, <3>3
  <2> QED
    BY <2>1, <2>2
<1>9. PassedWasGiven'
  BY <1>1, <1>8 DEF PassedWasGiven
<1> QED
  BY <1>5, <1>7, <1>9 DEF LogInv

(* and after every step.                                                   *)
LEMMA LogInvNext == LogInv /\ [LogNext]_logVars => LogInv'
<1> SUFFICES ASSUME LogInv, [LogNext]_logVars PROVE LogInv'
  OBVIOUS
<1>1. ASSUME NEW found \in BOOLEAN, AppendLine(found) PROVE LogInv'
  <2>0. UNCHANGED <<epoch, cursor, read>> /\ next' = next + 1
    BY <1>1 DEF AppendLine
  <2>1. ring' \in Seq(Nat) /\ Range(ring') \subseteq Range(ring) \cup {next}
    <3>1. CASE Len(ring) = Capacity
      <4>1. ring # <<>>
        BY <3>1, RingAssumption DEF LogInv, HeldLines
      <4>2. ring' = Append(Tail(ring), next)
        BY <1>1, <3>1 DEF AppendLine
      <4> QED
        <5>1. Tail(ring) \in Seq(Nat) /\ Range(Tail(ring)) \subseteq Range(ring)
          BY <4>1, Appending DEF LogInv, HeldLines
        <5> QED
          BY <4>2, <5>1, Appending DEF LogInv, HeldLines
    <3>2. CASE Len(ring) # Capacity
      <4>1. ring' = Append(ring, next)
        BY <1>1, <3>2 DEF AppendLine
      <4> QED
        BY <4>1, Appending DEF LogInv, HeldLines
    <3> QED
      BY <3>1, <3>2
  <2>2. matches' \subseteq matches \cup {next}
    BY <1>1 DEF AppendLine
  <2>3. HeldLines' /\ CursorIsBehind'
    <3>0. \A n \in Range(ring) : n \in Nat /\ n < next
      BY DEF LogInv, HeldLines, Range
    <3>1. \A n \in Range(ring') : n < next + 1
      BY <2>1, <3>0 DEF LogInv, HeldLines
    <3> QED
      BY <2>0, <2>1, <3>1 DEF LogInv, HeldLines, CursorIsBehind
  <2>4. PassedWasGiven'
    BY <2>0, <2>1, <2>2 DEF LogInv, HeldLines, CursorIsBehind, PassedWasGiven
  <2> QED
    BY <2>0, <2>3, <2>4 DEF LogInv
<1>2. ASSUME UNCHANGED <<next, cursor, read, matches>>,
             (epoch' = epoch + 1 /\ ring' = <<>>) \/ UNCHANGED <<epoch, ring>>
      PROVE  LogInv'
  <2>1. CASE UNCHANGED <<epoch, ring>>
    BY <1>2, <2>1 DEF LogInv, HeldLines, CursorIsBehind, PassedWasGiven, Range
  <2>2. CASE epoch' = epoch + 1 /\ ring' = <<>>
    <3>1. HeldLines' /\ CursorIsBehind' /\ cursor'.epoch # epoch'
      BY <1>2, <2>2 DEF LogInv, HeldLines, CursorIsBehind, Range
    <3> QED
      BY <1>2, <3>1 DEF LogInv, PassedWasGiven
  <2> QED
    BY <1>2, <2>1, <2>2
<1>3. CASE ClearLog
  BY <1>2, <1>3 DEF ClearLog
<1>4. ASSUME NEW s, MetroStatus(s) PROVE LogInv'
  BY <1>2, <1>4 DEF MetroStatus
<1>5. CASE UNCHANGED logVars
  BY <1>2, <1>5 DEF logVars
<1> QED
  BY <1>1, <1>3, <1>4, <1>5, PollKeeps DEF LogNext

-----------------------------------------------------------------------------
(* What a row of the ring is.                                              *)
CapturedRow == [id : RequestIds, sequence : Nat,
                state : {"pending", "finished", "failed"}, body : Bodies]

(* The ring holds rows,                                                    *)
RowsAre == rows \in Seq(CapturedRow)

(* numbered without a gap up to the last one;                              *)
Numbered ==
    /\ last \in Nat /\ oldest \in Nat /\ oldest + Len(rows) = last + 1
    /\ \A j \in DOMAIN rows : rows[j].sequence = oldest + j - 1

(* the agent has no tap and no epoch that comes;                           *)
AgentIsBehind ==
    /\ taps \in Nat /\ ringEpoch \in Nat
    /\ agent \in [tap : Nat, epoch : Nat, sequence : Nat]
    /\ agent.tap <= taps
    /\ agent.tap = taps => agent.epoch <= ringEpoch

(* a row of the ring and one a viewer knows of differ by what the next     *)
(* delta tells, or by a row no event came for.                             *)
Dirtied ==
    /\ Ids(rows) \subseteq added \cup (view \ evicted) \cup untold
    /\ (view \ evicted) \cup added \subseteq Ids(rows) \cup untold

(* The inductive invariant of CaptureRing.                                 *)
RingInv == RowsAre /\ Numbered /\ AgentIsBehind /\ CursorSkipsNothing /\ Dirtied

(* A ring is what its rows are, one by one.                                *)
LEMMA RowByRow ==
    ASSUME RowsAre
    PROVE  /\ Len(rows) \in Nat /\ DOMAIN rows = 1..Len(rows)
           /\ \A j \in DOMAIN rows : rows[j] \in CapturedRow /\ rows[j].id \in Ids(rows)
BY DEF RowsAre, Ids

(* A request that is known has a row of its own.                           *)
LEMMA RowIs == ASSUME RowsAre, NEW i, Known(i)
               PROVE  Row(i) \in DOMAIN rows /\ rows[Row(i)].id = i
BY DEF Known, Ids, Row

(* Who has no row is pending without a body.                               *)
LEMMA RowStates == ASSUME RowsAre, NEW i
                   PROVE  StateOf(i) \in {"pending", "finished", "failed"} /\ BodyOf(i) \in Bodies
<1>1. CASE Known(i)
  <2>1. rows[Row(i)] \in CapturedRow
    BY <1>1, RowIs, RowByRow
  <2> QED
    BY <1>1, <2>1 DEF StateOf, BodyOf, CapturedRow
<1>2. CASE ~Known(i)
  BY <1>2 DEF StateOf, BodyOf, Bodies
<1> QED
  BY <1>1, <1>2

(* An upsert of a known request changes its row in place;                  *)
LEMMA UpsertKnown ==
    ASSUME RowsAre, Numbered, NEW i \in RequestIds, Known(i),
           NEW s \in {"pending", "finished", "failed"}, NEW b \in Bodies, Upsert(i, s, b)
    PROVE  /\ RowsAre' /\ Numbered' /\ Ids(rows') = Ids(rows)
           /\ UNCHANGED <<last, oldest, ringEpoch>>
<1> DEFINE r == Row(i)
           new == [[rows[r] EXCEPT !.state = s] EXCEPT !.body = b]
<1>1. /\ rows' = [[rows EXCEPT ![r].state = s] EXCEPT ![r].body = b]
      /\ UNCHANGED <<last, oldest, ringEpoch>>
  BY DEF Upsert
<1>2. r \in 1..Len(rows) /\ rows[r] \in CapturedRow /\ Len(rows) \in Nat
  BY RowIs, RowByRow
<1>3. new \in CapturedRow /\ new.id = rows[r].id /\ new.sequence = rows[r].sequence
  BY <1>2 DEF CapturedRow
<1>4. rows' = [rows EXCEPT ![r] = new]
  BY <1>1, <1>2 DEF RowsAre
<1> HIDE DEF new, r
<1>5. rows' \in Seq(CapturedRow) /\ Len(rows') = Len(rows)
  BY <1>2, <1>3, <1>4 DEF RowsAre
<1>6. \A j \in 1..Len(rows) : rows'[j].id = rows[j].id /\ rows'[j].sequence = rows[j].sequence
  BY <1>2, <1>3, <1>4 DEF RowsAre
<1>7. DOMAIN rows = 1..Len(rows) /\ DOMAIN rows' = 1..Len(rows)
  BY <1>4, RowByRow
<1> QED
  BY <1>1, <1>5, <1>6, <1>7 DEF RowsAre, Numbered, Ids

(* one of a new request numbers a new row, and drops the oldest when the   *)
(* ring is full.                                                           *)
LEMMA UpsertNew ==
    ASSUME RowsAre, Numbered, NEW i \in RequestIds, ~Known(i),
           NEW s \in {"pending", "finished", "failed"}, NEW b \in Bodies, Upsert(i, s, b)
    PROVE  /\ RowsAre' /\ Numbered' /\ UNCHANGED ringEpoch
           /\ Ids(rows') \subseteq Ids(rows) \cup {i}
<1> DEFINE new == [id |-> i, sequence |-> last + 1, state |-> s, body |-> b]
           longer == Append(rows, new)
           n == Len(rows)
<1>1. /\ last' = last + 1 /\ rows' = IF Len(longer) > RingCapacity THEN Tail(longer) ELSE longer
      /\ oldest' = Head(rows').sequence /\ UNCHANGED ringEpoch
  BY DEF Upsert
<1>0. last' = last + 1 /\ UNCHANGED ringEpoch
  BY <1>1
<1>2. new \in CapturedRow /\ new.id = i /\ new.sequence = last + 1
  BY DEF CapturedRow, Numbered
<1>3. /\ n \in Nat /\ last \in Nat /\ oldest \in Nat /\ oldest + n = last + 1
      /\ \A j \in 1..n : rows[j].sequence = oldest + j - 1 /\ rows[j].id \in Ids(rows)
  BY RowByRow DEF Numbered
<1> HIDE DEF new
<1>4. /\ longer \in Seq(CapturedRow) /\ Len(longer) = n + 1
      /\ \A j \in 1..n : longer[j] = rows[j]
      /\ longer[n + 1] = new
  BY <1>2 DEF RowsAre
<1> HIDE DEF longer, n
<1>5. \A j \in 1..(n + 1) :
        longer[j].sequence = oldest + j - 1 /\ longer[j].id \in Ids(rows) \cup {i}
  <2> TAKE j \in 1..(n + 1)
  <2>1. CASE j \in 1..n
    BY <1>3, <1>4, <2>1
  <2>2. CASE j = n + 1
    BY <1>2, <1>3, <1>4, <2>2
  <2> QED
    BY <1>3, <2>1, <2>2
<1>6. CASE Len(longer) > RingCapacity
  <2>1. rows' = Tail(longer) /\ Len(rows') = n /\ rows' \in Seq(CapturedRow) /\ 1 <= n
    BY <1>1, <1>3, <1>4, <1>6, CaptureBounds
  <2>2. \A j \in 1..n : rows'[j] = longer[j + 1]
    BY <1>3, <1>4, <2>1
  <2>3. \A j \in 1..n : j + 1 \in 1..(n + 1) /\ oldest + (j + 1) - 1 = oldest + 1 + j - 1
    BY <1>3
  <2>4. \A j \in 1..n : rows'[j].sequence = oldest + 1 + j - 1 /\ rows'[j].id \in Ids(rows) \cup {i}
    BY <1>5, <2>2, <2>3
  <2>5. oldest' = oldest + 1
    <3>1. Head(rows') = rows'[1] /\ 1 \in 1..n /\ oldest + 1 + 1 - 1 = oldest + 1
      BY <1>3, <2>1
    <3> QED
      BY <1>1, <2>4, <3>1
  <2>6. DOMAIN rows' = 1..n
    BY <2>1
  <2>7. oldest' + n = last' + 1 /\ oldest' \in Nat /\ last' \in Nat
    BY <1>0, <1>3, <2>5
  <2> QED
    BY <1>0, <2>1, <2>4, <2>5, <2>6, <2>7 DEF RowsAre, Numbered, Ids
<1>7. CASE ~(Len(longer) > RingCapacity)
  <2>1. rows' = longer
    BY <1>1, <1>7
  <2>2. oldest' = oldest
    <3>1. Head(rows') = rows'[1] /\ 1 \in 1..(n + 1) /\ oldest + 1 - 1 = oldest
      BY <1>3, <1>4, <2>1
    <3> QED
      BY <1>1, <1>5, <2>1, <3>1
  <2>3. DOMAIN rows' = 1..(n + 1) /\ oldest' + (n + 1) = last' + 1 /\ last' \in Nat
    BY <1>0, <1>3, <1>4, <2>1, <2>2
  <2>4. rows' \in Seq(CapturedRow) /\ Len(rows') = n + 1 /\ oldest' \in Nat
    BY <1>3, <1>4, <2>1, <2>2
  <2>5. \A j \in 1..(n + 1) :
            rows'[j].sequence = oldest' + j - 1 /\ rows'[j].id \in Ids(rows) \cup {i}
    BY <1>5, <2>1, <2>2
  <2> QED
    BY <1>0, <2>3, <2>4, <2>5 DEF RowsAre, Numbered, Ids
<1> QED
  BY <1>6, <1>7

(* So an upsert keeps the rows and their numbers.                          *)
LEMMA Upserting ==
    ASSUME RowsAre, Numbered, NEW i \in RequestIds,
           NEW s \in {"pending", "finished", "failed"}, NEW b \in Bodies, Upsert(i, s, b)
    PROVE  /\ RowsAre' /\ Numbered' /\ UNCHANGED ringEpoch
           /\ Ids(rows') \subseteq Ids(rows) \cup {i}
<1>1. Known(i) => i \in Ids(rows)
  BY DEF Known
<1> QED
  BY <1>1, UpsertKnown, UpsertNew

(* What the agent has is not touched by an upsert.                         *)
LEMMA AgentStays ==
    ASSUME AgentIsBehind, CursorSkipsNothing,
           UNCHANGED <<taps, agent, given, leftOut, ringEpoch>>
    PROVE  AgentIsBehind' /\ CursorSkipsNothing'
BY DEF AgentIsBehind, CursorSkipsNothing

(* An event of the target tells of what it adds and drops;                 *)
LEMMA EventKeeps ==
    ASSUME RingInv, NEW i \in RequestIds,
           NEW s \in {"pending", "finished", "failed"}, NEW b \in Bodies, Upsert(i, s, b),
           ReconcileDirty, UNCHANGED <<taps, agentVars>>
    PROVE  RingInv'
<1>1. RowsAre' /\ Numbered' /\ ringEpoch' = ringEpoch
  BY Upserting DEF RingInv
<1>2. Dirtied'
  <2> DEFINE gone == Ids(rows) \ Ids(rows')
  <2>1. /\ added' = (added \cup (Ids(rows') \ Ids(rows))) \ gone /\ evicted' = evicted \cup gone
        /\ untold' = untold \ gone /\ view' = view
    BY DEF ReconcileDirty
  <2>2. Dirtied
    BY DEF RingInv
  <2> QED
    BY <2>1, <2>2 DEF Dirtied
<1> QED
  BY <1>1, <1>2, AgentStays DEF RingInv, agentVars

(* the result of a body does not;                                          *)
LEMMA ResultKeeps ==
    ASSUME RingInv, NEW i \in RequestIds, NEW answer \in {"text", "failed"}, BodyResult(i, answer)
    PROVE  RingInv'
<1>1. UNCHANGED <<taps, agent, given, leftOut, added, evicted, view>>
  BY DEF BodyResult, agentVars
<1>2. CASE disposed \/ (~Known(i) /\ last = MaxRows)
  <2>1. UNCHANGED <<rows, last, oldest, ringEpoch, untold>>
    BY <1>2 DEF BodyResult, ringVars
  <2> QED
    BY <1>1, <2>1 DEF RingInv, RowsAre, Numbered, AgentIsBehind, CursorSkipsNothing, Dirtied
<1>3. CASE ~(disposed \/ (~Known(i) /\ last = MaxRows))
  <2> DEFINE body == IF StateOf(i) = "finished" THEN answer ELSE BodyOf(i)
  <2>1. /\ Upsert(i, StateOf(i), body)
        /\ untold' = IF Known(i) THEN untold
                     ELSE (untold \cup {i}) \cup (Ids(rows) \ Ids(rows'))
    BY <1>3 DEF BodyResult
  <2>2. StateOf(i) \in {"pending", "finished", "failed"} /\ body \in Bodies
    BY RowStates DEF RingInv, Bodies
  <2> HIDE DEF body
  <2>3. RowsAre' /\ Numbered' /\ ringEpoch' = ringEpoch /\ Ids(rows') \subseteq Ids(rows) \cup {i}
    BY <2>1, <2>2, Upserting DEF RingInv
  <2>4. Known(i) => Ids(rows') = Ids(rows)
    BY <2>1, <2>2, UpsertKnown DEF RingInv
  <2>5. Dirtied'
    BY <1>1, <2>1, <2>3, <2>4 DEF RingInv, Dirtied
  <2> QED
    BY <1>1, <2>3, <2>5, AgentStays DEF RingInv
<1> QED
  BY <1>2, <1>3

(* a new epoch has no rows and the viewer is told so;                      *)
LEMMA EpochKeeps ==
    ASSUME RingInv, UNCHANGED taps, NewEpoch,
           ForgetDirty \/ (untold' = added \cup evicted /\ UNCHANGED <<added, evicted>>)
    PROVE  RingInv'
<1>1. /\ ringEpoch' = ringEpoch + 1 /\ rows' = <<>> /\ last' = 0 /\ oldest' = 1
      /\ view' = {} /\ UNCHANGED agent
  BY DEF NewEpoch
<1>2. RowsAre' /\ Numbered' /\ Ids(rows') = {}
  BY <1>1 DEF RowsAre, Numbered, Ids
<1>3. AgentIsBehind' /\ CursorSkipsNothing'
  BY <1>1 DEF RingInv, AgentIsBehind, CursorSkipsNothing
<1>4. Dirtied'
  BY <1>1, <1>2 DEF Dirtied, ForgetDirty
<1> QED
  BY <1>2, <1>3, <1>4 DEF RingInv

(* a poll gives the rows behind the cursor, but for what the agent's own   *)
(* limit and filter take away, or says that some were dropped.             *)
LEMMA ListKeeps ==
    ASSUME RingInv, NEW byStatus, NEW limit, ListNetwork(byStatus, limit)
    PROVE  RingInv'
<1> DEFINE known == given \cup leftOut
<1>1. /\ agent' = [tap |-> taps, epoch |-> ringEpoch, sequence |-> last]
      /\ known \cup Sequences(Page)
               \cup (IF CursorDropped THEN 1..(oldest - 1) ELSE {})
               \cup (IF agent.tap # taps THEN 1..Since ELSE {}) \subseteq known'
      /\ UNCHANGED <<rows, last, oldest, ringEpoch, added, evicted, view, untold, taps>>
  <2>1. Sequences(Page) \subseteq Sequences(Filtered(byStatus, limit))
                                      \cup Sequences(Page \ Filtered(byStatus, limit))
    BY DEF Sequences
  <2> QED
    BY <2>1 DEF ListNetwork, ringVars, deltaVars
<1> HIDE DEF known
<1>2. RowsAre' /\ Numbered' /\ AgentIsBehind' /\ Dirtied'
  BY <1>1 DEF RingInv, RowsAre, Numbered, AgentIsBehind, Dirtied
<1>3. ASSUME NEW n \in 1..last PROVE n \in known'
  <2>0. /\ n \in Nat /\ 1 <= n /\ n <= last /\ Since \in Nat /\ last \in Nat /\ oldest \in Nat
        /\ agent.sequence \in Nat
    BY DEF RingInv, AgentIsBehind, Numbered, Since
  <2>1. CASE n <= Since
    <3>1. agent.epoch = ringEpoch /\ Since = agent.sequence
      BY <2>0, <2>1 DEF Since
    <3>2. CASE agent.tap = taps
      BY <1>1, <2>0, <2>1, <3>1, <3>2 DEF RingInv, CursorSkipsNothing, known
    <3>3. CASE agent.tap # taps
      BY <1>1, <2>0, <2>1, <3>3
    <3> QED
      BY <3>2, <3>3
  <2>2. CASE n > Since /\ n < oldest
    <3>1. CursorDropped
      BY <2>0, <2>2 DEF CursorDropped, Since
    <3> QED
      BY <1>1, <2>0, <2>2, <3>1
  <2>3. CASE n > Since /\ n >= oldest
    <3> DEFINE j == n - oldest + 1
    <3>1. j \in 1..Len(rows) /\ Len(rows) \in Nat
      BY <2>0, <2>3, RowByRow DEF RingInv, Numbered
    <3>2. j \in DOMAIN rows /\ rows[j].sequence = n
      BY <2>0, <3>1, RowByRow DEF RingInv, Numbered
    <3> HIDE DEF j
    <3>3. rows[j] \in Page
      BY <2>3, <3>2 DEF Page, Range
    <3>4. n \in Sequences(Page)
      BY <3>2, <3>3 DEF Sequences
    <3> QED
      BY <1>1, <3>4
  <2> QED
    BY <2>0, <2>1, <2>2, <2>3
<1>4. CursorSkipsNothing'
  <2>1. agent'.sequence = last
    BY <1>1
  <2> QED
    BY <1>3, <2>1 DEF CursorSkipsNothing, known
<1> QED
  BY <1>2, <1>4 DEF RingInv

(* The invariant holds when the devtools start                             *)
LEMMA RingInvInit == CaptureInit => RingInv
<1> SUFFICES ASSUME CaptureInit PROVE RingInv
  OBVIOUS
<1>1. RowsAre /\ Numbered /\ Dirtied
  BY DEF CaptureInit, RowsAre, Numbered, Dirtied, Ids
<1>2. AgentIsBehind /\ CursorSkipsNothing
  BY DEF CaptureInit, AgentIsBehind, CursorSkipsNothing, NoAgent
<1> QED
  BY <1>1, <1>2 DEF RingInv

(* and after every step.                                                   *)
LEMMA RingInvNext == RingInv /\ [CaptureNext]_captureVars => RingInv'
<1> SUFFICES ASSUME RingInv, [CaptureNext]_captureVars PROVE RingInv'
  OBVIOUS
<1>1. ASSUME NEW i \in RequestIds, NEW mime,
             \/ RequestWillBeSent(i) \/ LoadingFinished(i) \/ LoadingFailed(i)
             \/ ResponseReceived(i, mime)
      PROVE  RingInv'
  <2>1. BodyOf(i) \in Bodies /\ "none" \in Bodies /\ "awaited" \in Bodies
    BY RowStates DEF RingInv, Bodies
  <2>2. /\ \E s \in {"pending", "finished", "failed"}, b \in Bodies : Upsert(i, s, b)
        /\ ReconcileDirty /\ UNCHANGED <<taps, agentVars>>
    BY <1>1, <2>1 DEF RequestWillBeSent, LoadingFinished, LoadingFailed, ResponseReceived
  <2> QED
    BY <2>2, EventKeeps
<1>2. CASE ClearRing \/ MetroEnded \/ TargetSwapBegins
  BY <1>2, EpochKeeps DEF ClearRing, MetroEnded, TargetSwapBegins
<1>3. CASE RingRestarts
  <2>1. /\ rows' = <<>> /\ last' = 0 /\ oldest' = 1 /\ ringEpoch' = 1 /\ taps' = taps + 1
        /\ view' = {} /\ UNCHANGED agent /\ ForgetDirty
    BY <1>3 DEF RingRestarts
  <2>2. RowsAre' /\ Numbered' /\ Dirtied'
    BY <2>1 DEF RowsAre, Numbered, Ids, Dirtied, ForgetDirty
  <2>3. AgentIsBehind' /\ CursorSkipsNothing'
    BY <2>1 DEF RingInv, AgentIsBehind, CursorSkipsNothing
  <2> QED
    BY <2>2, <2>3 DEF RingInv
<1>4. CASE FlushDelta
  <2>1. UNCHANGED <<rows, last, oldest, ringEpoch, taps, agent, given, leftOut, untold>>
    BY <1>4 DEF FlushDelta, ringVars, agentVars
  <2>2. Dirtied'
    BY <1>4, <2>1 DEF FlushDelta, RingInv, Dirtied
  <2> QED
    BY <2>1, <2>2 DEF RingInv, RowsAre, Numbered, AgentIsBehind, CursorSkipsNothing
<1>5. CASE TargetSwapEnds \/ UNCHANGED captureVars
  <2>1. UNCHANGED <<rows, last, oldest, ringEpoch, taps, agent, given, leftOut, untold,
                    added, evicted, view>>
    BY <1>5 DEF TargetSwapEnds, captureVars, ringVars, agentVars, deltaVars
  <2> QED
    BY <2>1 DEF RingInv, RowsAre, Numbered, AgentIsBehind, CursorSkipsNothing, Dirtied
<1> QED
  BY <1>1, <1>2, <1>3, <1>4, <1>5, ResultKeeps, ListKeeps DEF CaptureNext, TapNext, ListNext

(* What the next delta tells is then all there is to tell.                 *)
LEMMA DeltasTell == RingInv => DeltasTellRows
BY DEF RingInv, Dirtied, DeltasTellRows

-----------------------------------------------------------------------------
(* No line of Metro and no captured request that is still kept is passed   *)
(* by a cursor unseen, and every row reaches the viewer, but in the ways   *)
(* the property names: for any capacity, page size, limit and number of    *)
(* lines, requests and restarts (buffer.ts:186-218, domain-tap.ts:229-244, *)
(* devtools.ts:396-440, 529-582).                                          *)
THEOREM ReadersMiss == LogSpec /\ CaptureSpec => []ReadersMissNothing
<1>1. LogInit /\ CaptureInit => LogInv /\ RingInv
  BY LogInvInit, RingInvInit
<1>2. LogInv /\ [LogNext]_logVars => LogInv'
  BY LogInvNext
<1>3. RingInv /\ [CaptureNext]_captureVars => RingInv'
  BY RingInvNext
<1>4. LogInv /\ RingInv => ReadersMissNothing
  BY DeltasTell DEF LogInv, RingInv, ReadersMissNothing
<1> QED
  BY <1>1, <1>2, <1>3, <1>4, PTL DEF LogSpec, CaptureSpec

===============================================================================

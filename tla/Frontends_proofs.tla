--------------------------- MODULE Frontends_proofs ---------------------------
(***************************************************************************)
(* Proofs about what stands between the user and the daemon.               *)
(*                                                                         *)
(* ElectronMain, for any profiles, openings and crashes: once a crash of   *)
(* the daemon is noticed, nothing of the daemon that died is held. Two     *)
(* sessions may be attached at once, and only the loss of the one that     *)
(* `noticing` names clears what is held. That is enough because of two     *)
(* facts: a crash drops every socket there is (NoMix), so that no new one  *)
(* is opened beside a dropped one; and whatever is held while its socket   *)
(* is not open is held until the loss of `noticing` is told (HeldIsOpen).  *)
(*                                                                         *)
(* ModuleConfig: a module that runs has the configuration on disk when it  *)
(* has read all it was sent, because each change is sent in order.         *)
(*                                                                         *)
(* McpServer and Marketplace: both read a list again after each event. The *)
(* argument is about the order on the wire: as long as what is shown is    *)
(* older than the last event, an answer that is younger is on its way, or  *)
(* the question is, and nothing older comes after it.                      *)
(*                                                                         *)
(* Marketplace: what the view installs is what its user agreed to, since   *)
(* what was agreed to and what is checked are of one document.             *)
(*                                                                         *)
(* ProfileSetup: what the terminal wizard holds fits its platform from the *)
(* device step on.                                                         *)
(*                                                                         *)
(* PanelBridge and HostCalls: the last that the renderer asks is to show   *)
(* what it has mounted, and the table of bound modules is cleared with the *)
(* connection it is about.                                                 *)
(*                                                                         *)
(* RendererTabs: the last word on an instance among the messages on their  *)
(* way decides whether the page will show it; and from the last message    *)
(* that replaces its log, what the page will have of it begins the log of  *)
(* the main process, and the lines on their way are the rest of it.        *)
(***************************************************************************)
EXTENDS MCFrontends, SequenceTheorems, FiniteSetTheorems, WellFoundedInduction, TLAPS

(* Openings whose socket was dropped and whose loss was not yet told.      *)
Dropped == {o \in Opens : socket[o] = "dropped"}

(* The variables that matter, typed.                                       *)
Shapes ==
    /\ kind \in [Opens -> {"load", "create"}]
    /\ phase \in [Opens -> {"none", "looking", "prompting", "attaching", "wired", "sharing",
                            "mismatch", "failed"}]
    /\ socket \in [Opens -> {"none", "waiting", "open", "dropped", "closed"}]
    /\ outcome \in [Opens -> {"none", "running", "failed"}]
    /\ {held, noticing, deps} \subseteq 0..MaxOpens

(* A crash spares no socket, and while one is dropped none is opened.      *)
NoMix == Dropped # {} => \A o \in Opens : socket[o] \notin {"waiting", "open"}

(* What the phase of an opening says of its socket.                        *)
SocketOfPhase ==
    \A o \in Opens :
        /\ phase[o] \in {"none", "looking", "prompting"} => socket[o] = "none"
        /\ socket[o] = "none" => outcome[o] = "none"
        /\ phase[o] = "attaching" => socket[o] \in {"none", "waiting", "dropped"}

(* The opening that is noticing is wired, and without one nothing is held. *)
NoticingIsWired ==
    /\ noticing # 0 => phase[noticing] = "wired" /\ socket[noticing] \in {"open", "dropped"}
    /\ noticing = 0 => held = 0 /\ deps = 0

(* What is held is open, or its loss is about to be told.                  *)
HeldIsOpen ==
    \A o \in {deps, held} : o # 0 => \/ socket[o] = "open"
                                     \/ socket[noticing] = "dropped"

(* The inductive invariant.                                                *)
ElectronInv == Shapes /\ NoMix /\ SocketOfPhase /\ NoticingIsWired /\ HeldIsOpen

-----------------------------------------------------------------------------
(* Openings are numbers, and 0 is none of them.                            *)
LEMMA OpensAreNumbers ==
    Opens \subseteq 0..MaxOpens /\ 0 \notin Opens /\ 0..MaxOpens = Opens \cup {0}
BY ElectronAssumption DEF Opens

(* The invariant holds before a tab is opened.                             *)
LEMMA ElectronInvInit == ElectronInit => ElectronInv
BY OpensAreNumbers
   DEF ElectronInit, ElectronInv, Shapes, NoMix, Dropped, SocketOfPhase, NoticingIsWired, HeldIsOpen

(* An opening before it has a socket.                                      *)
LEMMA OpeningKeeps ==
    ASSUME ElectronInv, NEW o \in Opens,
           \/ \E k \in {"load", "create"}, p \in TabProfiles : Open(o, k, p)
           \/ Show(o) \/ SettlePrompts(o)
    PROVE  ElectronInv'
<1>1. /\ phase[o] \in {"none", "looking", "prompting"}
      /\ \E w \in {"looking", "prompting", "attaching", "sharing", "mismatch"} :
            phase' = [phase EXCEPT ![o] = w]
      /\ UNCHANGED <<holding, wires>>
  <2>1. CASE \E k \in {"load", "create"}, p \in TabProfiles : Open(o, k, p)
    BY <2>1 DEF Open, Moves
  <2>2. CASE Show(o)
    <3>1. CASE kind[o] = "load"
      BY <2>2, <3>1 DEF Show, Moves
    <3>2. CASE kind[o] = "create" /\ held = 0
      BY <2>2, <3>2 DEF Show, Moves
    <3>3. CASE kind[o] = "create" /\ held # 0
      BY <2>2, <3>3 DEF Show, Moves
    <3> QED
      BY <3>1, <3>2, <3>3 DEF ElectronInv, Shapes
  <2>3. CASE SettlePrompts(o)
    BY <2>3 DEF SettlePrompts, Moves
  <2> QED
    BY <2>1, <2>2, <2>3
<1>2. Shapes'
  <2>1. kind' \in [Opens -> {"load", "create"}]
    BY DEF Open, Show, SettlePrompts, ElectronInv, Shapes
  <2>2. phase' \in [Opens -> {"none", "looking", "prompting", "attaching", "wired", "sharing",
                              "mismatch", "failed"}]
    <3>1. PICK w \in {"looking", "prompting", "attaching", "sharing", "mismatch"} :
              phase' = [phase EXCEPT ![o] = w]
      BY <1>1
    <3> QED
      BY <3>1 DEF ElectronInv, Shapes
  <2>3. UNCHANGED <<held, noticing, deps, socket, outcome>>
    BY <1>1 DEF holding, wires
  <2> QED
    BY <2>1, <2>2, <2>3 DEF ElectronInv, Shapes
<1>3. NoMix' /\ HeldIsOpen'
  BY <1>1 DEF holding, wires, ElectronInv, NoMix, HeldIsOpen, Dropped
<1>4. SocketOfPhase' /\ NoticingIsWired'
  BY <1>1, OpensAreNumbers DEF holding, wires, ElectronInv, Shapes, SocketOfPhase, NoticingIsWired
<1> QED
  BY <1>2, <1>3, <1>4 DEF ElectronInv

(* Nothing that the invariant speaks of changes.                           *)
LEMMA SameKeeps ==
    ASSUME ElectronInv, UNCHANGED <<kind, phase, deps, noticing, wires>>, held' \in {held, 0}
    PROVE  ElectronInv'
BY OpensAreNumbers
   DEF wires, ElectronInv, Shapes, NoMix, Dropped, SocketOfPhase, NoticingIsWired, HeldIsOpen

(* A subscription opens a socket while none is dropped.                    *)
LEMMA SubscribeKeeps ==
    ASSUME ElectronInv, NEW o \in Opens, Subscribe(o)
    PROVE  ElectronInv'
<1>1. /\ phase[o] = "attaching" /\ socket[o] = "none" /\ Dropped = {} /\ outcome[o] = "none"
      /\ \/ phase' = [phase EXCEPT ![o] = "failed"] /\ socket' = [socket EXCEPT ![o] = "closed"]
         \/ phase' = phase /\ socket' = [socket EXCEPT ![o] = "waiting"]
      /\ UNCHANGED <<kind, holding, outcome>>
  BY DEF Subscribe, Moves, Dropped, ElectronInv, SocketOfPhase
<1>2. Shapes'
  BY <1>1 DEF holding, ElectronInv, Shapes
<1>3. NoMix'
  BY <1>1 DEF ElectronInv, Shapes, NoMix, Dropped
<1>4. SocketOfPhase'
  BY <1>1 DEF ElectronInv, Shapes, SocketOfPhase
<1>5. \/ o # noticing /\ socket[o] # "open" /\ socket[noticing] # "dropped"
      \/ noticing = 0
  BY <1>1, OpensAreNumbers DEF ElectronInv, Shapes, NoticingIsWired, Dropped
<1>6. NoticingIsWired'
  BY <1>1, OpensAreNumbers DEF holding, ElectronInv, Shapes, NoticingIsWired
<1>7. HeldIsOpen'
  BY <1>1, <1>5, OpensAreNumbers DEF holding, ElectronInv, Shapes, NoticingIsWired, HeldIsOpen,
      Dropped
<1> QED
  BY <1>2, <1>3, <1>4, <1>6, <1>7 DEF ElectronInv

(* The daemon settles boots: outcomes come to openings that wait.          *)
LEMMA OutcomeKeeps ==
    ASSUME ElectronInv, outcome' \in [Opens -> {"none", "running", "failed"}],
           \A o \in Opens : outcome'[o] # outcome[o] => o \in Waiting,
           UNCHANGED <<kind, phase, holding, socket>>
    PROVE  ElectronInv'
BY OpensAreNumbers
   DEF holding, ElectronInv, Shapes, NoMix, Dropped, SocketOfPhase, NoticingIsWired, HeldIsOpen,
       Waiting

(* A crash of the daemon drops all sockets at once.                        *)
LEMMA CrashKeeps == ElectronInv /\ DaemonCrashes => ElectronInv'
<1> SUFFICES ASSUME ElectronInv, DaemonCrashes PROVE ElectronInv'
  OBVIOUS
<1>1. /\ socket' = [o \in Opens |->
             IF socket[o] \in {"waiting", "open"} THEN "dropped" ELSE socket[o]]
      /\ outcome' = [o \in Opens |-> IF o \in Waiting THEN "failed" ELSE outcome[o]]
      /\ UNCHANGED <<kind, phase, holding>>
  BY DEF DaemonCrashes, SettlesWaiting, openings
<1>2. Shapes'
  BY <1>1 DEF holding, ElectronInv, Shapes
<1>3. NoMix'
  BY <1>1 DEF NoMix
<1>4. SocketOfPhase'
  BY <1>1 DEF ElectronInv, Shapes, SocketOfPhase, Waiting
<1>5. NoticingIsWired'
  BY <1>1, OpensAreNumbers DEF holding, ElectronInv, Shapes, NoticingIsWired
<1>6. HeldIsOpen'
  BY <1>1, OpensAreNumbers DEF holding, ElectronInv, Shapes, NoticingIsWired, HeldIsOpen
<1> QED
  BY <1>2, <1>3, <1>4, <1>5, <1>6 DEF ElectronInv

(* The new session is noticed from now on.  Were its socket opened while   *)
(* something stale is held, the socket noticed so far would be dropped     *)
(* beside one that waits.                                                  *)
LEMMA AttachedKeeps ==
    ASSUME ElectronInv, NEW o \in Opens, Attached(o)
    PROVE  ElectronInv'
<1>1. /\ phase[o] = "attaching" /\ socket[o] \in {"waiting", "dropped"}
      /\ phase' = [phase EXCEPT ![o] = "wired"]
      /\ socket' = [socket EXCEPT ![o] = IF socket[o] = "waiting" THEN "open" ELSE socket[o]]
      /\ held' = o /\ noticing' = o /\ deps' = (IF deps = 0 THEN o ELSE deps)
      /\ UNCHANGED <<kind, outcome>>
  BY DEF Attached, Moves, ElectronInv, SocketOfPhase
<1>2. o # 0 /\ o \in 0..MaxOpens
  BY OpensAreNumbers
<1>3. Shapes'
  BY <1>1, <1>2 DEF ElectronInv, Shapes
<1>4. NoMix'
  BY <1>1 DEF ElectronInv, Shapes, NoMix, Dropped
<1>5. SocketOfPhase'
  BY <1>1 DEF ElectronInv, Shapes, SocketOfPhase
<1>6. NoticingIsWired'
  BY <1>1, <1>2 DEF ElectronInv, Shapes, NoticingIsWired
<1>7. HeldIsOpen'
  <2>1. CASE socket[o] = "dropped"
    BY <1>1, <2>1 DEF ElectronInv, Shapes, HeldIsOpen
  <2>2. CASE socket[o] = "waiting"
    <3>1. Dropped = {}
      BY <2>2 DEF ElectronInv, NoMix
    <3>2. deps # 0 => socket[deps] = "open" /\ deps \in Opens
      BY <3>1, OpensAreNumbers DEF ElectronInv, Shapes, HeldIsOpen, NoticingIsWired, Dropped
    <3> QED
      BY <1>1, <2>2, <3>2 DEF ElectronInv, Shapes, HeldIsOpen
  <2> QED
    BY <1>1, <2>1, <2>2
<1> QED
  BY <1>3, <1>4, <1>5, <1>6, <1>7 DEF ElectronInv

(* An opening whose attach fails closes its socket and holds nothing.      *)
LEMMA AttachFailsKeeps ==
    ASSUME ElectronInv, NEW o \in Opens, AttachFails(o)
    PROVE  ElectronInv'
<1>1. /\ phase[o] = "attaching" /\ socket[o] \in {"waiting", "dropped"}
      /\ phase' = [phase EXCEPT ![o] = "failed"]
      /\ socket' = [socket EXCEPT ![o] = "closed"]
      /\ UNCHANGED <<kind, holding, outcome>>
  BY DEF AttachFails, Moves, ElectronInv, SocketOfPhase
<1>2. Shapes'
  BY <1>1 DEF holding, ElectronInv, Shapes
<1>3. NoMix'
  BY <1>1 DEF ElectronInv, Shapes, NoMix, Dropped
<1>4. SocketOfPhase'
  BY <1>1 DEF ElectronInv, Shapes, SocketOfPhase
<1>5. o # noticing
  BY <1>1, OpensAreNumbers DEF ElectronInv, NoticingIsWired
<1>6. NoticingIsWired'
  BY <1>1, <1>5, OpensAreNumbers DEF holding, ElectronInv, Shapes, NoticingIsWired
<1>7. HeldIsOpen'
  BY <1>1, <1>5, OpensAreNumbers DEF holding, ElectronInv, Shapes, NoticingIsWired, HeldIsOpen
<1> QED
  BY <1>2, <1>3, <1>4, <1>6, <1>7 DEF ElectronInv

(* A loss that is told clears what is held.                                *)
LEMMA DisconnectKeeps ==
    ASSUME ElectronInv, NEW o \in Opens, SurfaceDisconnect(o)
    PROVE  ElectronInv'
<1>1. /\ phase[o] = "wired" /\ socket[o] = "dropped"
      /\ socket' = [socket EXCEPT ![o] = "closed"]
      /\ \/ noticing = o /\ held' = 0 /\ noticing' = 0 /\ deps' = 0
         \/ noticing # o /\ UNCHANGED holding
      /\ UNCHANGED <<kind, phase, outcome>>
  BY DEF SurfaceDisconnect, openings
<1>2. Shapes'
  BY <1>1, OpensAreNumbers DEF holding, ElectronInv, Shapes, Opens
<1>3. NoMix'
  BY <1>1 DEF ElectronInv, Shapes, NoMix, Dropped
<1>4. SocketOfPhase'
  BY <1>1 DEF ElectronInv, Shapes, SocketOfPhase
<1>5. NoticingIsWired'
  BY <1>1, OpensAreNumbers DEF holding, ElectronInv, Shapes, NoticingIsWired
<1>6. HeldIsOpen'
  BY <1>1, OpensAreNumbers DEF holding, ElectronInv, Shapes, NoticingIsWired, HeldIsOpen
<1> QED
  BY <1>2, <1>3, <1>4, <1>5, <1>6 DEF ElectronInv

(* Every step keeps the invariant.                                         *)
LEMMA ElectronInvNext == ElectronInv /\ [ElectronNext]_electronVars => ElectronInv'
<1> SUFFICES ASSUME ElectronInv, [ElectronNext]_electronVars PROVE ElectronInv'
  OBVIOUS
<1>1. ASSUME NEW o \in Opens,
             \/ \E k \in {"load", "create"}, p \in TabProfiles : Open(o, k, p)
             \/ Show(o) \/ SettlePrompts(o)
      PROVE  ElectronInv'
  BY <1>1, OpeningKeeps
<1>2. ASSUME NEW o \in Opens, Subscribe(o) PROVE ElectronInv'
  BY <1>2, SubscribeKeeps
<1>3. ASSUME NEW o \in Opens, Attached(o) PROVE ElectronInv'
  BY <1>3, AttachedKeeps
<1>4. ASSUME NEW o \in Opens, AttachFails(o) PROVE ElectronInv'
  BY <1>4, AttachFailsKeeps
<1>5. ASSUME NEW o \in Opens, SurfaceDisconnect(o) PROVE ElectronInv'
  BY <1>5, DisconnectKeeps
<1>6. ASSUME NEW o \in Opens, SetActive(o) \/ RemoveTab(o) PROVE ElectronInv'
  <2>1. UNCHANGED <<kind, phase, deps, noticing, wires>> /\ held' \in {held, 0}
    BY <1>6 DEF SetActive, RemoveTab, openings, holding
  <2> QED
    BY <2>1, SameKeeps
<1>7. CASE SessionStopped \/ UNCHANGED electronVars
  <2>1. UNCHANGED <<kind, phase, deps, noticing, wires>> /\ held' \in {held, 0}
    BY <1>7 DEF SessionStopped, electronVars, openings, holding
  <2> QED
    BY <2>1, SameKeeps
<1>8. ASSUME \/ SessionReady \/ SessionFails \/ StopArrives
             \/ \E o \in Opens : StatusReplied(o)
      PROVE  ElectronInv'
  <2>1. /\ outcome' \in [Opens -> {"none", "running", "failed"}]
        /\ \A o \in Opens : outcome'[o] # outcome[o] => o \in Waiting
        /\ UNCHANGED <<kind, phase, holding, socket>>
    BY <1>8 DEF SessionReady, SessionFails, StopArrives, StatusReplied, SettlesWaiting,
                openings, wires, ElectronInv, Shapes
  <2> QED
    BY <2>1, OutcomeKeeps
<1>9. CASE DaemonCrashes
  BY <1>9, CrashKeeps
<1> QED
  BY <1>1, <1>2, <1>3, <1>4, <1>5, <1>6, <1>7, <1>8, <1>9 DEF ElectronNext

(* Once a crash has been noticed no handler holds a client of the daemon   *)
(* that died (ipc/services.ts:245-282), for any number of openings.        *)
THEOREM HeldIsLive == ElectronSpec => []DepsAreLive
<1>1. ElectronInv => DepsAreLive
  BY OpensAreNumbers DEF ElectronInv, Shapes, NoticingIsWired, HeldIsOpen, DepsAreLive
<1> QED
  BY ElectronInvInit, ElectronInvNext, <1>1, PTL DEF ElectronSpec

-----------------------------------------------------------------------------
(* Where a module can be.                                                  *)
EntryStates == {"none", "starting", "respawning", "live", "broken", "crashed", "stopping"}

(* What the module is sent.                                                *)
Readings == [type : {"got", "saved"}, config : Configs]

(* The variables that matter, typed.                                       *)
ConfigTypes ==
    /\ toModule \in Seq(Configs) /\ stored \in Configs /\ entry \in EntryStates
    /\ toDaemon \in Seq({<< >>} \cup Configs) /\ formDraft \in Configs
    /\ config \in Configs /\ configEvents \in Seq(Configs)
    /\ replies \in Seq(Readings)

(* The configuration the module has when it has read all it was sent.      *)
LastTold == IF toModule = << >> THEN known ELSE toModule[Len(toModule)]

(* A module that runs has it, or will have when its start ends, unless a   *)
(* change was lost to it.                                                  *)
ToldAll == missed = {} =>
    /\ entry \in {"starting", "respawning"} => toModule = << >> /\ known = stored
    /\ entry = "live" => LastTold = stored

(* The inductive invariant of ModuleConfig.                                *)
ConfigInv == ConfigTypes /\ ToldAll
-----------------------------------------------------------------------------

(* The invariant holds at the beginning.                                   *)
LEMMA ConfigInvInit == ConfigInit => ConfigInv
<1> SUFFICES ASSUME ConfigInit PROVE ConfigInv
  OBVIOUS
<1>1. Empty \in Configs
  BY DEF Empty, Configs
<1>2. << >> \in Seq(Configs) /\ << >> \in Seq({<< >>} \cup Configs)
      /\ << >> \in Seq(Readings)
  OBVIOUS
<1> QED
  BY <1>1, <1>2 DEF ConfigInit, ConfigInv, ConfigTypes, ToldAll, EntryStates

(* A patch makes a configuration of a configuration.                       *)
LEMMA MergedIsConfig ==
    ASSUME ConfigTypes, NEW patch, \A k \in ConfigKeys : k \in DOMAIN patch => patch[k] \in {0, 1}
    PROVE  Merged(patch) \in Configs
BY DEF Merged, ConfigTypes, Configs

(* One more message is the last.                                           *)
LEMMA ConfigAppendIsSeq ==
    ASSUME NEW S, NEW s \in Seq(S), NEW x \in S
    PROVE  /\ Append(s, x) \in Seq(S) /\ Append(s, x) # << >>
           /\ Len(Append(s, x)) = Len(s) + 1 /\ Append(s, x)[Len(s) + 1] = x
OBVIOUS

(* A start keeps the invariant,                                            *)
LEMMA StartsKeep ==
    ASSUME ConfigTypes, NEW to \in {"starting", "respawning"}, Starts(to),
           UNCHANGED <<which, stored, sets, saves, formVars, wireVars, denied>>
    PROVE  ConfigInv'
<1>1. /\ entry' = to /\ known' = stored /\ toModule' = << >> /\ stored' = stored
  BY DEF Starts
<1>2. ConfigTypes'
  BY <1>1 DEF ConfigTypes, EntryStates, formVars, wireVars
<1> QED
  BY <1>1, <1>2 DEF ConfigInv, ToldAll

(* so does a change of state,                                              *)
LEMMA BecomesKeeps ==
    ASSUME ConfigInv, NEW from, NEW to \in EntryStates, Becomes(from, to),
           \/ to \in {"none", "crashed", "broken", "stopping"}
           \/ to = "live" /\ entry \in {"starting", "respawning"}
    PROVE  ConfigInv'
<1>1. ConfigTypes'
  BY DEF Becomes, ConfigInv, ConfigTypes, formVars, wireVars
<1>2. ToldAll'
  BY DEF Becomes, ConfigInv, ToldAll, LastTold
<1> QED
  BY <1>1, <1>2 DEF ConfigInv

(* so does a save,                                                         *)
LEMMA ApplyKeeps ==
    ASSUME ConfigInv, NEW patch, applyConfigSet(patch),
           \A k \in ConfigKeys : k \in DOMAIN patch => patch[k] \in {0, 1},
           UNCHANGED <<entry, known>>
    PROVE  ToldAll' /\ stored' \in Configs /\ toModule' \in Seq(Configs)
           /\ configEvents' \in Seq(Configs)
<1>1. Merged(patch) \in Configs /\ toModule \in Seq(Configs) /\ configEvents \in Seq(Configs)
      /\ stored \in Configs
  BY MergedIsConfig DEF ConfigInv, ConfigTypes
<1>2. CASE Outcome(patch) = "invalid"
  BY <1>1, <1>2 DEF applyConfigSet, ConfigInv, ToldAll, LastTold
<1>3. CASE Outcome(patch) # "invalid"
  <2>1. /\ stored' = Merged(patch)
        /\ toModule' = IF entry = "live" THEN Append(toModule, Merged(patch)) ELSE toModule
        /\ missed' = IF entry \in {"starting", "respawning"} THEN missed \cup {"handshake"}
                                                              ELSE missed
        /\ configEvents' = configEvents \/ configEvents' = Append(configEvents, Merged(patch))
    BY <1>3 DEF applyConfigSet, notifyConfigChanged
  <2>2. stored' \in Configs /\ toModule' \in Seq(Configs) /\ configEvents' \in Seq(Configs)
    BY <1>1, <2>1, ConfigAppendIsSeq
  <2>3. entry = "live" => LastTold' = Merged(patch)
    BY <1>1, <2>1, ConfigAppendIsSeq DEF LastTold
  <2> QED
    BY <2>1, <2>2, <2>3 DEF ToldAll
<1> QED
  BY <1>2, <1>3

(* and every other step.                                                   *)
LEMMA ConfigInvNext == ConfigInv /\ [ConfigNext]_configVars => ConfigInv'
<1> SUFFICES ASSUME ConfigInv, [ConfigNext]_configVars PROVE ConfigInv'
  OBVIOUS
<1>0. ConfigTypes /\ ToldAll
  BY DEF ConfigInv
<1>1. CASE performInitialize \/ onCrashed
  BY <1>0, <1>1, StartsKeep DEF performInitialize, onCrashed
<1>2. CASE Initialized
  BY <1>2, BecomesKeeps DEF Initialized, EntryStates, Becomes
<1>3. CASE InitializeFails \/ PipeCloses \/ stopEntry \/ Stopped
  BY <1>3, BecomesKeeps DEF InitializeFails, PipeCloses, stopEntry, Stopped, EntryStates
<1>4. CASE onConfigChanged
  <2>1. /\ toModule \in Seq(Configs) /\ toModule # << >> /\ entry' = "live" /\ entry = "live"
        /\ known' = Head(toModule) /\ toModule' = Tail(toModule)
        /\ UNCHANGED <<stored, missed, formVars, wireVars>>
    BY <1>0, <1>4 DEF onConfigChanged, ConfigTypes
  <2>2. toModule' \in Seq(Configs)
    BY <2>1
  <2>3. LastTold' = LastTold
    <3>1. /\ Len(toModule) \in Nat /\ Len(toModule) >= 1 /\ Head(toModule) = toModule[1]
          /\ Len(toModule') = Len(toModule) - 1
          /\ \A i \in 1..(Len(toModule) - 1) : toModule'[i] = toModule[i + 1]
      BY <2>1
    <3>2. CASE Len(toModule) = 1
      <4>1. toModule' = << >>
        BY <2>2, <3>1, <3>2
      <4> QED
        BY <2>1, <3>1, <3>2, <4>1 DEF LastTold
    <3>3. CASE Len(toModule) # 1
      <4>1. Len(toModule) - 1 \in 1..(Len(toModule) - 1) /\ (Len(toModule) - 1) + 1 = Len(toModule)
        BY <3>1, <3>3
      <4>2. toModule'[Len(toModule')] = toModule[Len(toModule)]
        BY <3>1, <4>1
      <4>3. toModule' # << >>
        BY <3>1, <3>3
      <4> QED
        BY <2>1, <4>2, <4>3 DEF LastTold
    <3> QED
      BY <3>2, <3>3
  <2>4. ConfigTypes'
    BY <1>0, <2>1, <2>2 DEF ConfigTypes, formVars, wireVars
  <2> QED
    BY <1>0, <2>1, <2>3, <2>4 DEF ConfigInv, ToldAll
<1>5. CASE SetByClient
  <2>1. PICK k \in ConfigKeys, v \in {0, 1} : applyConfigSet([x \in {k} |-> v])
    BY <1>5 DEF SetByClient
  <2>2. UNCHANGED <<entry, known, formVars, toDaemon, replies>>
    BY <1>5 DEF SetByClient
  <2>3. ToldAll' /\ stored' \in Configs /\ toModule' \in Seq(Configs)
        /\ configEvents' \in Seq(Configs)
    BY <2>1, <2>2, ApplyKeeps
  <2> QED
    BY <1>0, <2>2, <2>3 DEF ConfigInv, ConfigTypes, formVars
<1>6. CASE SetByOtherDaemon
  <2>1. stored' \in Configs /\ missed' # {} /\ UNCHANGED <<moduleVars, formVars, wireVars>>
    BY <1>6 DEF SetByOtherDaemon
  <2> QED
    BY <1>0, <2>1 DEF ConfigInv, ConfigTypes, ToldAll, moduleVars, formVars, wireVars
<1>7. CASE Serve
  <2>1. /\ toDaemon # << >> /\ toDaemon' = Tail(toDaemon)
        /\ toDaemon \in Seq({<< >>} \cup Configs) /\ UNCHANGED <<entry, known, formVars>>
    BY <1>0, <1>7 DEF Serve, ConfigTypes
  <2>2. Head(toDaemon) \in {<< >>} \cup Configs /\ toDaemon' \in Seq({<< >>} \cup Configs)
    BY <2>1
  <2>3. \A k \in ConfigKeys : k \in DOMAIN Head(toDaemon) => Head(toDaemon)[k] \in {0, 1}
    BY <2>2 DEF Configs, ConfigKeys
  <2>4. replies' \in Seq(Readings)
    <3>1. Merged(Head(toDaemon)) \in Configs
      BY <1>0, <2>3, MergedIsConfig
    <3>2. replies' = Append(replies, [type |-> IF Head(toDaemon) = << >> THEN "got" ELSE "saved",
                                      config |-> Merged(Head(toDaemon))])
      BY <1>7 DEF Serve
    <3>3. [type |-> IF Head(toDaemon) = << >> THEN "got" ELSE "saved",
           config |-> Merged(Head(toDaemon))] \in Readings
      BY <3>1 DEF Readings
    <3>4. replies \in Seq(Readings)
      BY <1>0 DEF ConfigTypes
    <3> QED
      BY <3>2, <3>3, <3>4, ConfigAppendIsSeq
  <2>5. CASE Head(toDaemon) = << >>
    <3>1. UNCHANGED <<stored, toModule, missed, configEvents>>
      BY <1>7, <2>5 DEF Serve
    <3> QED
      BY <1>0, <2>1, <2>2, <2>4, <3>1 DEF ConfigInv, ConfigTypes, ToldAll, LastTold, formVars
  <2>6. CASE Head(toDaemon) # << >>
    <3>1. applyConfigSet(Head(toDaemon))
      BY <1>7, <2>6 DEF Serve
    <3>2. ToldAll' /\ stored' \in Configs /\ toModule' \in Seq(Configs)
          /\ configEvents' \in Seq(Configs)
      BY <2>1, <2>3, <3>1, ApplyKeeps
    <3> QED
      BY <1>0, <2>1, <2>2, <2>4, <3>2 DEF ConfigInv, ConfigTypes, formVars
  <2> QED
    BY <2>5, <2>6
<1>8. CASE \/ FormMounts \/ ConfigReply \/ ConfigChangedEvent \/ Edit \/ revert \/ commit
           \/ UNCHANGED configVars
  <2>1. UNCHANGED <<stored, moduleVars, missed>>
    BY <1>8 DEF FormMounts, ConfigReply, ConfigChangedEvent, Edit, revert, commit, configVars,
                moduleVars
  <2>2. ToldAll'
    BY <1>0, <2>1 DEF ToldAll, LastTold, moduleVars
  <2>3. /\ toDaemon' \in Seq({<< >>} \cup Configs) /\ formDraft' \in Configs
        /\ config' \in Configs /\ configEvents' \in Seq(Configs)
        /\ replies' \in Seq(Readings)
    <3>1. CASE FormMounts
      <4>1. /\ toDaemon' = Append(toDaemon, << >>) /\ << >> \in {<< >>} \cup Configs
            /\ UNCHANGED <<formDraft, config, configEvents, replies>>
        BY <3>1 DEF FormMounts
      <4>2. toDaemon' \in Seq({<< >>} \cup Configs)
        BY <1>0, <4>1, ConfigAppendIsSeq DEF ConfigTypes
      <4> QED
        BY <1>0, <4>1, <4>2 DEF ConfigTypes
    <3>2. CASE ConfigReply
      <4>1. /\ Head(replies).config \in Configs
            /\ Tail(replies) \in Seq(Readings)
        <5>1. /\ replies \in Seq(Readings)
              /\ replies # << >>
          BY <1>0, <3>2 DEF ConfigReply, ConfigTypes
        <5>2. Head(replies) \in Readings
          BY <5>1
        <5> QED
          BY <5>1, <5>2 DEF Readings
      <4> QED
        BY <1>0, <3>2, <4>1 DEF ConfigReply, ConfigTypes
    <3>3. CASE ConfigChangedEvent
      <4>1. Head(configEvents) \in Configs /\ Tail(configEvents) \in Seq(Configs)
        BY <1>0, <3>3 DEF ConfigChangedEvent, ConfigTypes
      <4> QED
        BY <1>0, <3>3, <4>1 DEF ConfigChangedEvent, ConfigTypes
    <3>4. CASE Edit
      <4>1. PICK k \in ConfigKeys : formDraft' = [formDraft EXCEPT ![k] = 1 - @]
        BY <3>4 DEF Edit
      <4>2. formDraft' \in Configs
        BY <1>0, <4>1 DEF ConfigTypes, Configs
      <4> QED
        BY <1>0, <3>4, <4>2 DEF Edit, ConfigTypes, wireVars
    <3>5. CASE revert
      BY <1>0, <3>5 DEF revert, ConfigTypes, wireVars
    <3>6. CASE commit
      <4>1. toDaemon' = Append(toDaemon, formDraft)
            /\ UNCHANGED <<formDraft, config, configEvents, replies>>
        BY <3>6 DEF commit
      <4> QED
        BY <1>0, <4>1, ConfigAppendIsSeq DEF ConfigTypes
    <3>7. CASE UNCHANGED configVars
      BY <1>0, <3>7 DEF configVars, formVars, wireVars, ConfigTypes
    <3> QED
      BY <1>8, <3>1, <3>2, <3>3, <3>4, <3>5, <3>6, <3>7
  <2> QED
    BY <1>0, <2>1, <2>2, <2>3 DEF ConfigInv, ConfigTypes, moduleVars
<1> QED
  BY <1>1, <1>2, <1>3, <1>4, <1>5, <1>6, <1>7, <1>8 DEF ConfigNext

(* A module that runs, once it has read what it was sent, has the          *)
(* configuration on disk, unless a change was lost to it: for any values   *)
(* and any number of saves and starts (modules-ipc.ts and supervisor.ts).  *)
THEOREM RunningIsCurrent == ConfigSpec => []RunningModuleIsCurrent
<1>1. ConfigInv => RunningModuleIsCurrent
  BY DEF ConfigInv, ToldAll, LastTold, RunningModuleIsCurrent
<1> QED
  BY ConfigInvInit, ConfigInvNext, <1>1, PTL DEF ConfigSpec

-----------------------------------------------------------------------------
(* What the daemon sends.                                                  *)
Frames == [kind : {"event", "list"}, at : Nat, rows : SUBSET Plugins]

(* The variables that matter, typed.                                       *)
WireTypes ==
    /\ version \in Nat /\ asked \in Nat /\ orphans \in Nat /\ heard \in Nat
    /\ listed \in [at : Nat, offer : SUBSET Plugins] /\ lapsed \in BOOLEAN
    /\ rows \subseteq Plugins /\ wire \in Seq(Frames) /\ connected \in BOOLEAN

(* The socket is ordered: what was read later arrives later.               *)
InOrder ==
    /\ \A i \in DOMAIN wire : wire[i].at <= version
    /\ \A i, j \in DOMAIN wire : i < j => wire[i].at <= wire[j].at

(* What is asked for last is read after the last event: when nothing is    *)
(* left to be asked, a list of since that event is among those on the way. *)
Fresh == \E i \in DOMAIN wire : wire[i].kind = "list" /\ heard <= wire[i].at
LastIsFresh == asked > 0 \/ Lists = {} \/ Fresh

(* How many replies are still to come; those of the requests given up are  *)
(* among them, and they come first.                                        *)
Coming == asked + Cardinality(Lists)

(* The inductive invariant of the list of tools: when no fetch waits, the  *)
(* last one was in vain, or its list was read no earlier than the last     *)
(* event.                                                                  *)
OffersInv ==
    /\ WireTypes /\ heard <= version /\ InOrder /\ LastIsFresh
    /\ orphans <= Coming
    /\ connected => Coming > orphans \/ lapsed \/ heard <= listed.at
    /\ offered = IF lapsed THEN {} ELSE listed.offer

(* One more frame is the last;                                             *)
LEMMA FrameAppends ==
    ASSUME NEW s \in Seq(Frames), NEW x \in Frames
    PROVE  /\ Append(s, x) \in Seq(Frames) /\ Len(s) \in Nat /\ DOMAIN s = 1..Len(s)
           /\ DOMAIN Append(s, x) = 1..Len(s) + 1 /\ Append(s, x)[Len(s) + 1] = x
           /\ \A i \in 1..Len(s) : Append(s, x)[i] = s[i]
OBVIOUS

(* without the first, each has moved up.                                   *)
LEMMA FrameTails ==
    ASSUME NEW s \in Seq(Frames), s # << >>
    PROVE  /\ Tail(s) \in Seq(Frames) /\ Len(s) \in Nat /\ DOMAIN s = 1..Len(s)
           /\ 1 \in DOMAIN s /\ Head(s) = s[1] /\ Head(s) \in Frames
           /\ DOMAIN Tail(s) = 1..Len(s) - 1
           /\ \A i \in 1..Len(s) - 1 : Tail(s)[i] = s[i + 1] /\ i + 1 \in 1..Len(s)
           /\ \A i \in 1..Len(s) : i = 1 \/ (i - 1 \in 1..Len(s) - 1 /\ Tail(s)[i - 1] = s[i])
<1>1. Len(s) >= 1 /\ Len(s) \in Nat
  OBVIOUS
<1>2. Len(Tail(s)) = Len(s) - 1 /\ Tail(s) \in Seq(Frames)
  OBVIOUS
<1> QED
  BY <1>1, <1>2

(* The lists on the wire can be counted,                                   *)
LEMMA ListsAreFinite ==
    ASSUME wire \in Seq(Frames)
    PROVE  /\ IsFiniteSet(Lists) /\ Cardinality(Lists) \in Nat
           /\ Lists = {} <=> Cardinality(Lists) = 0
<1>1. Lists \in SUBSET (1..Len(wire)) /\ Len(wire) \in Nat
  BY DEF Lists
<1>2. IsFiniteSet(1..Len(wire))
  BY <1>1, FS_Interval
<1> QED
  BY <1>1, <1>2, FS_Subset, FS_CardinalityType, FS_EmptySet

(* a list that is sent is one more,                                        *)
LEMMA ListsGrow ==
    ASSUME wire \in Seq(Frames), NEW x \in Frames, wire' = Append(wire, x)
    PROVE  /\ x.kind = "list" => Cardinality(Lists') = Cardinality(Lists) + 1
           /\ x.kind # "list" => Cardinality(Lists') = Cardinality(Lists)
<1>1. /\ Len(wire) \in Nat /\ DOMAIN wire = 1..Len(wire)
      /\ DOMAIN wire' = 1..Len(wire) + 1 /\ wire'[Len(wire) + 1] = x
      /\ \A i \in 1..Len(wire) : wire'[i] = wire[i]
  BY FrameAppends
<1>2. IsFiniteSet(Lists) /\ Len(wire) + 1 \notin Lists /\ Cardinality(Lists) \in Nat
  BY <1>1, ListsAreFinite DEF Lists
<1>3. /\ x.kind = "list" => Lists' = Lists \cup {Len(wire) + 1}
      /\ x.kind # "list" => Lists' = Lists
  <2>1. \A i : i \in DOMAIN wire' <=> i = Len(wire) + 1 \/ i \in 1..Len(wire)
    BY <1>1
  <2> QED
    BY <1>1, <2>1 DEF Lists
<1> QED
  BY <1>2, <1>3, FS_AddElement

(* and one that is read is one less.                                       *)
LEMMA ListsShrink ==
    ASSUME wire \in Seq(Frames), wire # << >>, wire' = Tail(wire)
    PROVE  /\ Head(wire).kind = "list" => Cardinality(Lists') = Cardinality(Lists) - 1
           /\ Head(wire).kind # "list" => Cardinality(Lists') = Cardinality(Lists)
           /\ IsFiniteSet(Lists')
<1> DEFINE rest == Lists \ {1}
           up == [i \in rest |-> i - 1]
<1>1. /\ Len(wire) \in Nat /\ DOMAIN wire = 1..Len(wire) /\ 1 \in DOMAIN wire
      /\ Head(wire) = wire[1] /\ DOMAIN wire' = 1..Len(wire) - 1
      /\ \A i \in 1..Len(wire) - 1 : wire'[i] = wire[i + 1] /\ i + 1 \in 1..Len(wire)
      /\ \A i \in 1..Len(wire) :
             i = 1 \/ (i - 1 \in 1..Len(wire) - 1 /\ wire'[i - 1] = wire[i])
  BY FrameTails
<1>2. IsFiniteSet(Lists) /\ Cardinality(Lists) \in Nat
  BY ListsAreFinite
<1>3. /\ IsFiniteSet(rest)
      /\ 1 \in Lists => Cardinality(rest) = Cardinality(Lists) - 1
      /\ 1 \notin Lists => Cardinality(rest) = Cardinality(Lists)
  BY <1>2, FS_RemoveElement
<1>4. 1 \in Lists <=> Head(wire).kind = "list"
  BY <1>1 DEF Lists
<1>5. up \in Bijection(rest, Lists')
  <2>1. ASSUME NEW i \in rest PROVE i - 1 \in Lists'
    BY <1>1, <2>1 DEF Lists
  <2>2. ASSUME NEW i \in rest, NEW j \in rest, up[i] = up[j] PROVE i = j
    BY <1>1, <2>2 DEF Lists
  <2>3. ASSUME NEW j \in Lists' PROVE \E i \in rest : up[i] = j
    <3>1. j \in 1..Len(wire) - 1 /\ j + 1 \in rest
      BY <1>1, <2>3 DEF Lists
    <3>2. up[j + 1] = j
      BY <1>1, <3>1
    <3> QED
      BY <3>1, <3>2
  <2>4. up \in [rest -> Lists']
    BY <2>1
  <2> HIDE DEF up
  <2> QED
    BY <2>2, <2>3, <2>4 DEF Bijection, Injection, Surjection, IsInjective
<1>6. Cardinality(Lists') = Cardinality(rest) /\ IsFiniteSet(Lists')
  <2>1. ExistsBijection(rest, Lists')
    BY <1>5 DEF ExistsBijection
  <2> QED
    BY <1>3, <2>1, FS_Bijection
<1> QED
  BY <1>3, <1>4, <1>6

(* The invariant holds at the beginning.                                   *)
LEMMA OffersInvInit == McpInit => OffersInv
<1>1. SUFFICES ASSUME McpInit PROVE OffersInv
  OBVIOUS
<1>2. wire \in Seq(Frames) /\ Lists = {}
  BY <1>1 DEF McpInit, Lists
<1>3. Coming = 1
  BY <1>1, <1>2, FS_EmptySet DEF McpInit, Coming
<1>4. WireTypes
  BY <1>1, <1>2 DEF McpInit, WireTypes
<1>5. InOrder
  <2>1. DOMAIN wire = {}
    BY <1>1 DEF McpInit
  <2> QED
    BY <2>1 DEF InOrder
<1> QED
  BY <1>1, <1>3, <1>4, <1>5 DEF McpInit, OffersInv, LastIsFresh

(* What is sent is of now, and a list that is sent was asked for.          *)
LEMMA FrameSent ==
    ASSUME OffersInv, NEW x \in Frames, x.at = version, wire' = Append(wire, x),
           UNCHANGED <<rows, version, connected, orphans, offered, listed, lapsed, heard>>,
           asked' \in Nat,
           \/ asked = asked' + 1 /\ x.kind = "list"
           \/ asked' = asked /\ x.kind # "list"
    PROVE  OffersInv'
<1>1. /\ wire' \in Seq(Frames) /\ Len(wire) \in Nat /\ DOMAIN wire = 1..Len(wire)
      /\ DOMAIN wire' = 1..Len(wire) + 1 /\ wire'[Len(wire) + 1] = x
      /\ \A i \in 1..Len(wire) : wire'[i] = wire[i]
  BY FrameAppends DEF OffersInv, WireTypes
<1>2. WireTypes'
  BY <1>1 DEF OffersInv, WireTypes
<1>3. \A i \in DOMAIN wire' : i = Len(wire) + 1 \/ i \in 1..Len(wire)
  BY <1>1
<1>4. \A i \in DOMAIN wire : wire[i].at <= version
  BY DEF OffersInv, InOrder
<1>5. InOrder'
  <2>1. \A i \in DOMAIN wire' : wire'[i].at <= version
    BY <1>1, <1>3, <1>4 DEF OffersInv, WireTypes
  <2>2. ASSUME NEW i \in DOMAIN wire', NEW j \in DOMAIN wire', i < j
        PROVE  wire'[i].at <= wire'[j].at
    <3>1. i \in 1..Len(wire)
      BY <1>1, <2>2
    <3>2. CASE j = Len(wire) + 1
      BY <1>1, <1>4, <3>1, <3>2
    <3>3. CASE j \in 1..Len(wire)
      BY <1>1, <2>2, <3>1, <3>3 DEF OffersInv, InOrder
    <3> QED
      BY <1>3, <3>2, <3>3
  <2> QED
    BY <2>1, <2>2 DEF InOrder
<1>6. LastIsFresh'
  <2>1. CASE x.kind = "list"
    <3>1. Len(wire) + 1 \in DOMAIN wire'
      BY <1>1
    <3> QED
      BY <1>1, <2>1, <3>1 DEF Fresh, LastIsFresh, OffersInv
  <2>2. CASE x.kind # "list"
    <3>1. Fresh => Fresh'
      BY <1>1 DEF Fresh
    <3>2. Lists = {} => Lists' = {}
      BY <1>1, <1>3, <2>2 DEF Lists
    <3>3. asked' = asked
      BY <2>2
    <3> QED
      BY <3>1, <3>2, <3>3 DEF OffersInv, LastIsFresh
  <2> QED
    BY <2>1, <2>2
<1>7. Coming' = Coming
  <2>1. /\ x.kind = "list" => Cardinality(Lists') = Cardinality(Lists) + 1
        /\ x.kind # "list" => Cardinality(Lists') = Cardinality(Lists)
    BY ListsGrow DEF OffersInv, WireTypes
  <2>2. Cardinality(Lists) \in Nat
    BY ListsAreFinite DEF OffersInv, WireTypes
  <2> QED
    BY <2>1, <2>2 DEF Coming
<1> QED
  BY <1>2, <1>5, <1>6, <1>7 DEF OffersInv

(* What is left when the first is read is in order, and not older.         *)
LEMMA FrameRead ==
    ASSUME OffersInv, wire # << >>, wire' = Tail(wire), version' = version
    PROVE  /\ wire' \in Seq(Frames) /\ Head(wire) \in Frames
           /\ Head(wire).at \in Nat /\ Head(wire).at <= version
           /\ InOrder'
           /\ \A i \in DOMAIN wire' : Head(wire).at <= wire'[i].at
           /\ Fresh => \/ \E i \in DOMAIN wire' : wire'[i].kind = "list" /\ heard <= wire'[i].at
                       \/ Head(wire).kind = "list" /\ heard <= Head(wire).at
<1>1. /\ wire' \in Seq(Frames) /\ Len(wire) \in Nat /\ DOMAIN wire = 1..Len(wire)
      /\ 1 \in DOMAIN wire /\ Head(wire) = wire[1] /\ Head(wire) \in Frames
      /\ DOMAIN wire' = 1..Len(wire) - 1
      /\ \A i \in 1..Len(wire) - 1 : wire'[i] = wire[i + 1] /\ i + 1 \in 1..Len(wire)
      /\ \A i \in 1..Len(wire) :
             i = 1 \/ (i - 1 \in 1..Len(wire) - 1 /\ wire'[i - 1] = wire[i])
  BY FrameTails DEF OffersInv, WireTypes
<1>2. Head(wire).at \in Nat /\ Head(wire).at <= version
  <2>1. Head(wire).at <= version
    BY <1>1 DEF OffersInv, InOrder
  <2> QED
    BY <1>1, <2>1 DEF Frames
<1>4. \A i \in 1..Len(wire) - 1 : wire[1].at <= wire[i + 1].at
  <2>1. \A i \in 1..Len(wire) - 1 : i + 1 \in DOMAIN wire /\ 1 < i + 1
    BY <1>1
  <2> QED
    BY <1>1, <2>1 DEF OffersInv, InOrder
<1>5. InOrder'
  <2>1. ASSUME NEW i \in DOMAIN wire' PROVE wire'[i].at <= version'
    BY <1>1, <2>1 DEF OffersInv, InOrder
  <2>2. ASSUME NEW i \in DOMAIN wire', NEW j \in DOMAIN wire', i < j
        PROVE  wire'[i].at <= wire'[j].at
    <3>1. i + 1 \in DOMAIN wire /\ j + 1 \in DOMAIN wire /\ i + 1 < j + 1
      BY <1>1, <2>2
    <3> QED
      BY <1>1, <3>1 DEF OffersInv, InOrder
  <2> QED
    BY <2>1, <2>2 DEF InOrder
<1>6. ASSUME Fresh
      PROVE  \/ \E i \in DOMAIN wire' : wire'[i].kind = "list" /\ heard <= wire'[i].at
             \/ Head(wire).kind = "list" /\ heard <= Head(wire).at
  <2>1. PICK i \in 1..Len(wire) : wire[i].kind = "list" /\ heard <= wire[i].at
    BY <1>1, <1>6 DEF Fresh
  <2>2. CASE i = 1
    BY <1>1, <2>1, <2>2
  <2>3. CASE i # 1
    <3>1. i - 1 \in DOMAIN wire' /\ wire'[i - 1] = wire[i]
      BY <1>1, <2>3
    <3> QED
      BY <2>1, <3>1
  <2> QED
    BY <2>2, <2>3
<1> QED
  BY <1>1, <1>2, <1>4, <1>5, <1>6

(* A list that is read is dropped, or becomes the offer.                   *)
LEMMA ListRead == OffersInv /\ ReceiveList => OffersInv'
<1>1. SUFFICES ASSUME OffersInv, ReceiveList PROVE OffersInv'
  OBVIOUS
<1>2. /\ wire # << >> /\ wire' = Tail(wire) /\ Head(wire).kind = "list"
      /\ UNCHANGED <<rows, version, connected, asked, heard>>
  BY <1>1 DEF ReceiveList, Offers, Rest, daemonVars, mcpHistory
<1>3. WireTypes /\ wire \in Seq(Frames) /\ asked \in Nat /\ orphans \in Nat /\ heard \in Nat
  BY <1>1 DEF OffersInv, WireTypes
<1>4. /\ wire' \in Seq(Frames) /\ Head(wire) \in Frames
      /\ Head(wire).at \in Nat /\ Head(wire).at <= version /\ InOrder'
      /\ \A i \in DOMAIN wire' : Head(wire).at <= wire'[i].at
      /\ Fresh => \/ \E i \in DOMAIN wire' : wire'[i].kind = "list" /\ heard <= wire'[i].at
                  \/ Head(wire).kind = "list" /\ heard <= Head(wire).at
  BY <1>1, <1>2, FrameRead
<1>5. ASSUME NEW i \in DOMAIN wire' PROVE wire'[i].at \in Nat
  <2>1. wire'[i] \in Frames
    BY <1>4, <1>5
  <2> QED
    BY <2>1 DEF Frames
<1>6. LastIsFresh' /\ (Fresh => Fresh' \/ heard <= Head(wire).at)
  <2>1. 1 \in Lists
    BY <1>2, <1>3, FrameTails DEF Lists
  <2>2. asked' > 0 \/ Fresh
    BY <1>1, <1>2, <2>1 DEF OffersInv, LastIsFresh
  <2>3. Fresh => Fresh' \/ heard <= Head(wire).at
    BY <1>2, <1>4 DEF Fresh
  <2>4. ASSUME heard <= Head(wire).at, Lists' # {} PROVE Fresh'
    <3>1. PICK i \in DOMAIN wire' : wire'[i].kind = "list"
      BY <2>4 DEF Lists
    <3> QED
      BY <1>2, <1>3, <1>4, <1>5, <2>4, <3>1 DEF Fresh
  <2> QED
    BY <2>2, <2>3, <2>4 DEF LastIsFresh
<1>7. /\ Cardinality(Lists') = Cardinality(Lists) - 1 /\ Cardinality(Lists) \in Nat
      /\ IsFiniteSet(Lists')
  BY <1>2, <1>3, ListsShrink, ListsAreFinite
<1>8. Cardinality(Lists') \in Nat /\ (Cardinality(Lists') = 0 <=> Lists' = {})
  BY <1>7, FS_CardinalityType, FS_EmptySet
<1>9. CASE orphans > 0
  <2>1. orphans' = orphans - 1 /\ UNCHANGED <<offered, listed, lapsed>>
    BY <1>1, <1>9 DEF ReceiveList, offerVars, mcpHistory
  <2>2. Coming' = Coming - 1 /\ orphans' \in Nat /\ Coming \in Nat
    BY <1>2, <1>3, <1>7, <1>9, <2>1 DEF Coming
  <2>3. WireTypes'
    BY <1>2, <1>3, <1>4, <2>1, <2>2 DEF WireTypes
  <2>4. orphans' <= Coming' /\ (Coming > orphans => Coming' > orphans')
    BY <1>1, <1>3, <2>1, <2>2 DEF OffersInv
  <2> QED
    BY <1>1, <1>2, <1>4, <1>6, <2>1, <2>3, <2>4 DEF OffersInv
<1>10. CASE ~(orphans > 0)
  <2>1. /\ offered' = Visible(Head(wire).rows) /\ orphans' = orphans
        /\ listed' = [at |-> Head(wire).at, offer |-> offered'] /\ lapsed' = FALSE
    BY <1>1, <1>10 DEF ReceiveList, Offers
  <2>2. orphans = 0 /\ orphans' = 0
    BY <1>3, <1>10, <2>1
  <2>3. Head(wire).rows \subseteq Plugins /\ offered' \subseteq Plugins
    BY <1>4, <2>1 DEF Frames, Visible
  <2>4. WireTypes'
    BY <1>2, <1>3, <1>4, <2>1, <2>2, <2>3 DEF WireTypes
  <2>5. Coming' \in Nat /\ orphans' <= Coming'
    BY <1>2, <1>3, <1>8, <2>2 DEF Coming
  <2>6. Coming' > orphans' \/ heard' <= listed'.at
    <3>1. CASE asked' > 0 \/ Lists' # {}
      BY <1>2, <1>3, <1>8, <2>2, <3>1 DEF Coming
    <3>2. CASE ~(asked' > 0) /\ Lists' = {}
      <4>1. Lists # {} /\ ~Fresh'
        BY <1>2, <1>3, <3>2, FrameTails DEF Lists, Fresh
      <4>2. Fresh
        BY <1>1, <1>2, <3>2, <4>1 DEF OffersInv, LastIsFresh
      <4> QED
        BY <1>2, <1>6, <2>1, <4>1, <4>2
    <3> QED
      BY <3>1, <3>2
  <2> QED
    BY <1>1, <1>2, <1>4, <1>6, <2>1, <2>4, <2>5, <2>6 DEF OffersInv
<1> QED
  BY <1>9, <1>10

(* An event that is read makes the server ask again, if it listens.        *)
LEMMA EventRead == OffersInv /\ ReceiveEvent => OffersInv'
<1>1. SUFFICES ASSUME OffersInv, ReceiveEvent PROVE OffersInv'
  OBVIOUS
<1>2. /\ wire # << >> /\ wire' = Tail(wire) /\ Head(wire).kind = "event"
      /\ UNCHANGED <<rows, version, connected, orphans, offered, listed, lapsed>>
      /\ \/ asked' = asked + 1 /\ heard' = Head(wire).at
         \/ asked' = asked /\ heard' = heard
  BY <1>1 DEF ReceiveEvent, Rest, daemonVars, offerVars
<1>3. WireTypes /\ wire \in Seq(Frames) /\ asked \in Nat /\ orphans \in Nat /\ heard \in Nat
  BY <1>1 DEF OffersInv, WireTypes
<1>4. /\ wire' \in Seq(Frames) /\ Head(wire).at \in Nat /\ Head(wire).at <= version /\ InOrder'
      /\ Fresh => \E i \in DOMAIN wire' : wire'[i].kind = "list" /\ heard <= wire'[i].at
  BY <1>1, <1>2, FrameRead
<1>5. WireTypes' /\ heard' <= version'
  BY <1>1, <1>2, <1>3, <1>4 DEF OffersInv, WireTypes
<1>6. Cardinality(Lists') = Cardinality(Lists) /\ Cardinality(Lists) \in Nat
  BY <1>2, <1>3, ListsShrink, ListsAreFinite
<1>7. Lists = {} => Lists' = {}
  <2>1. \A i \in DOMAIN wire' : i + 1 \in DOMAIN wire /\ wire'[i] = wire[i + 1]
    BY <1>2, <1>3, FrameTails
  <2> QED
    BY <2>1 DEF Lists
<1>8. CASE asked' = asked + 1 /\ heard' = Head(wire).at
  <2>1. asked' > 0 /\ Coming' = Coming + 1 /\ Coming \in Nat
    BY <1>3, <1>6, <1>8 DEF Coming
  <2>2. orphans' <= Coming' /\ Coming' > orphans'
    BY <1>1, <1>2, <1>3, <2>1 DEF OffersInv
  <2> QED
    BY <1>1, <1>2, <1>4, <1>5, <2>1, <2>2 DEF OffersInv, LastIsFresh
<1>9. CASE asked' = asked /\ heard' = heard
  <2>1. Coming' = Coming
    BY <1>6, <1>9 DEF Coming
  <2>2. LastIsFresh'
    BY <1>1, <1>4, <1>7, <1>9 DEF OffersInv, LastIsFresh, Fresh
  <2> QED
    BY <1>1, <1>2, <1>4, <1>5, <1>9, <2>1, <2>2 DEF OffersInv
<1> QED
  BY <1>2, <1>8, <1>9

(* Every step keeps the invariant.                                         *)
LEMMA OffersInvNext == OffersInv /\ [McpNext]_mcpVars => OffersInv'
<1> SUFFICES ASSUME OffersInv, [McpNext]_mcpVars PROVE OffersInv'
  OBVIOUS
<1>0. /\ WireTypes /\ wire \in Seq(Frames) /\ Cardinality(Lists) \in Nat
      /\ asked \in Nat /\ orphans \in Nat
  BY ListsAreFinite DEF OffersInv, WireTypes
<1>1. CASE RegistryChanges
  <2>1. PICK m \in Plugins : rows' = IF m \in rows THEN rows \ {m} ELSE rows \cup {m}
    BY <1>1 DEF RegistryChanges
  <2>2. rows' \subseteq Plugins
    BY <1>0, <2>1 DEF WireTypes
  <2>3. /\ version' = version + 1
        /\ UNCHANGED <<asked, wire, orphans, connected, offered, heard, listed, lapsed>>
    BY <1>1 DEF RegistryChanges, mcpHistory, socketVars, offerVars
  <2>4. WireTypes' /\ heard' <= version'
    BY <2>2, <2>3 DEF OffersInv, WireTypes
  <2>5. InOrder'
    <3>1. ASSUME NEW i \in DOMAIN wire PROVE wire[i].at <= version'
      <4>1. wire[i] \in Frames
        BY <1>0, <3>1
      <4>2. wire[i].at <= version
        BY <3>1 DEF OffersInv, InOrder
      <4> QED
        BY <2>3, <4>1, <4>2 DEF OffersInv, WireTypes, Frames
    <3> QED
      BY <2>3, <3>1 DEF OffersInv, InOrder
  <2> QED
    BY <2>3, <2>4, <2>5 DEF OffersInv, LastIsFresh, Fresh, Coming, Lists
<1>2. CASE ModuleEvent
  <2>1. PICK x \in Frames : x = [kind |-> "event", at |-> version, rows |-> {}]
    BY <1>0 DEF WireTypes, Frames
  <2>2. /\ x.at = version /\ wire' = Append(wire, x) /\ asked' = asked /\ x.kind # "list"
        /\ UNCHANGED <<rows, version, connected, orphans, offered, listed, lapsed, heard>>
    BY <1>2, <2>1 DEF ModuleEvent, mcpHistory, offerVars
  <2> QED
    BY <1>0, <2>2, FrameSent
<1>3. CASE ServeList
  <2>1. (IF running THEN rows ELSE {}) \subseteq Plugins
    BY <1>0 DEF WireTypes
  <2>2. PICK x \in Frames : x = [kind |-> "list", at |-> version,
                                  rows |-> IF running THEN rows ELSE {}]
    BY <1>0, <2>1 DEF WireTypes, Frames
  <2>3. /\ x.at = version /\ x.kind = "list" /\ wire' = Append(wire, x)
        /\ asked > 0 /\ asked' = asked - 1
        /\ UNCHANGED <<rows, version, connected, orphans, offered, listed, lapsed, heard>>
    BY <1>3, <2>2 DEF ServeList, mcpHistory, daemonVars, offerVars
  <2>4. asked' \in Nat /\ asked = asked' + 1
    BY <1>0, <2>3
  <2> QED
    BY <2>3, <2>4, FrameSent
<1>4. CASE DaemonDies
  <2>1. /\ connected' = FALSE /\ asked' = 0 /\ wire' = << >> /\ orphans' = 0
        /\ UNCHANGED <<rows, version, heard, listed>>
        /\ \/ offered' = {} /\ lapsed' = TRUE
           \/ offered' = offered /\ lapsed' = lapsed
    BY <1>4 DEF DaemonDies, FetchFails, offerVars, mcpHistory
  <2>2. DOMAIN wire' = {} /\ wire' \in Seq(Frames)
    BY <2>1
  <2>3. Lists' = {} /\ Coming' = 0
    <3>1. Lists' = {}
      BY <2>2 DEF Lists
    <3> QED
      BY <2>1, <3>1, FS_EmptySet DEF Coming
  <2>4. InOrder' /\ LastIsFresh'
    BY <2>2, <2>3 DEF InOrder, LastIsFresh
  <2>5. WireTypes'
    BY <1>0, <2>1, <2>2 DEF WireTypes
  <2> QED
    BY <2>1, <2>3, <2>4, <2>5 DEF OffersInv
<1>5. CASE FetchTimesOut
  <2>1. /\ Coming > orphans /\ orphans' = orphans + 1 /\ offered' = {} /\ lapsed' = TRUE
        /\ UNCHANGED <<rows, version, connected, asked, wire, heard, listed>>
    BY <1>5 DEF FetchTimesOut, FetchFails, Awaiting, Coming, Rest, daemonVars
  <2>2. Coming' = Coming /\ Coming \in Nat
    BY <1>0, <2>1 DEF Coming, Lists
  <2>3. WireTypes' /\ orphans' <= Coming'
    BY <1>0, <2>1, <2>2 DEF WireTypes
  <2> QED
    BY <2>1, <2>3 DEF OffersInv, InOrder, LastIsFresh, Fresh, Lists
<1>6. CASE \/ SessionFlips \/ Listen \/ ToolAnswered \/ ToolTimesOut \/ UNCHANGED mcpVars
           \/ \E t \in Tools : CallTool(t)
  <2>1. UNCHANGED <<rows, version, asked, wire, orphans, connected, offered, heard, listed, lapsed>>
    BY <1>6 DEF SessionFlips, Listen, ToolAnswered, ToolTimesOut, CallTool, mcpVars, daemonVars,
                mcpHistory, socketVars, offerVars
  <2> QED
    BY <2>1 DEF OffersInv, WireTypes, InOrder, LastIsFresh, Fresh, Coming, Lists
<1> QED
  BY <1>1, <1>2, <1>3, <1>4, <1>5, <1>6, ListRead, EventRead DEF McpNext

(* At rest the tools are those of the last list, which was read no earlier *)
(* than the last event that was heard, or the last fetch was in vain and   *)
(* there are none.                                                         *)
LEMMA OffersFollow == McpSpec => []OffersFollowEvents
<1>1. OffersInv => OffersFollowEvents
  <2> SUFFICES ASSUME OffersInv, NothingUnderWay, ~lapsed PROVE listed.at >= heard
    BY DEF OffersFollowEvents, OffersInv
  <2>1. connected /\ asked = 0 /\ wire = << >>
    BY DEF NothingUnderWay
  <2>2. Lists = {}
    BY <2>1 DEF Lists
  <2>3. Coming = 0
    BY <2>1, <2>2, FS_EmptySet DEF Coming
  <2> QED
    BY <2>1, <2>3 DEF OffersInv, WireTypes
<1> QED
  BY OffersInvInit, OffersInvNext, <1>1, PTL DEF McpSpec

-----------------------------------------------------------------------------
(* Where an install or uninstall can be.                                   *)
JobPhases == {"idle", "install", "uninstall", "fetching", "downloading", "extracting", "reifying",
              "uninstalling"}

(* What is kept of it.                                                     *)
Jobs == [phase : JobPhases, accepted : SUBSET Permissions, ack : BOOLEAN,
         doc : Documents \cup {0}]

(* An answer to modules/list,                                              *)
RowReplies == [type : {"modules"}, doc : Documents \cup {0}]

(* an answer to marketplace/list, or none that is of use,                  *)
ShelfReplies ==
    [type : {"market"}, doc : Documents, installed : BOOLEAN] \cup [type : {"error"}]

(* or to a click.                                                          *)
Messages == RowReplies \cup ShelfReplies \cup [type : {"done"}]

(* The variables typed.                                                    *)
MarketTypes ==
    /\ published \in SUBSET Documents /\ lists \in SUBSET Documents
    /\ pin \in Documents \cup {0} /\ declares \in [Documents -> SUBSET Permissions]
    /\ fileCache \in [url : {"default", "given"}, doc : Documents \cup {0}]
    /\ enrolled \in Documents \cup {0} /\ jobs \in [Actors -> Jobs]
    /\ consent \in Documents \cup {0}
    /\ toHost \in Seq({"modules", "market"}) /\ toView \in Seq(Messages)
    /\ listings \in Nat /\ alerts \in Nat
-----------------------------------------------------------------------------

(* One more message is the last;                                           *)
LEMMA MessageAppends ==
    ASSUME NEW S, NEW s \in Seq(S), NEW x \in S
    PROVE  /\ Append(s, x) \in Seq(S) /\ Len(Append(s, x)) = Len(s) + 1
           /\ Append(s, x)[Len(s) + 1] = x /\ \A i \in 1..Len(s) : Append(s, x)[i] = s[i]
OBVIOUS

(* without the first, each has moved up.                                   *)
LEMMA MessageTails ==
    ASSUME NEW S, NEW s \in Seq(S), s # << >>
    PROVE  /\ Tail(s) \in Seq(S) /\ Head(s) \in S /\ Head(s) = s[1] /\ Len(Tail(s)) = Len(s) - 1
           /\ \A i \in 1..Len(s) - 1 : Tail(s)[i] = s[i + 1]
           /\ Len(s) \in Nat /\ Len(s) >= 1
OBVIOUS

(* What the messages carry.                                                *)
LEMMA MessagesAre ==
    /\ \A d \in Documents \cup {0} : [type |-> "modules", doc |-> d] \in RowReplies
    /\ \A d \in Documents, b \in BOOLEAN :
          [type |-> "market", doc |-> d, installed |-> b] \in ShelfReplies
    /\ [type |-> "error"] \in ShelfReplies
    /\ [type |-> "done"] \in Messages
    /\ RowReplies \subseteq Messages /\ ShelfReplies \subseteq Messages
BY DEF Messages, RowReplies, ShelfReplies

(* A document is a number, and not 0.                                      *)
LEMMA DocumentsAre == Documents \subseteq Nat /\ 0 \notin Documents
BY DocumentsAssumption

(* One actor goes on,                                                      *)
LEMMA GoesIs ==
    ASSUME MarketTypes, NEW a \in Actors, NEW to \in JobPhases, Goes(a, to)
    PROVE  /\ jobs' \in [Actors -> Jobs] /\ \A b \in Actors \ {a} : jobs'[b] = jobs[b]
           /\ jobs'[a] = [jobs[a] EXCEPT !.phase = to]
           /\ jobs'[a].phase = to /\ jobs'[a].doc = jobs[a].doc
           /\ jobs'[a].accepted = jobs[a].accepted /\ jobs'[a].ack = jobs[a].ack
BY DEF MarketTypes, Goes, Jobs

(* or ends.                                                                *)
LEMMA EndsIs ==
    ASSUME MarketTypes, NEW a \in Actors, Ends(a)
    PROVE  /\ jobs' \in [Actors -> Jobs] /\ \A b \in Actors \ {a} : jobs'[b] = jobs[b]
           /\ jobs'[a] = NoJob /\ jobs'[a].phase = "idle"
           /\ toView' = toView \/ toView' = Append(toView, [type |-> "done"])
           /\ toView' \in Seq(Messages)
<1>1. NoJob \in Jobs
  BY DEF NoJob, Jobs, JobPhases
<1>2. toView' = toView \/ toView' = Append(toView, [type |-> "done"])
  BY DEF Ends, Replies
<1>3. jobs' = [jobs EXCEPT ![a] = NoJob] /\ jobs \in [Actors -> Jobs] /\ toView \in Seq(Messages)
  BY DEF Ends, MarketTypes
<1>4. toView' \in Seq(Messages)
  BY <1>2, <1>3, MessageAppends, MessagesAre
<1> QED
  BY <1>1, <1>2, <1>3, <1>4 DEF NoJob

(* The gate of an install lets it go on, or ends it,                       *)
LEMMA GateIs ==
    ASSUME MarketTypes, NEW a \in Actors, NEW d \in Documents, Gate(a, d)
    PROVE  /\ jobs' \in [Actors -> Jobs] /\ \A b \in Actors \ {a} : jobs'[b] = jobs[b]
           /\ \/ /\ Admitted(a, d) /\ Enters(a) /\ toView' = toView
                 /\ jobs'[a].phase = "downloading" /\ jobs'[a].doc = d
              \/ ~Admitted(a, d) /\ Ends(a) /\ overlapped' = overlapped
           /\ toView' = toView \/ toView' = Append(toView, [type |-> "done"])
           /\ toView' \in Seq(Messages)
<1>1. CASE Admitted(a, d)
  <2>1. [NoJob EXCEPT !.phase = "downloading", !.doc = d] \in Jobs
    BY DEF NoJob, Jobs, JobPhases
  <2>2. /\ jobs' = [jobs EXCEPT ![a] = [NoJob EXCEPT !.phase = "downloading", !.doc = d]]
        /\ Enters(a) /\ toView' = toView
    BY <1>1 DEF Gate
  <2>3. jobs \in [Actors -> Jobs] /\ toView \in Seq(Messages)
    BY DEF MarketTypes
  <2> QED
    BY <1>1, <2>1, <2>2, <2>3 DEF NoJob
<1>2. CASE ~Admitted(a, d)
  <2>1. Ends(a) /\ overlapped' = overlapped
    BY <1>2 DEF Gate
  <2> QED
    BY <1>2, <2>1, EndsIs
<1> QED
  BY <1>1, <1>2

(* and what it checks against is a document.                               *)
LEMMA NetworkIs ==
    ASSUME MarketTypes, NEW url \in {"default", "given"}, NEW p
    PROVE  /\ Network(url, p) \subseteq Documents
           /\ \A d \in Documents : [url |-> url, doc |-> d] \in
                 [url : {"default", "given"}, doc : Documents \cup {0}]
           /\ Hit(url, p) => fileCache.doc \in Documents
BY DEF MarketTypes, Network, Served, Hit
-----------------------------------------------------------------------------

(* The types hold at the beginning,                                        *)
LEMMA MarketTypesInit == MarketInit => MarketTypes
<1> SUFFICES ASSUME MarketInit PROVE MarketTypes
  OBVIOUS
<1>1. NoJob \in Jobs
  BY DEF NoJob, Jobs, JobPhases
<1>2. fileCache \in [url : {"default", "given"}, doc : Documents \cup {0}]
  BY DEF MarketInit
<1>3. jobs \in [Actors -> Jobs]
  BY <1>1 DEF MarketInit
<1>4. toHost \in Seq({"modules", "market"}) /\ toView \in Seq(Messages)
  BY DEF MarketInit
<1>5. published \in SUBSET Documents /\ enrolled \in Documents \cup {0}
  BY DEF MarketInit
<1> QED
  BY <1>2, <1>3, <1>4, <1>5 DEF MarketInit, MarketTypes

(* The steps of an actor that installs or uninstalls.                      *)
Works(a) == \/ InstallAction(a) \/ InstallFetched(a) \/ InstallRefused(a) \/ Advances(a)
            \/ RollsBack(a) \/ Enrols(a) \/ UninstallAction(a) \/ UninstallEnds(a)

(* These keep them,                                                        *)
LEMMA WorksTypes ==
    ASSUME MarketTypes, NEW a \in Actors, Works(a)
    PROVE  /\ MarketTypes' /\ \A b \in Actors \ {a} : jobs'[b] = jobs[b]
           /\ toView' = toView \/ toView' = Append(toView, [type |-> "done"])
<1>1. JobPhases = {"idle", "install", "uninstall", "fetching", "downloading", "extracting",
                   "reifying", "uninstalling"}
  BY DEF JobPhases
<1>2. CASE InstallAction(a)
  <2>1. UNCHANGED <<registryVars, enrolled, consent, toHost, listings, alerts>>
    BY <1>2 DEF InstallAction, viewVars
  <2>2. /\ jobs' \in [Actors -> Jobs] /\ \A b \in Actors \ {a} : jobs'[b] = jobs[b]
        /\ toView' = toView \/ toView' = Append(toView, [type |-> "done"])
        /\ toView' \in Seq(Messages)
    <3>1. CASE Hit("default", pin)
      <4>1. Gate(a, fileCache.doc) /\ fileCache.doc \in Documents
        BY <1>2, <3>1, NetworkIs DEF InstallAction
      <4> QED
        BY <4>1, GateIs
    <3>2. CASE ~Hit("default", pin)
      <4>1. Goes(a, "fetching") /\ toView' = toView /\ toView \in Seq(Messages)
        BY <1>2, <3>2 DEF InstallAction, MarketTypes
      <4> QED
        BY <1>1, <4>1, GoesIs
    <3> QED
      BY <3>1, <3>2
  <2> QED
    BY <2>1, <2>2 DEF MarketTypes, registryVars
<1>3. CASE InstallFetched(a)
  <2>1. /\ UNCHANGED <<published, pin, declares, lists, enrolled, consent, toHost, listings,
                       alerts>>
        /\ \E d \in Network("default", pin) : WriteCache("default", d) /\ Gate(a, d)
    BY <1>3 DEF InstallFetched, viewVars
  <2>2. PICK d \in Documents : WriteCache("default", d) /\ Gate(a, d)
    BY <2>1, NetworkIs
  <2>3. fileCache' \in [url : {"default", "given"}, doc : Documents \cup {0}]
    BY <2>2 DEF WriteCache
  <2>4. /\ jobs' \in [Actors -> Jobs] /\ \A b \in Actors \ {a} : jobs'[b] = jobs[b]
        /\ toView' = toView \/ toView' = Append(toView, [type |-> "done"])
        /\ toView' \in Seq(Messages)
    BY <2>2, GateIs
  <2> QED
    BY <2>1, <2>3, <2>4 DEF MarketTypes
<1>4. CASE InstallRefused(a) \/ RollsBack(a)
  <2>1. /\ UNCHANGED <<registryVars, enrolled, consent, toHost, listings, alerts>> /\ Ends(a)
    BY <1>4 DEF InstallRefused, RollsBack, viewVars
  <2> QED
    BY <2>1, EndsIs DEF MarketTypes, registryVars
<1>5. CASE Advances(a)
  <2>1. /\ UNCHANGED <<registryVars, enrolled, consent, toHost, listings, alerts, toView>>
        /\ Goes(a, "extracting") \/ Goes(a, "reifying")
    BY <1>5 DEF Advances, viewVars
  <2> QED
    BY <1>1, <2>1, GoesIs DEF MarketTypes, registryVars
<1>6. CASE Enrols(a)
  <2>1. /\ UNCHANGED <<registryVars, consent, toHost, listings>> /\ Ends(a)
        /\ enrolled' = enrolled \/ enrolled' \in Documents
        /\ alerts' = alerts \/ alerts' = alerts + 1
    BY <1>6 DEF Enrols, viewVars, Announces, Unannounced
  <2> QED
    BY <2>1, EndsIs DEF MarketTypes, registryVars
<1>7. CASE UninstallAction(a)
  <2>1. /\ UNCHANGED <<registryVars, enrolled, consent, toHost, listings, alerts>>
        /\ Ends(a) \/ (Goes(a, "uninstalling") /\ toView' = toView)
    BY <1>7 DEF UninstallAction, viewVars
  <2> QED
    BY <1>1, <2>1, GoesIs, EndsIs DEF MarketTypes, registryVars
<1>8. CASE UninstallEnds(a)
  <2>1. /\ UNCHANGED <<registryVars, consent, toHost, listings>> /\ Ends(a) /\ enrolled' = 0
        /\ alerts' = alerts \/ alerts' = alerts + 1
    BY <1>8 DEF UninstallEnds, viewVars, Announces, Unannounced
  <2> QED
    BY <2>1, EndsIs DEF MarketTypes, registryVars
<1> QED
  BY <1>2, <1>3, <1>4, <1>5, <1>6, <1>7, <1>8 DEF Works

(* and so do the others of the daemon,                                     *)
LEMMA OthersTypes ==
    ASSUME MarketTypes,
           \/ OtherAsks \/ \E url \in {"default", "given"}, p \in Documents \cup {0} :
                              CommandInstalls(url, p)
    PROVE  /\ MarketTypes' /\ jobs'["view"] = jobs["view"] /\ jobs["other"] = NoJob
           /\ jobs'["other"].phase \in {"install", "uninstall"}
           /\ UNCHANGED <<published, pin, declares, lists, acked, onDisk, enrolled, listings,
                          toHost, toView, alerts, viewVars, inTime, orders, agreed, terms,
                          overlapped, announced>>
<1>1. UNCHANGED <<published, pin, declares, lists, acked, onDisk, enrolled, listings, toHost,
                  toView, alerts, viewVars, inTime, orders, agreed, terms, overlapped, announced>>
  BY DEF OtherAsks, CommandInstalls, registryVars
<1>2. /\ fileCache' \in [url : {"default", "given"}, doc : Documents \cup {0}]
      /\ jobs["other"] = NoJob
      /\ \E j \in Jobs : /\ jobs' = [jobs EXCEPT !["other"] = j]
                         /\ j.phase \in {"install", "uninstall"}
  <2>1. CASE OtherAsks
    <3>1. fileCache' = fileCache
      BY <2>1 DEF OtherAsks, registryVars
    <3>2. CASE jobs' = [jobs EXCEPT !["other"].phase = "uninstall"]
      <4>1. [jobs["other"] EXCEPT !.phase = "uninstall"] \in Jobs
        BY DEF MarketTypes, Jobs, JobPhases, Actors
      <4>2. [jobs["other"] EXCEPT !.phase = "uninstall"].phase = "uninstall"
        BY DEF MarketTypes, Jobs, Actors
      <4>3. jobs' = [jobs EXCEPT !["other"] = [jobs["other"] EXCEPT !.phase = "uninstall"]]
        BY <3>2 DEF MarketTypes, Actors
      <4>4. jobs["other"] = NoJob
        BY <2>1 DEF OtherAsks
      <4> QED
        BY <3>1, <4>1, <4>2, <4>3, <4>4 DEF MarketTypes
    <3>3. CASE \E ps \in SUBSET Permissions, ack \in BOOLEAN :
                  jobs' = [jobs EXCEPT !["other"] =
                     [phase |-> "install", accepted |-> ps, ack |-> ack, doc |-> 0]]
      <4>1. PICK ps \in SUBSET Permissions, ack \in BOOLEAN :
                  jobs' = [jobs EXCEPT !["other"] =
                     [phase |-> "install", accepted |-> ps, ack |-> ack, doc |-> 0]]
        BY <3>3
      <4>2. [phase |-> "install", accepted |-> ps, ack |-> ack, doc |-> 0] \in Jobs
        BY DEF Jobs, JobPhases
      <4> QED
        BY <2>1, <3>1, <4>1, <4>2 DEF OtherAsks, MarketTypes
    <3> QED
      BY <2>1, <3>2, <3>3 DEF OtherAsks
  <2>2. CASE \E url \in {"default", "given"}, p \in Documents \cup {0} : CommandInstalls(url, p)
    <3>1. PICK url \in {"default", "given"}, p \in Documents \cup {0} : CommandInstalls(url, p)
      BY <2>2
    <3>2. PICK d \in Network(url, p) \cup (IF Hit(url, p) THEN {fileCache.doc} ELSE {}) :
             /\ fileCache' = fileCache \/ WriteCache(url, d)
             /\ jobs' = [jobs EXCEPT !["other"] =
                     [phase |-> "install", accepted |-> declares[d], ack |-> TRUE, doc |-> 0]]
      BY <3>1 DEF CommandInstalls
    <3>3. d \in Documents
      BY NetworkIs
    <3>4. [phase |-> "install", accepted |-> declares[d], ack |-> TRUE, doc |-> 0] \in Jobs
      BY <3>3 DEF Jobs, JobPhases, MarketTypes
    <3>5. fileCache' \in [url : {"default", "given"}, doc : Documents \cup {0}]
      BY <3>2, <3>3 DEF WriteCache, MarketTypes
    <3> QED
      BY <3>1, <3>2, <3>4, <3>5 DEF CommandInstalls
  <2> QED
    BY <2>1, <2>2
<1>3. PICK j \in Jobs : /\ jobs' = [jobs EXCEPT !["other"] = j]
                       /\ j.phase \in {"install", "uninstall"}
  BY <1>2
<1>4. jobs' \in [Actors -> Jobs] /\ jobs'["view"] = jobs["view"] /\ jobs'["other"] = j
  BY <1>3 DEF MarketTypes, Actors
<1> QED
  BY <1>1, <1>2, <1>3, <1>4 DEF MarketTypes, viewVars

(* of its answers,                                                         *)
LEMMA ServesTypes ==
    ASSUME MarketTypes,
           \/ Publishes \/ CacheChanges \/ ListModules \/ marketplaceList
           \/ ListFetched \/ ListFails
    PROVE  /\ MarketTypes'
           /\ UNCHANGED <<pin, declares, lists, acked, onDisk, enrolled, jobs, alerts, viewVars,
                          inTime, countVars, agreed, terms, overlapped, announced>>
<1>1. CASE Publishes
  <2>1. published' \in SUBSET Documents
    BY <1>1 DEF Publishes, MarketTypes
  <2> QED
    BY <1>1, <2>1 DEF Publishes, MarketTypes, viewVars
<1>2. CASE CacheChanges
  <2>1. fileCache' \in [url : {"default", "given"}, doc : Documents \cup {0}]
    BY <1>2 DEF CacheChanges, MarketTypes, WriteCache
  <2> QED
    BY <1>2, <2>1 DEF CacheChanges, MarketTypes, viewVars
<1>3. CASE ListModules
  <2>1. /\ toView' = Append(toView, [type |-> "modules", doc |-> enrolled])
        /\ toHost' = Tail(toHost) /\ toHost # << >>
        /\ UNCHANGED <<registryVars, enrolled, jobs, consent, listings, alerts>>
    BY <1>3 DEF ListModules, Replies, viewVars
  <2>2. [type |-> "modules", doc |-> enrolled] \in Messages
    BY MessagesAre DEF MarketTypes
  <2>3. toView' \in Seq(Messages) /\ toHost' \in Seq({"modules", "market"})
    BY <2>1, <2>2, MessageAppends, MessageTails DEF MarketTypes
  <2>4. MarketTypes'
    BY <2>1, <2>3 DEF MarketTypes, registryVars
  <2> QED
    BY <1>3, <2>4 DEF ListModules, registryVars
<1>4. CASE marketplaceList
  <2>1. /\ toHost' = Tail(toHost) /\ toHost # << >>
        /\ UNCHANGED <<registryVars, enrolled, jobs, consent, alerts>>
    BY <1>4 DEF marketplaceList, viewVars
  <2>2. toView' \in Seq(Messages) /\ listings' \in Nat
    <3>1. CASE Hit("default", pin)
      <4>1. /\ toView' = Append(toView, [type |-> "market", doc |-> fileCache.doc,
                                        installed |-> enrolled # 0])
            /\ listings' = listings
        BY <1>4, <3>1 DEF marketplaceList, Replies, Entries
      <4>2. [type |-> "market", doc |-> fileCache.doc, installed |-> enrolled # 0] \in Messages
        BY <3>1, NetworkIs, MessagesAre
      <4> QED
        BY <4>1, <4>2, MessageAppends DEF MarketTypes
    <3>2. CASE ~Hit("default", pin)
      BY <1>4, <3>2 DEF marketplaceList, MarketTypes
    <3> QED
      BY <3>1, <3>2
  <2>3. toHost' \in Seq({"modules", "market"})
    BY <2>1, MessageTails DEF MarketTypes
  <2>4. MarketTypes'
    BY <2>1, <2>2, <2>3 DEF MarketTypes, registryVars
  <2> QED
    BY <1>4, <2>4 DEF marketplaceList, registryVars
<1>5. CASE ListFetched
  <2>1. PICK d \in Network("default", pin) : WriteCache("default", d) /\ Replies(Entries(d))
    BY <1>5 DEF ListFetched
  <2>2. d \in Documents
    BY NetworkIs
  <2>3. Entries(d) \in Messages
    BY <2>2, MessagesAre DEF Entries
  <2>4. toView' \in Seq(Messages)
    BY <2>1, <2>3, MessageAppends DEF MarketTypes, Replies
  <2>5. fileCache' \in [url : {"default", "given"}, doc : Documents \cup {0}]
    BY <2>1, <2>2 DEF WriteCache
  <2>6. listings' \in Nat
    BY <1>5 DEF ListFetched, MarketTypes
  <2>7. UNCHANGED <<published, pin, declares, lists, enrolled, jobs, toHost, consent, alerts>>
    BY <1>5 DEF ListFetched, viewVars
  <2>8. MarketTypes'
    BY <2>4, <2>5, <2>6, <2>7 DEF MarketTypes
  <2> QED
    BY <1>5, <2>8 DEF ListFetched
<1>6. CASE ListFails
  <2>1. toView' = Append(toView, [type |-> "error"]) /\ listings' \in Nat
    BY <1>6 DEF ListFails, Replies, MarketTypes
  <2>2. toView' \in Seq(Messages)
    BY <2>1, MessageAppends, MessagesAre DEF MarketTypes
  <2>3. UNCHANGED <<registryVars, enrolled, jobs, toHost, consent, alerts>>
    BY <1>6 DEF ListFails, viewVars
  <2>4. MarketTypes'
    BY <2>1, <2>2, <2>3 DEF MarketTypes, registryVars
  <2> QED
    BY <1>6, <2>4 DEF ListFails, registryVars
<1> QED
  BY <1>1, <1>2, <1>3, <1>4, <1>5, <1>6

(* (a refresh asks twice)                                                  *)
LEMMA RefreshIs ==
    ASSUME MarketTypes, refresh
    PROVE  /\ toHost' \in Seq({"modules", "market"}) /\ Len(toHost') = Len(toHost) + 2
           /\ toHost'[Len(toHost) + 1] = "modules" /\ toHost'[Len(toHost) + 2] = "market"
           /\ \A i \in 1..Len(toHost) : toHost'[i] = toHost[i]
           /\ Len(toHost) \in Nat
BY DEF MarketTypes, refresh

(* and of the view.                                                        *)
LEMMA ViewTypes ==
    ASSUME MarketTypes,
           \/ ViewHears \/ ViewReads \/ ClickInstall \/ DialogLearns \/ DialogCancelled
           \/ ConfirmInstall \/ ConfirmUninstall \/ OrderTimesOut \/ UNCHANGED marketVars
    PROVE  /\ MarketTypes' /\ jobs'["other"] = jobs["other"]
           /\ UNCHANGED <<registryVars, onDisk, enrolled, listings, strayed, terms, overlapped,
                          announced>>
<1>0. UNCHANGED <<registryVars, onDisk, enrolled, listings, strayed, terms, overlapped,
                  announced>>
  BY DEF ViewHears, ViewReads, ClickInstall, DialogLearns, DialogCancelled, ConfirmInstall,
         ConfirmUninstall, OrderTimesOut, marketVars
<1>1. CASE ViewHears
  <2>1. /\ refresh /\ alerts' \in Nat /\ UNCHANGED <<jobs, consent, toView>>
    BY <1>1 DEF ViewHears, viewVars, MarketTypes
  <2> QED
    BY <1>0, <2>1, RefreshIs DEF MarketTypes, registryVars
<1>2. CASE ViewReads
  <2>1. /\ toView' = Tail(toView) /\ toView # << >> /\ UNCHANGED <<jobs, consent, alerts>>
        /\ refresh \/ toHost' = toHost
    BY <1>2 DEF ViewReads
  <2>2. toView' \in Seq(Messages) /\ toHost' \in Seq({"modules", "market"})
    BY <2>1, RefreshIs, MessageTails DEF MarketTypes
  <2> QED
    BY <1>0, <2>1, <2>2 DEF MarketTypes, registryVars
<1>3. CASE ClickInstall \/ DialogLearns \/ DialogCancelled \/ OrderTimesOut \/ UNCHANGED marketVars
  <2>1. (consent' = shelf.doc /\ shelf.doc \in lists) \/ consent' = 0 \/ consent' = consent
    BY <1>3 DEF ClickInstall, DialogLearns, DialogCancelled, OrderTimesOut, marketVars, viewVars
  <2>2. UNCHANGED <<jobs, toHost, toView, alerts>>
    BY <1>3 DEF ClickInstall, DialogLearns, DialogCancelled, OrderTimesOut, marketVars
  <2>3. consent' \in Documents \cup {0}
    BY <2>1 DEF MarketTypes
  <2> QED
    BY <1>0, <2>2, <2>3 DEF MarketTypes, registryVars
<1>4. CASE ConfirmInstall \/ ConfirmUninstall
  <2>1. PICK j : /\ jobs' = [jobs EXCEPT !["view"] = j]
                 /\ \/ /\ consent # 0
                       /\ j = [phase |-> "install", accepted |-> declares[consent], ack |-> TRUE,
                               doc |-> 0]
                    \/ j = [NoJob EXCEPT !.phase = "uninstall"]
    BY <1>4 DEF ConfirmInstall, ConfirmUninstall, Orders
  <2>2. j \in Jobs
    <3>1. CASE j = [NoJob EXCEPT !.phase = "uninstall"]
      BY <3>1 DEF Jobs, JobPhases, NoJob
    <3>2. CASE consent # 0 /\ j = [phase |-> "install", accepted |-> declares[consent],
                                  ack |-> TRUE, doc |-> 0]
      <4>1. declares[consent] \in SUBSET Permissions
        BY <3>2 DEF MarketTypes
      <4> QED
        BY <3>2, <4>1 DEF Jobs, JobPhases
    <3> QED
      BY <2>1, <3>1, <3>2
  <2>3. jobs' \in [Actors -> Jobs] /\ jobs'["other"] = jobs["other"]
    BY <2>1, <2>2 DEF MarketTypes, Actors
  <2>4. UNCHANGED <<toHost, toView, alerts>> /\ (consent' = 0 \/ consent' = consent)
    BY <1>4 DEF ConfirmInstall, ConfirmUninstall
  <2> QED
    BY <1>0, <2>3, <2>4 DEF MarketTypes, registryVars
<1> QED
  BY <1>0, <1>1, <1>2, <1>3, <1>4

-----------------------------------------------------------------------------

(* What the cache holds under a pin has been published with it.            *)
CacheFits ==
    /\ strayed = FALSE
    /\ fileCache.url = "default" /\ fileCache.doc # 0 => fileCache.doc \in published

(* The acknowledgement is asked for unless it was given.                   *)
AckKnown == needsAck \in {"unknown", "yes", "no"} /\ (needsAck = "no" => acked)

(* Two actors are not in the directory at once, until they have been.      *)
Apart == overlapped \in BOOLEAN /\ (~overlapped => ~(AtDirectory("view") /\ AtDirectory("other")))

(* What the view has ordered, the user has agreed to.                      *)
ViewAgreed ==
    /\ jobs["view"].phase \in {"install", "fetching"} => jobs["view"].accepted = agreed /\ acked
    /\ jobs["view"].phase \in {"downloading", "extracting", "reifying"} =>
          /\ jobs["view"].doc \in Documents /\ declares[jobs["view"].doc] \subseteq agreed /\ acked
          /\ jobs["view"].phase = "reifying" /\ ~overlapped => onDisk = jobs["view"].doc

(* What is installed asks for no more than was agreed to.                  *)
TermsMet ==
    enrolled # 0 /\ terms.by = "view" /\ ~overlapped =>
        declares[enrolled] \subseteq terms.agreed /\ acked

(* The inductive invariant of the consent.                                 *)
ConsentInv == CacheFits /\ AckKnown /\ Apart /\ ViewAgreed /\ TermsMet

(* It holds at the beginning.                                              *)
LEMMA ConsentInvInit == MarketInit => ConsentInv
<1> SUFFICES ASSUME MarketInit PROVE ConsentInv
  OBVIOUS
<1>1. jobs["view"].phase = "idle" /\ jobs["other"].phase = "idle"
  BY DEF MarketInit, NoJob, Actors
<1>2. CacheFits /\ AckKnown /\ Apart /\ ViewAgreed
  BY <1>1 DEF MarketInit, CacheFits, AckKnown, Apart, ViewAgreed, AtDirectory
<1>3. TermsMet
  BY DEF MarketInit, TermsMet
<1> QED
  BY <1>2, <1>3 DEF ConsentInv

(* To take a place in the directory,                                       *)
LEMMA TakesIs ==
    ASSUME MarketTypes, ConsentInv, NEW url \in {"default", "given"}, NEW p, NEW d,
           Takes(d, url, p),
           \/ d \in Network(url, p)
           \/ Hit(url, p) /\ d = fileCache.doc
    PROVE  strayed' = FALSE
<1>1. Passes(d, p) /\ (url = "default" => d \in published)
  BY DEF Network, Served, Hit, ConsentInv, CacheFits
<1>2. strayed' = (FALSE \/ ~Passes(d, p) \/ (url = "default" /\ d \notin published))
  BY Zenon DEF Takes, ConsentInv, CacheFits
<1> QED
  BY <1>1, <1>2

(* and to enter it, is to be there.                                        *)
LEMMA EntersIs ==
    ASSUME overlapped \in BOOLEAN, NEW a \in Actors, Enters(a)
    PROVE  /\ overlapped' \in BOOLEAN /\ (overlapped => overlapped')
           /\ ~overlapped' => \A b \in Actors \ {a} : ~AtDirectory(b)
<1>1. overlapped' = (overlapped \/ \E b \in Actors \ {a} : AtDirectory(b))
  BY DEF Enters
<1>2. overlapped' \in BOOLEAN
  BY <1>1, Zenon
<1>3. overlapped' <=> (overlapped \/ \E b \in Actors \ {a} : AtDirectory(b))
  BY <1>1, Zenon
<1> QED
  BY <1>2, <1>3

(* A step of one actor leaves the other where it is.                       *)
LEMMA JobKeeps ==
    ASSUME MarketTypes, ConsentInv, NEW a \in Actors,
           \A b \in Actors \ {a} : jobs'[b] = jobs[b],
           UNCHANGED <<declares, acked, agreed, needsAck>>, CacheFits',
           overlapped' \in BOOLEAN, overlapped => overlapped',
           jobs'[a].phase \in {"downloading", "extracting", "reifying", "uninstalling"} =>
              AtDirectory(a) \/ (~overlapped' => \A b \in Actors \ {a} : ~AtDirectory(b)),
           a = "view" => \/ jobs'[a].phase \in {"idle", "uninstalling"}
                         \/ ViewAgreed',
           a = "other" => onDisk' = onDisk \/ AtDirectory("other"),
           TermsMet'
    PROVE  ConsentInv'
<1>1. Actors = {"view", "other"}
  BY DEF Actors
<1>2. AckKnown'
  BY DEF ConsentInv, AckKnown
<1>3. Apart'
  BY <1>1 DEF ConsentInv, Apart, AtDirectory
<1>4. ViewAgreed'
  <2>1. CASE a = "view"
    BY <2>1 DEF ViewAgreed
  <2>2. CASE a = "other"
    BY <1>1, <2>2 DEF ConsentInv, ViewAgreed, Apart, AtDirectory
  <2> QED
    BY <1>1, <2>1, <2>2
<1> QED
  BY <1>2, <1>3, <1>4 DEF ConsentInv

(* The gate keeps the invariant,                                           *)
LEMMA GateConsents ==
    ASSUME MarketTypes, ConsentInv, NEW a \in Actors, NEW d \in Documents, Gate(a, d),
           jobs[a].phase \in {"install", "fetching"},
           UNCHANGED <<declares, acked, agreed, needsAck, enrolled, terms, onDisk>>, CacheFits'
    PROVE  ConsentInv'
<1>1. /\ \A b \in Actors \ {a} : jobs'[b] = jobs[b]
      /\ \/ /\ Admitted(a, d) /\ Enters(a)
            /\ jobs'[a].phase = "downloading" /\ jobs'[a].doc = d
         \/ jobs'[a].phase = "idle" /\ overlapped' = overlapped
  BY GateIs, EndsIs
<1>2. overlapped \in BOOLEAN
  BY DEF ConsentInv, Apart
<1>3. /\ overlapped' \in BOOLEAN /\ (overlapped => overlapped')
      /\ jobs'[a].phase # "idle" => (~overlapped' => \A b \in Actors \ {a} : ~AtDirectory(b))
  BY <1>1, <1>2, EntersIs
<1>4. TermsMet'
  BY <1>3 DEF ConsentInv, TermsMet
<1>5. a = "view" => jobs'[a].phase = "idle" \/ ViewAgreed'
  BY <1>1 DEF ConsentInv, ViewAgreed, Admitted
<1> QED
  BY <1>1, <1>3, <1>4, <1>5, JobKeeps

(* so does the rest of an order,                                           *)
LEMMA WorksConsents ==
    ASSUME MarketTypes, ConsentInv, NEW a \in Actors, Works(a)
    PROVE  ConsentInv'
<1>1. JobPhases = {"idle", "install", "uninstall", "fetching", "downloading", "extracting",
                   "reifying", "uninstalling"}
  BY DEF JobPhases
<1>2. /\ overlapped \in BOOLEAN /\ CacheFits /\ TermsMet /\ ViewAgreed
      /\ \A b \in Actors \ {a} : jobs'[b] = jobs[b]
  BY WorksTypes DEF ConsentInv, Apart
<1>3. CASE InstallAction(a)
  <2>1. UNCHANGED <<declares, acked, agreed, needsAck, enrolled, terms, onDisk, fileCache,
                    published>>
    BY <1>3 DEF InstallAction, registryVars, viewVars
  <2>2. CASE Hit("default", pin)
    <3>1. Gate(a, fileCache.doc) /\ Takes(fileCache.doc, "default", pin)
          /\ jobs[a].phase = "install" /\ fileCache.doc \in Documents
      BY <1>3, <2>2, NetworkIs DEF InstallAction
    <3>2. strayed' = FALSE
      BY <2>2, <3>1, TakesIs
    <3>3. CacheFits'
      BY <1>2, <2>1, <3>2 DEF CacheFits
    <3> QED
      BY <2>1, <3>1, <3>3, GateConsents
  <2>3. CASE ~Hit("default", pin)
    <3>1. Goes(a, "fetching") /\ UNCHANGED <<overlapped, strayed>> /\ jobs[a].phase = "install"
      BY <1>3, <2>3 DEF InstallAction
    <3>2. jobs'[a].phase = "fetching" /\ jobs'[a].accepted = jobs[a].accepted
      BY <1>1, <3>1, GoesIs
    <3>3. CacheFits' /\ TermsMet'
      BY <1>2, <2>1, <3>1 DEF CacheFits, TermsMet
    <3>4. a = "view" => ViewAgreed'
      BY <1>2, <2>1, <3>1, <3>2 DEF ViewAgreed
    <3> QED
      BY <1>2, <2>1, <3>1, <3>2, <3>3, <3>4, JobKeeps
  <2> QED
    BY <2>2, <2>3
<1>4. CASE InstallFetched(a)
  <2>1. UNCHANGED <<declares, acked, agreed, needsAck, enrolled, terms, onDisk, published>>
    BY <1>4 DEF InstallFetched, viewVars
  <2>2. PICK d \in Network("default", pin) :
           WriteCache("default", d) /\ Takes(d, "default", pin) /\ Gate(a, d)
    BY <1>4 DEF InstallFetched
  <2>3. d \in Documents /\ jobs[a].phase = "fetching" /\ d \in published
    BY <1>4, NetworkIs DEF InstallFetched, Network, Served
  <2>4. CacheFits'
    BY <2>1, <2>2, <2>3, TakesIs DEF CacheFits, WriteCache
  <2> QED
    BY <2>1, <2>2, <2>3, <2>4, GateConsents
<1>5. CASE InstallRefused(a) \/ RollsBack(a)
  <2>1. /\ UNCHANGED <<declares, acked, agreed, needsAck, enrolled, terms, fileCache, published,
                       strayed, overlapped>> /\ Ends(a)
        /\ onDisk' = onDisk \/ AtDirectory(a)
    BY <1>5 DEF InstallRefused, RollsBack, viewVars, registryVars, AtDirectory
  <2>2. CacheFits' /\ TermsMet'
    BY <1>2, <2>1 DEF CacheFits, TermsMet
  <2>3. jobs'[a].phase = "idle"
    BY <2>1, EndsIs
  <2> QED
    BY <1>2, <2>1, <2>2, <2>3, JobKeeps
<1>6. CASE Advances(a)
  <2>1. UNCHANGED <<declares, acked, agreed, needsAck, enrolled, terms, fileCache, published,
                    strayed, overlapped>>
    BY <1>6 DEF Advances, viewVars, registryVars
  <2>2. CacheFits' /\ TermsMet'
    BY <1>2, <2>1 DEF CacheFits, TermsMet
  <2>3. AtDirectory(a) /\ jobs'[a].doc = jobs[a].doc
        /\ \/ jobs[a].phase = "downloading" /\ jobs'[a].phase = "extracting"
           \/ /\ jobs[a].phase = "extracting" /\ jobs'[a].phase = "reifying"
              /\ onDisk' = jobs[a].doc
    BY <1>1, <1>6, GoesIs DEF Advances, AtDirectory
  <2>4. a = "view" => ViewAgreed'
    BY <1>2, <2>1, <2>3 DEF ViewAgreed
  <2> QED
    BY <1>2, <2>1, <2>2, <2>3, <2>4, JobKeeps
<1>7. CASE Enrols(a)
  <2>1. /\ UNCHANGED <<declares, acked, agreed, needsAck, fileCache, published, strayed, overlapped,
                       onDisk>> /\ Ends(a)
        /\ jobs[a].phase = "reifying"
        /\ \/ UNCHANGED <<enrolled, terms>>
           \/ /\ enrolled' = onDisk
              /\ terms' = [by |-> a, agreed |-> IF a = "view" THEN agreed ELSE {}]
    BY <1>7 DEF Enrols, viewVars, registryVars
  <2>2. CacheFits'
    BY <1>2, <2>1 DEF CacheFits
  <2>3. TermsMet'
    <3>1. CASE UNCHANGED <<enrolled, terms>>
      BY <1>2, <2>1, <3>1 DEF TermsMet
    <3>2. CASE enrolled' = onDisk /\ a = "view" /\ terms' = [by |-> a, agreed |-> agreed]
      <4>1. ~overlapped => onDisk = jobs[a].doc /\ declares[jobs[a].doc] \subseteq agreed /\ acked
        BY <1>2, <2>1, <3>2 DEF ViewAgreed
      <4> QED
        BY <2>1, <3>2, <4>1 DEF TermsMet
    <3>3. CASE a = "other" /\ terms' = [by |-> a, agreed |-> {}]
      BY <3>3 DEF TermsMet
    <3> QED
      BY <2>1, <3>1, <3>2, <3>3 DEF Actors
  <2>4. jobs'[a].phase = "idle"
    BY <2>1, EndsIs
  <2> QED
    BY <1>2, <2>1, <2>2, <2>3, <2>4, JobKeeps
<1>8. CASE UninstallAction(a)
  <2>1. /\ UNCHANGED <<declares, acked, agreed, needsAck, enrolled, terms, fileCache, published,
                       strayed, onDisk>>
        /\ \/ Ends(a) /\ overlapped' = overlapped
           \/ Goes(a, "uninstalling") /\ Enters(a)
    BY <1>8 DEF UninstallAction, viewVars, registryVars
  <2>2. /\ overlapped' \in BOOLEAN /\ (overlapped => overlapped')
        /\ \/ jobs'[a].phase = "idle"
           \/ /\ jobs'[a].phase = "uninstalling"
              /\ ~overlapped' => \A b \in Actors \ {a} : ~AtDirectory(b)
    BY <1>1, <1>2, <2>1, EndsIs, GoesIs, EntersIs
  <2>3. CacheFits' /\ TermsMet'
    BY <1>2, <2>1, <2>2 DEF CacheFits, TermsMet
  <2> QED
    BY <1>2, <2>1, <2>2, <2>3, JobKeeps
<1>9. CASE UninstallEnds(a)
  <2>1. /\ UNCHANGED <<declares, acked, agreed, needsAck, fileCache, published,
                        strayed, overlapped>>
        /\ Ends(a) /\ enrolled' = 0 /\ AtDirectory(a)
    BY <1>9 DEF UninstallEnds, viewVars, registryVars, AtDirectory
  <2>2. CacheFits' /\ TermsMet'
    BY <1>2, <2>1 DEF CacheFits, TermsMet
  <2>3. jobs'[a].phase = "idle"
    BY <2>1, EndsIs
  <2> QED
    BY <1>2, <2>1, <2>2, <2>3, JobKeeps
<1> QED
  BY <1>3, <1>4, <1>5, <1>6, <1>7, <1>8, <1>9 DEF Works

(* and so does every step.                                                 *)
LEMMA ConsentInvNext == MarketTypes /\ ConsentInv /\ [MarketNext]_marketVars => ConsentInv'
<1> SUFFICES ASSUME MarketTypes, ConsentInv, [MarketNext]_marketVars PROVE ConsentInv'
  OBVIOUS
<1>0. /\ overlapped \in BOOLEAN /\ CacheFits /\ TermsMet /\ ViewAgreed /\ AckKnown /\ Apart
  BY DEF ConsentInv, Apart
<1>1. ASSUME NEW a \in Actors, Works(a) PROVE ConsentInv'
  BY <1>1, WorksConsents
<1>2. CASE \/ OtherAsks \/ \E url \in {"default", "given"}, p \in Documents \cup {0} :
                             CommandInstalls(url, p)
  <2>1. CacheFits'
    <3>1. CASE OtherAsks
      BY <1>0, <3>1 DEF OtherAsks, registryVars, CacheFits
    <3>2. ASSUME NEW url \in {"default", "given"}, NEW p \in Documents \cup {0},
                 CommandInstalls(url, p)
          PROVE  CacheFits'
      <4>1. PICK d \in Network(url, p) \cup (IF Hit(url, p) THEN {fileCache.doc} ELSE {}) :
               /\ Takes(d, url, p)
               /\ IF Hit(url, p) /\ fileCache.doc = d THEN UNCHANGED fileCache
                                                     ELSE WriteCache(url, d)
        BY <3>2 DEF CommandInstalls
      <4>2. d \in Network(url, p) \/ (Hit(url, p) /\ d = fileCache.doc)
        <5>1. CASE Hit(url, p)
          BY <4>1, <5>1
        <5>2. CASE ~Hit(url, p)
          BY <4>1, <5>2
        <5> QED
          BY <5>1, <5>2
      <4>3. strayed' = FALSE
        BY <4>1, <4>2, TakesIs
      <4>4. published' = published
        BY <3>2 DEF CommandInstalls
      <4>5. CASE Hit(url, p) /\ fileCache.doc = d
        BY <1>0, <4>1, <4>3, <4>4, <4>5 DEF CacheFits
      <4>6. CASE ~(Hit(url, p) /\ fileCache.doc = d)
        <5>1. fileCache' = [url |-> url, doc |-> d] /\ d \in Network(url, p)
          BY <4>1, <4>2, <4>6 DEF WriteCache
        <5> QED
          BY <4>3, <4>4, <5>1 DEF CacheFits, Network, Served
      <4> QED
        BY <4>5, <4>6
    <3> QED
      BY <1>2, <3>1, <3>2
  <2>2. /\ jobs'["view"] = jobs["view"] /\ jobs'["other"].phase \in {"install", "uninstall"}
        /\ UNCHANGED <<declares, acked, agreed, needsAck, enrolled, terms, onDisk, overlapped>>
    BY <1>2, OthersTypes DEF viewVars
  <2>3. TermsMet' /\ "other" \in Actors /\ Actors = {"view", "other"}
    BY <1>0, <2>2 DEF TermsMet, Actors
  <2> QED
    BY <1>0, <2>1, <2>2, <2>3, JobKeeps
<1>3. CASE \/ Publishes \/ CacheChanges \/ ListModules \/ marketplaceList
           \/ ListFetched \/ ListFails
  <2>1. UNCHANGED <<declares, acked, agreed, needsAck, enrolled, terms, onDisk, overlapped, jobs>>
    BY <1>3, ServesTypes DEF viewVars
  <2>2. CacheFits'
    <3>1. CASE Publishes
      BY <1>0, <3>1 DEF Publishes, CacheFits
    <3>2. CASE CacheChanges
      BY <1>0, <3>2 DEF CacheChanges, CacheFits, WriteCache
    <3>3. CASE ListModules \/ ListFails
      BY <1>0, <3>3 DEF ListModules, ListFails, CacheFits, registryVars
    <3>4. CASE marketplaceList
      <4>1. UNCHANGED <<fileCache, published>>
        BY <3>4 DEF marketplaceList, registryVars
      <4>2. strayed' = FALSE
        <5>1. CASE Hit("default", pin)
          BY <3>4, <5>1, TakesIs DEF marketplaceList
        <5>2. CASE ~Hit("default", pin)
          BY <1>0, <3>4, <5>2 DEF marketplaceList, CacheFits
        <5> QED
          BY <5>1, <5>2
      <4> QED
        BY <1>0, <4>1, <4>2 DEF CacheFits
    <3>5. CASE ListFetched
      <4>1. PICK d \in Network("default", pin) :
               WriteCache("default", d) /\ Takes(d, "default", pin)
        BY <3>5 DEF ListFetched
      <4>2. strayed' = FALSE /\ d \in published /\ published' = published
        BY <3>5, <4>1, TakesIs DEF ListFetched, Network, Served
      <4> QED
        BY <4>1, <4>2 DEF WriteCache, CacheFits
    <3> QED
      BY <1>3, <3>1, <3>2, <3>3, <3>4, <3>5
  <2>3. AckKnown' /\ Apart' /\ ViewAgreed' /\ TermsMet'
    BY <1>0, <2>1 DEF AckKnown, Apart, ViewAgreed, TermsMet, AtDirectory
  <2> QED
    BY <2>2, <2>3 DEF ConsentInv
<1>4. CASE \/ ViewHears \/ ViewReads \/ ClickInstall \/ DialogLearns \/ DialogCancelled
           \/ ConfirmUninstall \/ OrderTimesOut \/ UNCHANGED marketVars \/ ConfirmInstall
  <2>1. /\ UNCHANGED <<registryVars, onDisk, enrolled, strayed, terms, overlapped>>
        /\ jobs'["other"] = jobs["other"]
    BY <1>4, ViewTypes
  <2>2. acked => acked'
    <3>1. CASE ConfirmInstall
      <4>1. acked' = (acked \/ needsAck = "yes")
        BY <3>1 DEF ConfirmInstall
      <4> QED
        BY <4>1, Zenon
    <3> QED
      BY <1>4, <3>1 DEF ViewHears, ViewReads, ClickInstall, DialogLearns, DialogCancelled,
                        ConfirmUninstall, OrderTimesOut, marketVars
  <2>3. CacheFits' /\ TermsMet'
    BY <1>0, <2>1, <2>2 DEF CacheFits, TermsMet, registryVars
  <2>4. AckKnown'
    <3>1. CASE DialogLearns
      <4>1. needsAck' \in {"yes", IF acked THEN "no" ELSE "yes"} /\ acked' = acked
        BY <3>1 DEF DialogLearns
      <4> QED
        BY <4>1 DEF AckKnown
    <3>2. CASE DialogCancelled \/ ConfirmInstall
      BY <3>2 DEF DialogCancelled, ConfirmInstall, AckKnown
    <3> QED
      BY <1>0, <1>4, <2>2, <3>1, <3>2 DEF AckKnown, ViewHears, ViewReads, ClickInstall,
                        ConfirmUninstall, OrderTimesOut, marketVars, viewVars
  <2>5. Apart' /\ ViewAgreed'
    <3>1. CASE ConfirmInstall
      <4>1. /\ jobs' = [jobs EXCEPT !["view"] =
                           [phase |-> "install", accepted |-> declares[consent],
                            ack |-> TRUE, doc |-> 0]]
            /\ agreed' = declares[consent] /\ acked' = (acked \/ needsAck = "yes")
            /\ needsAck # "unknown" /\ jobs \in [Actors -> Jobs]
        BY <3>1 DEF ConfirmInstall, Orders, MarketTypes
      <4>2. jobs'["view"].phase = "install" /\ jobs'["view"].accepted = agreed'
        BY <4>1 DEF Actors
      <4>3. needsAck \in {"yes", "no"} => acked'
        <5>1. needsAck = "yes" => acked'
          BY <4>1, Zenon
        <5> QED
          BY <1>0, <2>2, <5>1 DEF AckKnown
      <4>4. needsAck \in {"unknown", "yes", "no"}
        BY <1>0 DEF AckKnown
      <4> QED
        BY <1>0, <2>1, <4>1, <4>2, <4>3, <4>4 DEF Apart, ViewAgreed, AtDirectory
    <3>2. CASE ConfirmUninstall
      <4>1. /\ jobs' = [jobs EXCEPT !["view"] = [NoJob EXCEPT !.phase = "uninstall"]]
            /\ jobs \in [Actors -> Jobs]
        BY <3>2 DEF ConfirmUninstall, Orders, MarketTypes
      <4>2. jobs'["view"].phase = "uninstall"
        BY <4>1 DEF Actors, NoJob
      <4> QED
        BY <1>0, <2>1, <4>2 DEF Apart, ViewAgreed, AtDirectory
    <3>3. CASE ~ConfirmInstall /\ ~ConfirmUninstall
      <4>1. UNCHANGED <<jobs, agreed>>
        BY <1>4, <3>3 DEF ViewHears, ViewReads, ClickInstall, DialogLearns, DialogCancelled,
                          OrderTimesOut, marketVars
      <4> QED
        BY <1>0, <2>1, <2>2, <4>1 DEF Apart, ViewAgreed, AtDirectory, registryVars
    <3> QED
      BY <3>1, <3>2, <3>3
  <2> QED
    BY <2>3, <2>4, <2>5 DEF ConsentInv
<1> QED
  BY <1>1, <1>2, <1>3, <1>4 DEF MarketNext, Works

-----------------------------------------------------------------------------

(* The last message of the types K is one of G.                            *)
LastIn(s, K, G) ==
    \E i \in DOMAIN s : s[i] \in G /\ \A j \in DOMAIN s : j > i => s[j].type \notin K

(* No message is of the types K.                                           *)
None(s, K) == \A i \in DOMAIN s : s[i].type \notin K

(* A message of another type leaves the last of K what it is; one of G is  *)
(* it.                                                                     *)
LEMMA LastAppends ==
    ASSUME NEW s \in Seq(Messages), NEW x \in Messages, NEW K, NEW G
    PROVE  /\ (x.type \notin K /\ LastIn(s, K, G)) => LastIn(Append(s, x), K, G)
           /\ (x.type \notin K /\ None(s, K)) => None(Append(s, x), K)
           /\ x \in G => LastIn(Append(s, x), K, G)
<1>1. /\ DOMAIN s = 1..Len(s) /\ DOMAIN Append(s, x) = 1..Len(s) + 1 /\ Len(s) \in Nat
      /\ Append(s, x)[Len(s) + 1] = x /\ \A i \in 1..Len(s) : Append(s, x)[i] = s[i]
  BY MessageAppends
<1> DEFINE t == Append(s, x)
<1>2. DOMAIN t = 1..Len(s) + 1 /\ t[Len(s) + 1] = x /\ \A i \in 1..Len(s) : t[i] = s[i]
  BY <1>1
<1> HIDE DEF t
<1>3. \A i \in DOMAIN t : i = Len(s) + 1 \/ i \in 1..Len(s)
  BY <1>1, <1>2
<1>4. ASSUME x.type \notin K, LastIn(s, K, G) PROVE LastIn(t, K, G)
  <2>1. PICK i \in 1..Len(s) : s[i] \in G /\ \A j \in 1..Len(s) : j > i => s[j].type \notin K
    BY <1>1, <1>4 DEF LastIn
  <2>2. i \in DOMAIN t /\ t[i] \in G
    BY <1>1, <1>2, <2>1
  <2>3. \A j \in DOMAIN t : j > i => t[j].type \notin K
    BY <1>2, <1>3, <1>4, <2>1
  <2> QED
    BY <2>2, <2>3 DEF LastIn
<1>5. ASSUME x.type \notin K, None(s, K) PROVE None(t, K)
  BY <1>1, <1>2, <1>3, <1>5 DEF None
<1>6. ASSUME x \in G PROVE LastIn(t, K, G)
  <2>1. Len(s) + 1 \in DOMAIN t /\ \A j \in DOMAIN t : ~(j > Len(s) + 1)
    BY <1>1, <1>2
  <2> QED
    BY <1>2, <1>6, <2>1 DEF LastIn
<1> QED
  BY <1>4, <1>5, <1>6 DEF t

(* What is read was the last of K, or the last stays.                      *)
LEMMA LastTails ==
    ASSUME NEW s \in Seq(Messages), s # << >>, NEW K, NEW G
    PROVE  /\ None(s, K) => None(Tail(s), K)
           /\ LastIn(s, K, G) => (LastIn(Tail(s), K, G) \/ (None(Tail(s), K) /\ Head(s) \in G))
           /\ Head(s).type \in K => ~None(s, K)
<1> DEFINE t == Tail(s)
<1>1. /\ DOMAIN s = 1..Len(s) /\ DOMAIN t = 1..Len(s) - 1 /\ Head(s) = s[1]
      /\ \A i \in 1..Len(s) - 1 : t[i] = s[i + 1]
      /\ Len(s) \in Nat /\ Len(s) >= 1
  <2>1. Tail(s) \in Seq(Messages) /\ Len(Tail(s)) = Len(s) - 1
    BY MessageTails
  <2> QED
    BY <2>1, MessageTails
<1> HIDE DEF t
<1>2. \A i \in 1..Len(s) - 1 : i + 1 \in 1..Len(s)
  BY <1>1
<1>3. \A i \in 1..Len(s) : i = 1 \/ (i - 1 \in 1..Len(s) - 1 /\ t[i - 1] = s[i])
  BY <1>1
<1>4. None(s, K) => None(t, K)
  BY <1>1, <1>2 DEF None
<1>5. ASSUME LastIn(s, K, G) PROVE LastIn(t, K, G) \/ (None(t, K) /\ Head(s) \in G)
  <2>1. PICK i \in 1..Len(s) : s[i] \in G /\ \A j \in 1..Len(s) : j > i => s[j].type \notin K
    BY <1>1, <1>5 DEF LastIn
  <2>2. \A j \in 1..Len(s) - 1 : j + 1 > i => t[j].type \notin K
    BY <1>1, <1>2, <2>1
  <2>3. CASE i = 1
    <3>1. None(t, K)
      BY <1>1, <2>2, <2>3 DEF None
    <3> QED
      BY <1>1, <2>1, <2>3, <3>1
  <2>4. CASE i # 1
    <3>1. PICK k \in DOMAIN t : k = i - 1 /\ t[k] \in G
      BY <1>1, <1>3, <2>1, <2>4
    <3>2. \A j \in DOMAIN t : j > k => t[j].type \notin K
      BY <1>1, <2>2, <3>1
    <3> QED
      BY <3>1, <3>2 DEF LastIn
  <2> QED
    BY <2>3, <2>4
<1>6. Head(s).type \in K => ~None(s, K)
  BY <1>1 DEF None
<1> USE DEF t
<1> QED
  BY <1>4, <1>5, <1>6, Zenon

(* The more messages are good the easier.                                  *)
LEMMA LastGrows ==
    ASSUME NEW s, NEW K, NEW G, NEW H, G \subseteq H
    PROVE  LastIn(s, K, G) => LastIn(s, K, H)
BY DEF LastIn

(* The messages that change the rows,                                      *)
RowKind == {"modules"}

(* and those that change the shelf.                                        *)
ShelfKind == {"market", "error"}

(* What the last event was about, and what is there:                       *)
Seen == {announced, enrolled}

(* as the shelf tells it.                                                  *)
SeenAs == {announced # 0, enrolled # 0}

(* Rows that were read since,                                              *)
GoodRows == {m \in Messages : m.type = "modules" /\ m.doc \in Seen}

(* and shelves.                                                            *)
GoodShelves ==
    {m \in Messages : m.type = "error" \/ (m.type = "market" /\ m.installed \in SeenAs)}

(* The view has asked for it and the daemon has not answered.              *)
Asked(what) == \E i \in DOMAIN toHost : toHost[i] = what

(* A shelf that is shown is of since the last event.                       *)
ShelfShows == ~shelf.error => shelf.installed \in SeenAs

(* The rows will be read again, or were read since the last event.         *)
RowsCurrent ==
    \/ alerts > 0 \/ Asked("modules")
    \/ LastIn(toView, RowKind, GoodRows)
    \/ None(toView, RowKind) /\ rowsShown \in Seen

(* The shelf too.                                                          *)
ShelfCurrent ==
    \/ alerts > 0 \/ Asked("market") \/ listings > 0
    \/ LastIn(toView, ShelfKind, GoodShelves)
    \/ None(toView, ShelfKind) /\ ShelfShows

(* The inductive invariant of the two lists.                               *)
ShelvesInv ==
    /\ enrolled \in {announced, 0} /\ RowsCurrent /\ ShelfCurrent
    /\ shelf \in [doc : Documents \cup {0}, installed : BOOLEAN, error : BOOLEAN]

(* It holds at the beginning.                                              *)
LEMMA ShelvesInvInit == MarketInit => ShelvesInv
<1> SUFFICES ASSUME MarketInit PROVE ShelvesInv
  OBVIOUS
<1>1. toHost = <<"modules", "market">> /\ enrolled = announced
  BY DEF MarketInit
<1>2. 1 \in DOMAIN toHost /\ 2 \in DOMAIN toHost /\ toHost[1] = "modules" /\ toHost[2] = "market"
  BY <1>1
<1>3. shelf \in [doc : Documents \cup {0}, installed : BOOLEAN, error : BOOLEAN]
  BY DEF MarketInit
<1> QED
  BY <1>1, <1>2, <1>3 DEF ShelvesInv, RowsCurrent, ShelfCurrent, Asked

(* Without an event what was good stays good.                              *)
LEMMA SeenGrows ==
    ASSUME enrolled \in {announced, 0}, announced' = announced,
           enrolled' = enrolled \/ enrolled' = 0
    PROVE  /\ Seen \subseteq Seen' /\ SeenAs \subseteq SeenAs'
           /\ GoodRows \subseteq GoodRows' /\ GoodShelves \subseteq GoodShelves'
           /\ enrolled' \in {announced', 0}
<1>1. Seen \subseteq Seen'
  BY DEF Seen
<1>2. SeenAs \subseteq SeenAs'
  BY DEF SeenAs
<1>3. GoodRows \subseteq GoodRows' /\ GoodShelves \subseteq GoodShelves'
  BY <1>1, <1>2 DEF GoodRows, GoodShelves
<1> QED
  BY <1>1, <1>2, <1>3

(* The steps of the daemon keep it: an event makes an alert.               *)
LEMMA DaemonShelves ==
    ASSUME MarketTypes, ShelvesInv,
           \/ announced' = announced /\ (enrolled' = enrolled \/ enrolled' = 0) /\ alerts' = alerts
           \/ announced' = enrolled' /\ alerts' = alerts + 1,
           UNCHANGED <<toHost, rowsShown, shelf>>, listings' = listings \/ listings' > 0,
           toView' = toView \/ toView' = Append(toView, [type |-> "done"])
    PROVE  ShelvesInv'
<1>1. CASE announced' = enrolled' /\ alerts' = alerts + 1
  <2>1. alerts' > 0
    BY <1>1 DEF MarketTypes
  <2> QED
    BY <1>1, <2>1 DEF ShelvesInv, RowsCurrent, ShelfCurrent
<1>2. CASE announced' = announced /\ (enrolled' = enrolled \/ enrolled' = 0) /\ alerts' = alerts
  <2>1. /\ Seen \subseteq Seen' /\ SeenAs \subseteq SeenAs'
        /\ GoodRows \subseteq GoodRows' /\ GoodShelves \subseteq GoodShelves'
        /\ enrolled' \in {announced', 0}
    BY <1>2, SeenGrows DEF ShelvesInv
  <2>2. \A K \in {RowKind, ShelfKind}, G \in {GoodRows, GoodShelves} :
          /\ LastIn(toView, K, G) => LastIn(toView', K, G)
          /\ None(toView, K) => None(toView', K)
    <3> SUFFICES ASSUME NEW K \in {RowKind, ShelfKind},
                        NEW G \in {GoodRows, GoodShelves}
                 PROVE  /\ LastIn(toView, K, G) => LastIn(toView', K, G)
                        /\ None(toView, K) => None(toView', K)
      OBVIOUS
    <3>1. PICK x \in Messages : x = [type |-> "done"]
      BY MessagesAre
    <3>2. /\ toView \in Seq(Messages) /\ x.type \notin K
          /\ toView' = toView \/ toView' = Append(toView, x)
      BY <3>1 DEF MarketTypes, RowKind, ShelfKind
    <3> QED
      BY <3>2, LastAppends
  <2>3. Asked("modules")' = Asked("modules") /\ Asked("market")' = Asked("market")
    BY DEF Asked
  <2>4. RowsCurrent'
    <3>1. CASE LastIn(toView, RowKind, GoodRows)
      <4>1. LastIn(toView', RowKind, GoodRows')
        BY <2>1, <2>2, <3>1, LastGrows
      <4> QED
        BY <4>1 DEF RowsCurrent
    <3>2. CASE None(toView, RowKind) /\ rowsShown \in Seen
      <4>1. None(toView', RowKind) /\ rowsShown' \in Seen'
        BY <2>1, <2>2, <3>2
      <4> QED
        BY <4>1 DEF RowsCurrent
    <3>3. CASE alerts > 0 \/ Asked("modules")
      BY <1>2, <2>3, <3>3 DEF RowsCurrent
    <3> QED
      BY <3>1, <3>2, <3>3 DEF ShelvesInv, RowsCurrent
  <2>5. ShelfCurrent'
    <3>1. CASE LastIn(toView, ShelfKind, GoodShelves)
      <4>1. LastIn(toView', ShelfKind, GoodShelves')
        BY <2>1, <2>2, <3>1, LastGrows
      <4> QED
        BY <4>1 DEF ShelfCurrent
    <3>2. CASE None(toView, ShelfKind) /\ ShelfShows
      <4>1. None(toView', ShelfKind) /\ ShelfShows'
        BY <2>1, <2>2, <3>2 DEF ShelfShows
      <4> QED
        BY <4>1 DEF ShelfCurrent
    <3>3. CASE alerts > 0 \/ Asked("market") \/ listings > 0
      BY <1>2, <2>3, <3>3 DEF ShelfCurrent
    <3> QED
      BY <3>1, <3>2, <3>3 DEF ShelvesInv, ShelfCurrent
  <2> QED
    BY <2>1, <2>4, <2>5 DEF ShelvesInv
<1> QED
  BY <1>1, <1>2

(* What is asked is asked until it is answered.                            *)
LEMMA AskedTails ==
    ASSUME MarketTypes, toHost # << >>, toHost' = Tail(toHost), NEW what, Head(toHost) # what
    PROVE  Asked(what) => Asked(what)'
<1>1. toHost \in Seq({"modules", "market"})
  BY DEF MarketTypes
<1>2. /\ \A i \in 1..Len(toHost) - 1 : toHost'[i] = toHost[i + 1]
      /\ DOMAIN toHost' = 1..Len(toHost) - 1 /\ DOMAIN toHost = 1..Len(toHost)
      /\ toHost[1] # what /\ Len(toHost) \in Nat
  <2>1. toHost' \in Seq({"modules", "market"}) /\ Len(toHost') = Len(toHost) - 1
    BY <1>1, MessageTails
  <2> QED
    BY <1>1, <2>1, MessageTails
<1>3. ASSUME NEW i \in DOMAIN toHost, toHost[i] = what PROVE Asked(what)'
  <2>1. i - 1 \in DOMAIN toHost' /\ toHost'[i - 1] = what
    BY <1>2, <1>3
  <2> QED
    BY <2>1 DEF Asked
<1> QED
  BY <1>3 DEF Asked

(* Its answers keep it,                                                    *)
LEMMA ServesShelves ==
    ASSUME MarketTypes, ShelvesInv,
           \/ Publishes \/ CacheChanges \/ ListModules \/ marketplaceList
           \/ ListFetched \/ ListFails
    PROVE  ShelvesInv'
<1>0. /\ UNCHANGED <<enrolled, announced, alerts, rowsShown, shelf>>
      /\ toView \in Seq(Messages) /\ toHost \in Seq({"modules", "market"})
  BY ServesTypes DEF viewVars, MarketTypes
<1>1. /\ Seen' = Seen /\ SeenAs' = SeenAs /\ GoodRows' = GoodRows /\ GoodShelves' = GoodShelves
      /\ ShelfShows' = ShelfShows
  BY <1>0 DEF Seen, SeenAs, GoodRows, GoodShelves, ShelfShows
<1>2. CASE Publishes \/ CacheChanges
  <2>1. UNCHANGED <<toHost, toView, listings>>
    BY <1>2 DEF Publishes, CacheChanges
  <2> QED
    BY <1>0, <2>1, DaemonShelves
<1>3. CASE ListModules
  <2>1. /\ toView' = Append(toView, [type |-> "modules", doc |-> enrolled])
        /\ toHost' = Tail(toHost) /\ toHost # << >> /\ Head(toHost) = "modules"
        /\ listings' = listings
    BY <1>3 DEF ListModules, Replies
  <2>2. [type |-> "modules", doc |-> enrolled] \in GoodRows
    BY MessagesAre DEF GoodRows, Seen, MarketTypes
  <2>3. RowsCurrent'
    <3>1. [type |-> "modules", doc |-> enrolled] \in Messages
      BY <2>2 DEF GoodRows
    <3>2. LastIn(toView', RowKind, GoodRows)
      BY <1>0, <2>1, <2>2, <3>1, LastAppends
    <3> QED
      BY <1>1, <3>2 DEF RowsCurrent
  <2>4. Asked("market") => Asked("market")'
    BY <2>1, AskedTails
  <2>5. /\ LastIn(toView, ShelfKind, GoodShelves) =>
              LastIn(toView', ShelfKind, GoodShelves)
        /\ None(toView, ShelfKind) => None(toView', ShelfKind)
    <3>1. PICK x \in Messages : x = [type |-> "modules", doc |-> enrolled]
      BY <2>2 DEF GoodRows
    <3>2. x.type \notin ShelfKind /\ toView' = Append(toView, x)
      BY <2>1, <3>1 DEF ShelfKind
    <3> QED
      BY <1>0, <3>2, LastAppends
  <2>6. ShelfCurrent'
    BY <1>0, <1>1, <2>1, <2>4, <2>5 DEF ShelvesInv, ShelfCurrent
  <2> QED
    BY <1>0, <2>3, <2>6 DEF ShelvesInv
<1>4. ASSUME NEW x, x \in GoodShelves, x.type \in {"market", "error"},
             toView' = Append(toView, x),
             \/ toHost' = toHost
             \/ toHost # << >> /\ toHost' = Tail(toHost) /\ Head(toHost) = "market"
      PROVE  ShelvesInv'
  <2>1. x \in Messages
    BY <1>4 DEF GoodShelves
  <2>2. ShelfCurrent'
    <3>1. LastIn(toView', ShelfKind, GoodShelves)
      BY <1>0, <1>4, <2>1, LastAppends
    <3> QED
      BY <1>1, <3>1 DEF ShelfCurrent
  <2>3. Asked("modules") => Asked("modules")'
    BY <1>4, AskedTails DEF Asked
  <2>4. /\ LastIn(toView, RowKind, GoodRows) => LastIn(toView', RowKind, GoodRows)
        /\ None(toView, RowKind) => None(toView', RowKind)
    <3>1. x.type \notin RowKind
      BY <1>4 DEF RowKind
    <3> QED
      BY <1>0, <1>4, <2>1, <3>1, LastAppends
  <2>5. RowsCurrent'
    BY <1>0, <1>1, <2>3, <2>4 DEF ShelvesInv, RowsCurrent
  <2> QED
    BY <1>0, <2>2, <2>5 DEF ShelvesInv
<1>5. ASSUME NEW d \in Documents
      PROVE  Entries(d) \in GoodShelves /\ Entries(d).type \in {"market", "error"}
  BY MessagesAre DEF Entries, GoodShelves, SeenAs
<1>6. CASE marketplaceList
  <2>1. /\ toHost' = Tail(toHost) /\ toHost # << >> /\ Head(toHost) = "market"
    BY <1>6 DEF marketplaceList
  <2>2. CASE Hit("default", pin)
    <3>1. toView' = Append(toView, Entries(fileCache.doc)) /\ fileCache.doc \in Documents
      BY <1>6, <2>2, NetworkIs DEF marketplaceList, Replies
    <3> QED
      BY <1>4, <1>5, <2>1, <3>1
  <2>3. CASE ~Hit("default", pin)
    <3>1. listings' > 0 /\ toView' = toView
      BY <1>6, <2>3 DEF marketplaceList, MarketTypes
    <3>2. Asked("modules") => Asked("modules")'
      BY <2>1, AskedTails
    <3>3. RowsCurrent'
      BY <1>0, <1>1, <3>1, <3>2 DEF ShelvesInv, RowsCurrent
    <3> QED
      BY <1>0, <3>1, <3>3 DEF ShelvesInv, ShelfCurrent
  <2> QED
    BY <2>2, <2>3
<1>7. CASE ListFetched
  <2>1. PICK d \in Network("default", pin) : Replies(Entries(d))
    BY <1>7 DEF ListFetched
  <2>2. d \in Documents /\ toView' = Append(toView, Entries(d)) /\ toHost' = toHost
    BY <1>7, <2>1, NetworkIs DEF ListFetched, Replies
  <2>3. Entries(d) \in GoodShelves /\ Entries(d).type \in {"market", "error"}
    BY <1>5, <2>2
  <2> QED
    BY <1>4, <2>2, <2>3
<1>8. CASE ListFails
  <2>1. toView' = Append(toView, [type |-> "error"]) /\ toHost' = toHost
    BY <1>8 DEF ListFails, Replies
  <2>2. PICK x \in Messages : x = [type |-> "error"]
    BY MessagesAre
  <2>3. x.type = "error"
    BY <2>2
  <2>4. x \in GoodShelves
    BY <2>3 DEF GoodShelves
  <2>5. toView' = Append(toView, x)
    BY <2>1, <2>2
  <2> QED
    BY <1>4, <2>1, <2>3, <2>4, <2>5
<1> QED
  BY <1>2, <1>3, <1>6, <1>7, <1>8

(* and so does the view.                                                   *)
LEMMA ViewShelves ==
    ASSUME MarketTypes, ShelvesInv,
           \/ ViewHears \/ ViewReads \/ ClickInstall \/ DialogLearns \/ DialogCancelled
           \/ ConfirmInstall \/ ConfirmUninstall \/ OrderTimesOut \/ UNCHANGED marketVars
    PROVE  ShelvesInv'
<1>0. /\ UNCHANGED <<enrolled, announced, listings>>
      /\ toView \in Seq(Messages) /\ toHost \in Seq({"modules", "market"})
  BY ViewTypes DEF MarketTypes
<1>1. Seen' = Seen /\ SeenAs' = SeenAs /\ GoodRows' = GoodRows /\ GoodShelves' = GoodShelves
  BY <1>0 DEF Seen, SeenAs, GoodRows, GoodShelves
<1>2. ASSUME refresh, shelf' = shelf PROVE ShelvesInv'
  <2>1. Asked("modules")' /\ Asked("market")'
    <3>1. /\ Len(toHost) + 1 \in DOMAIN toHost' /\ Len(toHost) + 2 \in DOMAIN toHost'
          /\ toHost'[Len(toHost) + 1] = "modules" /\ toHost'[Len(toHost) + 2] = "market"
      BY <1>2, RefreshIs
    <3> QED
      BY <3>1 DEF Asked
  <2> QED
    BY <1>0, <1>2, <2>1 DEF ShelvesInv, RowsCurrent, ShelfCurrent
<1>3. CASE ViewHears
  BY <1>2, <1>3 DEF ViewHears, viewVars
<1>4. CASE ViewReads /\ Head(toView).type # "done"
  <2>1. /\ toView # << >> /\ toView' = Tail(toView) /\ UNCHANGED <<toHost, alerts>>
        /\ \/ /\ Head(toView).type = "modules" /\ rowsShown' = Head(toView).doc /\ shelf' = shelf
           \/ /\ Head(toView).type = "market" /\ rowsShown' = rowsShown
              /\ shelf' = [doc |-> Head(toView).doc, installed |-> Head(toView).installed,
                           error |-> FALSE]
           \/ /\ Head(toView).type = "error" /\ rowsShown' = rowsShown
              /\ shelf' = [shelf EXCEPT !.error = TRUE]
    BY <1>4 DEF ViewReads
  <2>2. \A what : Asked(what)' = Asked(what)
    BY <2>1 DEF Asked
  <2>3. RowsCurrent'
    <3>1. CASE alerts > 0 \/ Asked("modules")
      BY <2>1, <2>2, <3>1 DEF RowsCurrent
    <3>2. CASE LastIn(toView, RowKind, GoodRows)
      <4>1. \/ LastIn(toView', RowKind, GoodRows)
            \/ None(toView', RowKind) /\ Head(toView) \in GoodRows
        BY <1>0, <2>1, <3>2, LastTails
      <4>2. Head(toView) \in GoodRows => rowsShown' \in Seen
        BY <2>1 DEF GoodRows
      <4> QED
        BY <1>1, <4>1, <4>2 DEF RowsCurrent
    <3>3. CASE None(toView, RowKind) /\ rowsShown \in Seen
      <4>1. Head(toView).type \notin RowKind /\ None(toView', RowKind)
        BY <1>0, <2>1, <3>3, LastTails
      <4> QED
        BY <1>1, <2>1, <3>3, <4>1 DEF RowsCurrent, RowKind
    <3> QED
      BY <3>1, <3>2, <3>3 DEF ShelvesInv, RowsCurrent
  <2>4. ShelfCurrent'
    <3>1. CASE alerts > 0 \/ Asked("market") \/ listings > 0
      BY <1>0, <2>1, <2>2, <3>1 DEF ShelfCurrent
    <3>2. CASE LastIn(toView, ShelfKind, GoodShelves)
      <4>1. \/ LastIn(toView', ShelfKind, GoodShelves)
            \/ None(toView', ShelfKind) /\ Head(toView) \in GoodShelves
        BY <1>0, <2>1, <3>2, LastTails
      <4>2. Head(toView) \in GoodShelves => ShelfShows'
        <5>1. CASE Head(toView).type = "error"
          <6>1. shelf'.error = TRUE
            BY <2>1, <5>1 DEF ShelvesInv
          <6> QED
            BY <6>1 DEF ShelfShows
        <5>2. CASE Head(toView).type = "market"
          <6>1. shelf'.installed = Head(toView).installed
            BY <2>1, <5>2
          <6> QED
            BY <1>1, <5>2, <6>1 DEF GoodShelves, ShelfShows
        <5> QED
          BY <5>1, <5>2 DEF GoodShelves
      <4> QED
        BY <1>1, <4>1, <4>2 DEF ShelfCurrent
    <3>3. CASE None(toView, ShelfKind) /\ ShelfShows
      <4>1. Head(toView).type \notin ShelfKind /\ None(toView', ShelfKind)
        BY <1>0, <2>1, <3>3, LastTails
      <4>2. shelf' = shelf
        BY <2>1, <4>1 DEF ShelfKind
      <4> QED
        BY <1>1, <3>3, <4>1, <4>2 DEF ShelfCurrent, ShelfShows
    <3> QED
      BY <3>1, <3>2, <3>3 DEF ShelvesInv, ShelfCurrent
  <2>5. shelf' \in [doc : Documents \cup {0}, installed : BOOLEAN, error : BOOLEAN]
    <3>1. Head(toView) \in Messages
      BY <1>0, <2>1, MessageTails
    <3>2. CASE /\ Head(toView).type = "market"
               /\ shelf' = [doc |-> Head(toView).doc, installed |-> Head(toView).installed,
                            error |-> FALSE]
      <4>1. Head(toView).doc \in Documents /\ Head(toView).installed \in BOOLEAN
        BY <3>1, <3>2 DEF Messages, RowReplies, ShelfReplies
      <4> QED
        BY <3>2, <4>1
    <3>3. CASE shelf' = [shelf EXCEPT !.error = TRUE] \/ shelf' = shelf
      BY <3>3 DEF ShelvesInv
    <3> QED
      BY <2>1, <3>2, <3>3
  <2> QED
    BY <1>0, <2>3, <2>4, <2>5 DEF ShelvesInv
<1>5. CASE ViewReads /\ Head(toView).type = "done"
  BY <1>2, <1>5 DEF ViewReads
<1>6. CASE \/ ClickInstall \/ DialogLearns \/ DialogCancelled
           \/ ConfirmInstall \/ ConfirmUninstall \/ OrderTimesOut \/ UNCHANGED marketVars
  <2>1. UNCHANGED <<toHost, toView, alerts, rowsShown, shelf>>
    BY <1>6 DEF ClickInstall, DialogLearns, DialogCancelled, ConfirmInstall, ConfirmUninstall,
                OrderTimesOut, marketVars, viewVars
  <2> QED
    BY <1>0, <2>1, DaemonShelves
<1> QED
  BY <1>3, <1>4, <1>5, <1>6

(* Every step keeps it.                                                    *)
LEMMA ShelvesInvNext == MarketTypes /\ ShelvesInv /\ [MarketNext]_marketVars => ShelvesInv'
<1> SUFFICES ASSUME MarketTypes, ShelvesInv, [MarketNext]_marketVars PROVE ShelvesInv'
  OBVIOUS
<1>1. ASSUME NEW a \in Actors, Works(a) PROVE ShelvesInv'
  <2>1. toView' = toView \/ toView' = Append(toView, [type |-> "done"])
    BY <1>1, WorksTypes
  <2>2. /\ UNCHANGED <<toHost, rowsShown, shelf, listings>>
        /\ \/ UNCHANGED <<announced, enrolled, alerts>>
           \/ announced' = announced /\ enrolled' = 0 /\ alerts' = alerts
           \/ announced' = enrolled' /\ alerts' = alerts + 1
    <3>1. CASE Enrols(a) \/ UninstallEnds(a)
      BY <3>1 DEF Enrols, UninstallEnds, Announces, Unannounced, viewVars
    <3> QED
      BY <1>1, <3>1 DEF Works, InstallAction, InstallFetched, InstallRefused, Advances, RollsBack,
                        UninstallAction, viewVars
  <2> QED
    BY <2>1, <2>2, DaemonShelves
<1>2. CASE \/ OtherAsks \/ \E url \in {"default", "given"}, p \in Documents \cup {0} :
                             CommandInstalls(url, p)
  <2>1. UNCHANGED <<toHost, toView, rowsShown, shelf, listings, announced, enrolled, alerts>>
    BY <1>2, OthersTypes DEF viewVars
  <2> QED
    BY <2>1, DaemonShelves
<1> QED
  BY <1>1, <1>2, ServesShelves, ViewShelves DEF MarketNext, Works

(* Every step keeps the types.                                             *)
LEMMA MarketTypesNext == MarketTypes /\ [MarketNext]_marketVars => MarketTypes'
BY WorksTypes, OthersTypes, ServesTypes, ViewTypes DEF MarketNext, Works

(* Every document taken is of the pin and URL of who takes it, and what    *)
(* the view installs asks for no more than its user has agreed to, unless  *)
(* two actions were at the directory at once, for any documents,           *)
(* permissions and orders (Marketplace.tsx and install-flow.ts).           *)
THEOREM ConsentKept == MarketSpec => []ConsentGoverns
<1>1. ConsentInv => ConsentGoverns
  BY DEF ConsentInv, CacheFits, TermsMet, ConsentGoverns
<1> QED
  BY MarketTypesInit, MarketTypesNext, ConsentInvInit, ConsentInvNext, <1>1, PTL DEF MarketSpec

(* At rest the shelves show what the last event was about.                 *)
LEMMA ShelvesFollow == MarketSpec => []ShelvesFollowEvents
<1>1. ShelvesInv => ShelvesFollowEvents
  <2> SUFFICES ASSUME ShelvesInv, ViewRests
               PROVE  /\ rowsShown \in {announced, enrolled}
                      /\ ~shelf.error => shelf.installed \in {announced # 0, enrolled # 0}
    BY DEF ShelvesFollowEvents
  <2>1. toHost = << >> /\ toView = << >> /\ ~(alerts > 0) /\ ~(listings > 0)
    BY DEF ViewRests
  <2>2. \A K, G : ~LastIn(toView, K, G)
    BY <2>1 DEF LastIn
  <2>3. \A what : ~Asked(what)
    BY <2>1 DEF Asked
  <2> QED
    BY <2>1, <2>2, <2>3 DEF ShelvesInv, RowsCurrent, ShelfCurrent, ShelfShows, Seen, SeenAs
<1> QED
  BY MarketTypesInit, MarketTypesNext, ShelvesInvInit, ShelvesInvNext, <1>1, PTL DEF MarketSpec

(* The tools on offer and the shelves follow what they hear of, for any    *)
(* modules, documents and numbers of events (mcp/server.ts:206-223,        *)
(* Marketplace.tsx:134).                                                   *)
THEOREM ListsFollow == McpSpec /\ MarketSpec => []ListsFollowEvents
BY OffersFollow, ShelvesFollow, PTL DEF ListsFollowEvents

-----------------------------------------------------------------------------
(* What a profile's device slot may hold.                                  *)
Slots == Devices \cup {"absent", "null"}

(* What its worktree may be.                                               *)
Worktrees == {"null", "root", "worktree", "branch-name"}

(* What the wizards and the tool may save.                                 *)
Profiles ==
    [isDefault : BOOLEAN, worktree : Worktrees, platform : Platforms, ios : Slots,
     android : Slots, by : {"gui", "tui", "mcp", "cli"}]

(* What the desktop wizard may hold,                                       *)
Desktops ==
    [step : Nat, worktree : Worktrees \ {"branch-name"}, branch : BOOLEAN, platform : Platforms,
     device : Devices \cup {"none"}, listed : SUBSET Devices]

(* and the terminal one.                                                   *)
Terminals ==
    [step : Nat, worktree : Worktrees, platform : Platforms, ios : Slots, android : Slots,
     picked : Slots, loading : BOOLEAN, listed : SUBSET Devices,
     override : {"none", "android"}]

(* What the desktop wizard asks the main process.                          *)
Questions == {[what |-> "create"]} \cup {DeviceAsk(p) : p \in Platforms}

(* What it is about to save.                                               *)
Drafts == [phase : {"listing", "saving"}, of : {p \in Profiles : p.by = "gui"}]

(* The slots i and a are those of platform p.                              *)
Fits(p, i, a) ==
    /\ (i # "absent") <=> "ios" \in Needs(p)
    /\ (a # "absent") <=> "android" \in Needs(p)
    /\ i # "emu" /\ a # "sim"

(* The directory holds profiles; those of the terminal wizard fit.         *)
StoreInv == \A n \in DOMAIN store :
    /\ store[n] \in Profiles
    /\ store[n].by = "tui" => Fits(store[n].platform, store[n].ios, store[n].android)

(* The desktop wizard, typed.                                              *)
DesktopInv == gui \in Desktops /\ asks \subseteq Questions /\ draft \in Drafts \cup {NoDraft}

(* What the terminal wizard holds fits once the device step is behind it;  *)
(* in that step a first device is picked only when there are two to pick.  *)
TerminalInv ==
    /\ tui \in Terminals
    /\ tui.step \in {6, 7} => Fits(tui.platform, tui.ios, tui.android)
    /\ (tui.step = 5 /\ tui.picked # "absent") => (tui.platform = "both" /\ tui.picked # "emu")

(* The inductive invariant of ProfileSetup.                                *)
ProfileInv == StoreInv /\ DesktopInv /\ TerminalInv /\ refused \subseteq {"branch-name"}

(* The devices there are, and the platforms.                               *)
LEMMA DevicesAre ==
    /\ Devices = {"sim", "emu"} /\ Kind("sim") = "ios" /\ Kind("emu") = "android"
    /\ Platforms = {"ios", "android", "both"}
    /\ Needs("both") = {"ios", "android"} /\ Needs("ios") = {"ios"}
    /\ Needs("android") = {"android"}
    /\ \A p : listDevices(p) \subseteq SUBSET Devices
BY DEF Devices, Kind, Platforms, Needs, listDevices

(* The invariant holds at the beginning.                                   *)
LEMMA ProfileInvInit == Init => ProfileInv
<1> SUFFICES ASSUME Init PROVE ProfileInv
  OBVIOUS
<1>1. StoreInv
  BY DEF Init, StoreInv
<1>2. DesktopInv
  BY DevicesAre DEF Init, DesktopInv, GuiFresh, Desktops, Worktrees
<1>3. TerminalInv
  BY DevicesAre DEF Init, TerminalInv, TuiOff, Terminals, Worktrees, Slots
<1> QED
  BY <1>1, <1>2, <1>3 DEF Init, ProfileInv

(* A profile that fits may be saved.                                       *)
LEMMA SaveKeeps ==
    ASSUME StoreInv, NEW n, NEW p \in Profiles, Save(n, p),
           p.by = "tui" => Fits(p.platform, p.ios, p.android)
    PROVE  StoreInv'
<1>1. DOMAIN store' = DOMAIN store \cup {n}
  BY DEF Save, List
<1>2. \A m \in DOMAIN store' : store'[m] = IF m = n THEN p ELSE store[m]
  BY DEF Save, List
<1> QED
  BY <1>1, <1>2 DEF StoreInv, Fits

(* The daemon refuses only a branch name.                                  *)
LEMMA OfferKeeps ==
    ASSUME refused \subseteq {"branch-name"}, NEW p \in Profiles, Offer(p)
    PROVE  refused' \subseteq {"branch-name"}
<1>1. p.worktree \in Worktrees /\ p.platform \in Platforms /\ p.ios \in Slots /\ p.android \in Slots
  BY DEF Profiles
<1>2. validateProfile(p) \/ p.worktree = "branch-name"
  BY <1>1 DEF validateProfile, checkOptionalPath, checkDevices, Worktrees, Slots
<1> QED
  BY <1>2 DEF Offer

(* The tool, a change of the default and a removal keep the invariant;     *)
LEMMA StoreSteps ==
    ASSUME ProfileInv,
           SaveProfileTool \/ \E n \in List : SetDefault(n) \/ Delete(n)
    PROVE  ProfileInv'
<1>0. UNCHANGED <<guiVars, tui, refused>>
  BY DEF SaveProfileTool, SetDefault, Delete
<1>1. DesktopInv' /\ TerminalInv'
  BY <1>0 DEF ProfileInv, DesktopInv, TerminalInv, guiVars
<1>2. CASE SaveProfileTool
  <2>1. CASE findDefault("null") = {}
    <3>1. Minimal \in Profiles /\ Minimal.by # "tui"
      BY DevicesAre DEF Minimal, Profiles, Worktrees, Slots
    <3>2. Save(0, Minimal)
      BY <1>2, <2>1 DEF SaveProfileTool
    <3> QED
      BY <3>1, <3>2, SaveKeeps, <1>0, <1>1 DEF ProfileInv
  <2>2. CASE findDefault("null") # {}
    <3>1. PICK n \in findDefault("null") : Save(0, [store[n] EXCEPT !.by = "mcp"])
      BY <1>2, <2>2 DEF SaveProfileTool
    <3>2. store[n] \in Profiles
      BY DEF findDefault, List, ProfileInv, StoreInv
    <3>3. PICK p : p = [store[n] EXCEPT !.by = "mcp"]
      OBVIOUS
    <3>4. p \in Profiles /\ p.by = "mcp"
      BY <3>2, <3>3 DEF Profiles
    <3> QED
      BY <3>1, <3>3, <3>4, SaveKeeps, <1>0, <1>1 DEF ProfileInv
  <2> QED
    BY <2>1, <2>2
<1>3. ASSUME NEW n \in List, SetDefault(n) PROVE ProfileInv'
  <2>1. PICK c : store' = [m \in List |->
                             [store[m] EXCEPT !.isDefault = m = n \/ (@ /\ m # c)]]
    BY <1>3 DEF SetDefault, setDefault
  <2>2. ASSUME NEW m \in DOMAIN store'
        PROVE  /\ store'[m] \in Profiles
               /\ store'[m].by = "tui"
                     => Fits(store'[m].platform, store'[m].ios, store'[m].android)
    <3>1. m \in DOMAIN store
      BY <2>1, <2>2 DEF List
    <3>2. PICK b \in BOOLEAN : store'[m] = [store[m] EXCEPT !.isDefault = b]
      <4>1. (m = n \/ (store[m].isDefault /\ m # c)) \in BOOLEAN
        OBVIOUS
      <4> QED
        BY <2>1, <3>1, <4>1 DEF List
    <3>3. store[m] \in Profiles
      BY <3>1 DEF ProfileInv, StoreInv
    <3>4. /\ store'[m] \in Profiles /\ store'[m].by = store[m].by
          /\ store'[m].platform = store[m].platform
          /\ store'[m].ios = store[m].ios /\ store'[m].android = store[m].android
      BY <3>2, <3>3 DEF Profiles
    <3> QED
      BY <3>1, <3>4 DEF ProfileInv, StoreInv
  <2> QED
    BY <2>2, <1>0, <1>1 DEF ProfileInv, StoreInv
<1>4. ASSUME NEW n \in List, Delete(n) PROVE ProfileInv'
  <2>1. /\ DOMAIN store' = DOMAIN store \ {n}
        /\ \A m \in DOMAIN store' : store'[m] = store[m]
    BY <1>4 DEF Delete, List
  <2>2. StoreInv'
    BY <2>1 DEF StoreInv, ProfileInv
  <2> QED
    BY <2>2, <1>0, <1>1 DEF ProfileInv
<1> QED
  BY <1>2, <1>3, <1>4

(* (a step of the desktop wizard may ask)                                  *)
LEMMA AsksKeep ==
    ASSUME DesktopInv, NEW g \in Desktops, GoesTo(g)
    PROVE  gui' \in Desktops /\ asks' \subseteq Questions
<1>1. g.platform \in Platforms
  BY DEF Desktops
<1> QED
  BY <1>1 DEF GoesTo, DesktopInv, StepAsks, Questions

(* so does the desktop,                                                    *)
LEMMA GuiSteps ==
    ASSUME ProfileInv, GuiNext
    PROVE  ProfileInv'
<1>0. gui \in Desktops /\ DesktopInv
  BY DEF ProfileInv, DesktopInv
<1>1. UNCHANGED tui
  BY DEF GuiNext, Launch, OpenWizard, goNext, goBack, Cancel, ChooseWorktree, CreateWorktree,
         ChooseBranch, ChoosePlatform, ChooseDevice, Answered, handleFinish, FinishListed,
         FinishSaved, Stays
<1>2. TerminalInv'
  BY <1>1 DEF ProfileInv, TerminalInv
<1>3. GuiFresh \in Desktops /\ [GuiFresh EXCEPT !.step = 1] \in Desktops
  BY DevicesAre DEF GuiFresh, Desktops, Worktrees
<1>4. ASSUME UNCHANGED <<store, refused>>, DesktopInv' PROVE ProfileInv'
  BY <1>2, <1>4 DEF ProfileInv, StoreInv
<1>5. CASE Launch \/ OpenWizard
  <2>1. /\ gui' \in {gui, [GuiFresh EXCEPT !.step = 1]}
        /\ UNCHANGED <<store, asks, draft>>
        /\ \/ UNCHANGED refused
           \/ \E n \in findDefault("null") : Offer(store[n])
    BY <1>5 DEF Launch, OpenWizard
  <2>2. DesktopInv'
    BY <1>0, <1>3, <2>1 DEF DesktopInv
  <2>3. refused' \subseteq {"branch-name"}
    <3>1. ASSUME NEW n \in findDefault("null"), Offer(store[n])
          PROVE  refused' \subseteq {"branch-name"}
      <4>1. store[n] \in Profiles
        BY DEF findDefault, List, ProfileInv, StoreInv
      <4> QED
        BY <3>1, <4>1, OfferKeeps DEF ProfileInv
    <3> QED
      BY <2>1, <3>1 DEF ProfileInv
  <2> QED
    BY <1>2, <2>1, <2>2, <2>3 DEF ProfileInv, StoreInv
<1>6. ASSUME Stays, NEW g \in Desktops, GoesTo(g) PROVE ProfileInv'
  BY <1>0, <1>4, <1>6, AsksKeep DEF Stays, DesktopInv
<1>7. CASE goNext \/ goBack
  <2>1. PICK k \in Nat : Stays /\ GoesTo([gui EXCEPT !.step = k])
    <3>1. gui.step \in Nat
      BY <1>0 DEF Desktops
    <3>2. gui.step + 1 \in Nat /\ (gui.step > 1 => gui.step - 1 \in Nat)
      BY <3>1
    <3> QED
      BY <1>7, <3>2 DEF goNext, goBack
  <2>2. [gui EXCEPT !.step = k] \in Desktops
    BY <1>0 DEF Desktops
  <2> QED
    BY <1>6, <2>1, <2>2
<1>8. CASE ChooseWorktree
  <2>1. PICK w \in {"root", "worktree"} : GoesTo([gui EXCEPT !.worktree = w, !.step = 2])
    BY <1>8 DEF ChooseWorktree
  <2>2. [gui EXCEPT !.worktree = w, !.step = 2] \in Desktops
    BY <1>0 DEF Desktops, Worktrees
  <2> QED
    BY <1>6, <1>8, <2>1, <2>2 DEF ChooseWorktree
<1>9. CASE ChooseBranch
  <2>1. [gui EXCEPT !.branch = TRUE, !.step = 3] \in Desktops
    BY <1>0 DEF Desktops
  <2> QED
    BY <1>6, <1>9, <2>1 DEF ChooseBranch
<1>10. CASE ChoosePlatform
  <2>1. PICK p \in Platforms : GoesTo([gui EXCEPT !.platform = p, !.device = "none"])
    BY <1>10 DEF ChoosePlatform
  <2>2. [gui EXCEPT !.platform = p, !.device = "none"] \in Desktops
    BY <1>0 DEF Desktops
  <2> QED
    BY <1>6, <1>10, <2>1, <2>2 DEF ChoosePlatform
<1>11. CASE ChooseDevice
  <2>1. PICK d \in gui.listed : GoesTo([gui EXCEPT !.device = d, !.step = 6])
    BY <1>11 DEF ChooseDevice
  <2>2. d \in Devices
    BY <1>0, <2>1 DEF Desktops
  <2>3. [gui EXCEPT !.device = d, !.step = 6] \in Desktops
    BY <1>0, <2>2 DEF Desktops
  <2> QED
    BY <1>6, <1>11, <2>1, <2>3 DEF ChooseDevice
<1>12. CASE CreateWorktree \/ Cancel
  <2>1. gui' \in {gui, GuiFresh} /\ asks' \subseteq asks \cup Questions /\ Stays
    BY <1>12 DEF CreateWorktree, Cancel, Questions
  <2> QED
    BY <1>0, <1>3, <1>4, <2>1 DEF Stays, DesktopInv
<1>13. CASE Answered
  <2>1. PICK a \in asks :
           /\ CASE a.what = "devices" ->
                     \E l \in listDevices(a.platform) : gui' = [gui EXCEPT !.listed = l]
                [] a.what = "create" ->
                     \E ok \in BOOLEAN : gui' = IF ok
                       THEN [gui EXCEPT !.worktree = "worktree", !.step = 2] ELSE gui
           /\ asks' = asks \ {a}
    BY <1>13 DEF Answered
  <2>2. a \in Questions
    BY <1>0 DEF DesktopInv
  <2>3. a.what \in {"create", "devices"}
    BY <2>2 DEF Questions, DeviceAsk
  <2>4. CASE a.what = "devices"
    <3>1. PICK l \in listDevices(a.platform) : gui' = [gui EXCEPT !.listed = l]
      BY <2>1, <2>4
    <3>2. l \in SUBSET Devices
      BY <3>1, DevicesAre
    <3>3. gui' \in Desktops
      BY <1>0, <3>1, <3>2 DEF Desktops
    <3> QED
      BY <1>0, <1>4, <1>13, <2>1, <3>3 DEF Stays, DesktopInv, Answered
  <2>5. CASE a.what = "create"
    <3>1. gui' \in {gui, [gui EXCEPT !.worktree = "worktree", !.step = 2]}
      BY <2>1, <2>5
    <3>2. [gui EXCEPT !.worktree = "worktree", !.step = 2] \in Desktops
      BY <1>0 DEF Desktops, Worktrees
    <3>3. gui' \in Desktops
      BY <1>0, <3>1, <3>2
    <3> QED
      BY <1>0, <1>4, <1>13, <2>1, <3>3 DEF Stays, DesktopInv, Answered
  <2> QED
    BY <2>3, <2>4, <2>5
<1>14. CASE handleFinish
  <2>1. Slot(gui.device, "ios", gui.platform) \in Slots
    BY <1>0 DEF Slot, Slots, Desktops
  <2>2. Slot(gui.device, "android", gui.platform) \in Slots
    BY <1>0 DEF Slot, Slots, Desktops
  <2>3. gui.worktree \in Worktrees /\ gui.platform \in Platforms
    BY <1>0 DEF Desktops
  <2>4. draft' \in Drafts
    BY <1>14, <2>1, <2>2, <2>3 DEF handleFinish, Drafts, Profiles
  <2> QED
    BY <1>0, <1>4, <1>14, <2>4 DEF handleFinish, DesktopInv
<1>15. draft.phase \in {"listing", "saving"} => draft \in Drafts
  BY <1>0 DEF DesktopInv, NoDraft
<1>16. CASE FinishListed
  <2>1. (List = {}) \in BOOLEAN
    OBVIOUS
  <2>2. PICK b \in BOOLEAN : draft' = [phase |-> "saving", of |-> [draft.of EXCEPT !.isDefault = b]]
    BY <1>16, <2>1 DEF FinishListed
  <2>3. draft.of \in Profiles /\ draft.of.by = "gui"
    BY <1>15, <1>16 DEF FinishListed, Drafts
  <2>4. draft' \in Drafts
    BY <2>2, <2>3 DEF Drafts, Profiles
  <2> QED
    BY <1>0, <1>4, <1>16, <2>4 DEF FinishListed, DesktopInv
<1>17. CASE FinishSaved
  <2>1. draft.of \in Profiles /\ draft.of.by = "gui"
    BY <1>15, <1>17 DEF FinishSaved, Drafts
  <2>2. Save(made, draft.of) /\ Offer(draft.of)
    BY <1>17 DEF FinishSaved
  <2>3. StoreInv' /\ refused' \subseteq {"branch-name"}
    BY <2>1, <2>2, SaveKeeps, OfferKeeps DEF ProfileInv
  <2>4. DesktopInv'
    BY <1>3, <1>17 DEF FinishSaved, DesktopInv
  <2> QED
    BY <1>2, <2>3, <2>4 DEF ProfileInv
<1> QED
  BY <1>5, <1>7, <1>8, <1>9, <1>10, <1>11, <1>12, <1>13, <1>14, <1>16, <1>17 DEF GuiNext

(* so does the terminal,                                                   *)
LEMMA TuiSteps ==
    ASSUME ProfileInv, TuiNext
    PROVE  ProfileInv'
<1>0. tui \in Terminals /\ TerminalInv
  BY DEF ProfileInv, TerminalInv
<1>1. UNCHANGED <<gui, asks, draft>>
  BY DEF TuiNext, StartFlow, Quit, handleWorktreeNext, handlePlatformNext, handleModeNext,
         handleStepNext, Scanned, handleIosSelect, handleAndroidSelect, Escape,
         onWizardComplete, TuiStays, guiVars
<1>2. DesktopInv'
  BY <1>1 DEF ProfileInv, DesktopInv
<1>3. ASSUME TuiStays, TerminalInv' PROVE ProfileInv'
  BY <1>2, <1>3 DEF ProfileInv, StoreInv, TuiStays
<1>4. \A k \in Nat : [TuiOff EXCEPT !.step = k] \in Terminals
  BY DevicesAre DEF TuiOff, Terminals, Worktrees, Slots
<1>5. CASE StartFlow
  <2>1. PICK o \in {"none", "android"} :
          \/ /\ tui' = [TuiOff EXCEPT !.step = 1, !.override = o] /\ UNCHANGED refused
          \/ \E n \in List :
               /\ tui' = [TuiOff EXCEPT !.step = 8]
               /\ Offer(IF o = "none" THEN store[n] ELSE [store[n] EXCEPT !.platform = o])
    BY <1>5 DEF StartFlow
  <2>2. [TuiOff EXCEPT !.step = 1, !.override = o] \in Terminals
    BY DevicesAre DEF TuiOff, Terminals, Worktrees, Slots
  <2>3. tui' \in Terminals /\ tui'.step \in {1, 8}
    <3>1. /\ [TuiOff EXCEPT !.step = 1, !.override = o].step = 1
          /\ [TuiOff EXCEPT !.step = 8].step = 8 /\ [TuiOff EXCEPT !.step = 8] \in Terminals
      BY <1>4 DEF TuiOff
    <3> QED
      BY <2>1, <2>2, <3>1
  <2>4. refused' \subseteq {"branch-name"}
    <3>1. ASSUME NEW n \in List,
                 Offer(IF o = "none" THEN store[n] ELSE [store[n] EXCEPT !.platform = o])
          PROVE  refused' \subseteq {"branch-name"}
      <4>1. store[n] \in Profiles
        BY DEF List, ProfileInv, StoreInv
      <4>2. [store[n] EXCEPT !.platform = "android"] \in Profiles
        BY <4>1, DevicesAre DEF Profiles
      <4>3. PICK p \in Profiles :
                p = IF o = "none" THEN store[n] ELSE [store[n] EXCEPT !.platform = o]
        BY <4>1, <4>2
      <4> QED
        BY <3>1, <4>3, OfferKeeps DEF ProfileInv
    <3> QED
      BY <2>1, <3>1 DEF ProfileInv
  <2>5. TerminalInv'
    BY <2>3 DEF TerminalInv
  <2> QED
    BY <1>2, <1>5, <2>4, <2>5 DEF StartFlow, ProfileInv, StoreInv
<1>6. CASE Quit
  <2>1. tui' \in Terminals /\ tui'.step = 0
    BY <1>6, DevicesAre DEF Quit, TuiOff, Terminals, Worktrees, Slots
  <2> QED
    BY <1>3, <1>6, <2>1 DEF Quit, TerminalInv
<1>7. CASE handleWorktreeNext
  <2>1. PICK w \in {"null", "worktree", "branch-name"} :
            tui' = [tui EXCEPT !.worktree = w, !.step = 2]
    BY <1>7 DEF handleWorktreeNext
  <2>2. tui' \in Terminals /\ tui'.step = 2
    BY <1>0, <2>1 DEF Terminals, Worktrees
  <2> QED
    BY <1>3, <1>7, <2>2 DEF handleWorktreeNext, TerminalInv
<1>8. CASE handlePlatformNext
  <2>1. PICK p \in Platforms : tui' = [tui EXCEPT !.platform = p, !.step = 4]
    BY <1>8 DEF handlePlatformNext
  <2>2. tui' \in Terminals /\ tui'.step = 4
    BY <1>0, <2>1 DEF Terminals
  <2> QED
    BY <1>3, <1>8, <2>2 DEF handlePlatformNext, TerminalInv
<1>9. ASSUME tui' = [tui EXCEPT !.step = 5, !.loading = TRUE, !.picked = "absent",
                                !.listed = {}]
      PROVE  TerminalInv'
  <2>1. tui' \in Terminals /\ tui'.step = 5 /\ tui'.picked = "absent"
    BY <1>0, <1>9 DEF Terminals, Slots
  <2> QED
    BY <2>1 DEF TerminalInv
<1>10. CASE handleModeNext
  BY <1>3, <1>9, <1>10 DEF handleModeNext
<1>11. CASE handleStepNext
  <2>1. tui.step \in {2, 6} /\ tui' = [tui EXCEPT !.step = tui.step + 1]
    BY <1>11 DEF handleStepNext
  <2>2. /\ tui' \in Terminals /\ tui'.step \in {3, 7} /\ (tui'.step = 7 => tui.step = 6)
        /\ tui'.platform = tui.platform /\ tui'.ios = tui.ios /\ tui'.android = tui.android
    BY <1>0, <2>1 DEF Terminals
  <2> QED
    BY <1>0, <1>3, <1>11, <2>2 DEF handleStepNext, TerminalInv
<1>12. CASE Scanned
  <2>1. PICK l \in listDevices(tui.platform) : tui' = [tui EXCEPT !.loading = FALSE, !.listed = l]
    BY <1>12 DEF Scanned
  <2>2. l \in SUBSET Devices
    BY <2>1, DevicesAre
  <2>3. /\ tui' \in Terminals /\ tui'.step = tui.step /\ tui'.picked = tui.picked
        /\ tui'.platform = tui.platform /\ tui'.ios = tui.ios /\ tui'.android = tui.android
    BY <1>0, <2>1, <2>2 DEF Terminals
  <2> QED
    BY <1>0, <1>3, <1>12, <2>3 DEF Scanned, TerminalInv
<1>13. ASSUME NEW sort \in {"ios", "android"}, NEW d \in Offered(sort)
       PROVE  d \in Slots /\ d # "absent" /\ (sort = "ios" => d # "emu")
              /\ (sort = "android" => d # "sim")
  <2>1. tui.listed \subseteq Devices
    BY <1>0 DEF Terminals
  <2> QED
    BY <1>13, <2>1, DevicesAre DEF Offered, Slots
<1>14. CASE handleIosSelect
  <2>1. PICK d \in Offered("ios") :
           IF tui.platform = "ios" THEN handleDeviceNext(d, "absent")
           ELSE tui' = [tui EXCEPT !.picked = d]
    BY <1>14 DEF handleIosSelect
  <2>2. d \in Slots /\ d # "absent" /\ d # "emu"
    BY <1>13, <2>1
  <2>3. CASE tui.platform = "ios"
    <3>1. tui' = [tui EXCEPT !.ios = d, !.android = "absent", !.step = 6]
      BY <2>1, <2>3 DEF handleDeviceNext
    <3>2. /\ tui' \in Terminals /\ tui'.step = 6 /\ tui'.platform = "ios" /\ tui'.ios = d
          /\ tui'.android = "absent"
      BY <1>0, <2>2, <2>3, <3>1 DEF Terminals, Slots
    <3>3. Fits("ios", d, "absent")
      BY <2>2, DevicesAre DEF Fits
    <3> QED
      BY <1>3, <1>14, <3>2, <3>3 DEF handleIosSelect, TerminalInv
  <2>4. CASE tui.platform # "ios"
    <3>1. tui' = [tui EXCEPT !.picked = d]
      BY <2>1, <2>4
    <3>2. tui.platform = "both" /\ tui.step = 5
      BY <1>0, <1>14, <2>4, DevicesAre DEF handleIosSelect, selectingIos, Terminals
    <3>3. /\ tui' \in Terminals /\ tui'.step = 5 /\ tui'.platform = "both" /\ tui'.picked = d
      BY <1>0, <2>2, <3>1, <3>2 DEF Terminals
    <3> QED
      BY <1>3, <1>14, <2>2, <3>3 DEF handleIosSelect, TerminalInv
  <2> QED
    BY <2>3, <2>4
<1>15. CASE handleAndroidSelect
  <2>1. PICK d \in Offered("android") :
            tui' = [tui EXCEPT !.ios = tui.picked, !.android = d, !.step = 6]
    BY <1>15 DEF handleAndroidSelect, handleDeviceNext
  <2>2. d \in Slots /\ d # "absent" /\ d # "sim"
    BY <1>13, <2>1
  <2>3. /\ tui' \in Terminals /\ tui'.step = 6 /\ tui'.platform = tui.platform
        /\ tui'.ios = tui.picked /\ tui'.android = d
    BY <1>0, <2>1, <2>2 DEF Terminals
  <2>4. tui.platform \in Platforms /\ tui.step = 5 /\ ~selectingIos
    BY <1>0, <1>15 DEF handleAndroidSelect, Terminals
  <2>5. \/ tui.platform = "both" /\ tui.picked # "absent" /\ tui.picked # "emu"
        \/ tui.platform = "android" /\ tui.picked = "absent"
    BY <1>0, <2>4, DevicesAre DEF selectingIos, TerminalInv
  <2>6. Fits(tui.platform, tui.picked, d)
    BY <2>2, <2>5, DevicesAre DEF Fits
  <2> QED
    BY <1>3, <1>15, <2>3, <2>6 DEF handleAndroidSelect, TerminalInv
<1>16. CASE Escape
  <2>1. tui.step \in 2..7 /\ TuiStays
    BY <1>16 DEF Escape
  <2>2. CASE tui.step = 6
    <3>1. tui' = [tui EXCEPT !.step = 5, !.loading = TRUE, !.picked = "absent", !.listed = {}]
      BY <1>16, <2>2 DEF Escape
    <3> QED
      BY <1>3, <1>9, <2>1, <3>1
  <2>3. CASE tui.step = 5 /\ tui' = [tui EXCEPT !.picked = "absent"]
    <3>1. tui' \in Terminals /\ tui'.step = 5 /\ tui'.picked = "absent"
      BY <1>0, <2>3 DEF Terminals, Slots
    <3> QED
      BY <1>3, <2>1, <3>1 DEF TerminalInv
  <2>4. CASE tui.step # 6 /\ tui' = [tui EXCEPT !.step = tui.step - 1, !.loading = FALSE]
    <3>0. PICK k \in Nat : k = tui.step - 1
      BY <2>1
    <3>1. /\ tui' \in Terminals /\ tui'.step = tui.step - 1 /\ tui'.platform = tui.platform
          /\ tui'.ios = tui.ios /\ tui'.android = tui.android
      BY <1>0, <2>4, <3>0 DEF Terminals
    <3>2. tui'.step # 5 /\ (tui'.step \in {6, 7} => tui.step = 7)
      BY <2>1, <2>4, <3>1
    <3> QED
      BY <1>0, <1>3, <2>1, <3>1, <3>2 DEF TerminalInv
  <2> QED
    BY <1>16, <2>2, <2>3, <2>4 DEF Escape
<1>17. CASE onWizardComplete
  <2>1. PICK p : p = [isDefault |-> TRUE, worktree |-> tui.worktree, platform |-> tui.platform,
                      ios |-> tui.ios, android |-> tui.android, by |-> "tui"]
    OBVIOUS
  <2>2. p \in Profiles /\ Fits(p.platform, p.ios, p.android)
    <3>1. tui.step = 7
      BY <1>17 DEF onWizardComplete
    <3> QED
      BY <1>0, <2>1, <3>1 DEF Terminals, Profiles, TerminalInv
  <2>3. [p EXCEPT !.platform = "android", !.by = "cli"] \in Profiles
    BY <2>2, DevicesAre DEF Profiles
  <2>4. PICK q : q = applyCliOverrides(p)
    OBVIOUS
  <2>5. q \in Profiles /\ (q.by = "tui" => Fits(q.platform, q.ios, q.android))
    <3>1. tui.override \in {"none", "android"}
      BY <1>0 DEF Terminals
    <3>2. CASE tui.override = "none"
      BY <2>2, <2>4, <3>2 DEF applyCliOverrides
    <3>3. CASE tui.override = "android"
      <4>1. q = [p EXCEPT !.platform = "android", !.by = "cli"]
        BY <2>4, <3>3 DEF applyCliOverrides
      <4>2. q.by = "cli"
        BY <2>2, <4>1 DEF Profiles
      <4> QED
        BY <2>3, <4>1, <4>2
    <3> QED
      BY <3>1, <3>2, <3>3
  <2>6. Save(made + 1, q) /\ Offer(q) /\ tui' = [TuiOff EXCEPT !.step = 8]
    BY <1>17, <2>1, <2>4 DEF onWizardComplete
  <2>7. StoreInv' /\ refused' \subseteq {"branch-name"}
    BY <2>5, <2>6, SaveKeeps, OfferKeeps DEF ProfileInv
  <2>8. tui' \in Terminals /\ tui'.step = 8
    BY <1>4, <2>6 DEF TuiOff
  <2> QED
    BY <1>2, <2>7, <2>8 DEF ProfileInv, TerminalInv
<1> QED
  BY <1>5, <1>6, <1>7, <1>8, <1>10, <1>11, <1>12, <1>14, <1>15, <1>16, <1>17 DEF TuiNext

(* so does every step.                                                     *)
LEMMA ProfileInvNext == ProfileInv /\ [Next]_vars => ProfileInv'
<1> SUFFICES ASSUME ProfileInv, [Next]_vars PROVE ProfileInv'
  OBVIOUS
<1>1. CASE UNCHANGED vars
  BY <1>1 DEF vars, guiVars, ProfileInv, StoreInv, DesktopInv, TerminalInv
<1> QED
  BY <1>1, StoreSteps, GuiSteps, TuiSteps DEF Next

(* Whatever the order of answers and however often the user goes back, a   *)
(* profile is refused for its worktree alone, and the slots of one of the  *)
(* terminal wizard are those of its platform (profile-guard.ts,            *)
(* DeviceStep.tsx).                                                        *)
THEOREM ProfilesStayFit == ProfileSpec => []ProfilesFit
<1>1. ProfileInv => ProfilesFit
  BY DEF ProfileInv, StoreInv, ProfilesFit, RefusedForItsWorktree, TuiDevicesFit, List, Fits
<1> QED
  BY ProfileInvInit, ProfileInvNext, <1>1, PTL DEF ProfileSpec

-----------------------------------------------------------------------------
(* A panel; "none" is not one.                                             *)
PanelIds == Panels \ {"none"}

(* What the renderer invokes.                                              *)
PanelCalls == [what : {"activate", "deactivate"}, panel : PanelIds]

(* What waits in main.                                                     *)
Activations == [panel : PanelIds, bridge : Nat]

(* The variables that matter, typed.                                       *)
PanelTypes ==
    /\ inbox \in Seq(PanelCalls) /\ pending \in Seq(Activations)
    /\ bridges \in 0..MaxBridges /\ depsBridge \in Nat
    /\ activeView \in [Bridges -> PanelOrNone] /\ mounted \in PanelOrNone

(* One client, and no handler that failed.                                 *)
Undisturbed == bridges <= 1 /\ ~upset

(* Everything is of the one bridge there is; what is attached is its       *)
(* active view.                                                            *)
InOneBridge ==
    /\ depsBridge = bridges
    /\ \A i \in DOMAIN pending : pending[i].bridge = bridges
    /\ bridges = 0 => attached = {}
    /\ bridges = 1 => attached \subseteq {<<1, activeView[1]>>}

(* The last of s is about p.                                               *)
LastIs(s, p) == s # << >> /\ s[Len(s)].panel = p

(* The last that is asked, or waits, is to show the mounted panel, or it   *)
(* is shown.                                                               *)
WillShow ==
    \/ LastIs(inbox, mounted) /\ inbox[Len(inbox)].what = "activate"
    \/ inbox = << >> /\ LastIs(pending, mounted)
    \/ inbox = << >> /\ pending = << >> /\ bridges = 1 /\ attached = {<<1, mounted>>}

(* The inductive invariant of PanelBridge.                                 *)
PanelInv == PanelTypes /\ (Undisturbed => InOneBridge /\ (mounted # "none" => WillShow))

(* It holds at the beginning.                                              *)
LEMMA PanelInvInit == PanelInit => PanelInv
BY PanelAssumption DEF PanelInit, PanelInv, PanelTypes, InOneBridge, PanelOrNone

(* What is appended is the last,                                           *)
LEMMA LastAppended ==
    ASSUME NEW S, NEW s \in Seq(S), NEW x \in S
    PROVE  /\ Append(s, x) \in Seq(S) /\ s \o <<x>> \in Seq(S)
           /\ Append(s, x) # << >> /\ s \o <<x>> # << >>
           /\ Append(s, x)[Len(Append(s, x))] = x /\ (s \o <<x>>)[Len(s \o <<x>>)] = x
           /\ DOMAIN Append(s, x) = 1..Len(s) + 1 /\ DOMAIN s = 1..Len(s) /\ Len(s) \in Nat
           /\ \A i \in DOMAIN Append(s, x) : Append(s, x)[i] = IF i = Len(s) + 1 THEN x ELSE s[i]
<1>1. Len(Append(s, x)) = Len(s) + 1 /\ Len(s \o <<x>>) = Len(s) + 1
  OBVIOUS
<1> QED
  BY <1>1

(* and stays it while the first is taken.                                  *)
LEMMA LastStays ==
    ASSUME NEW S, NEW s \in Seq(S), s # << >>
    PROVE  /\ Tail(s) \in Seq(S) /\ Head(s) \in S /\ Head(s) = s[1]
           /\ DOMAIN Tail(s) = 1..Len(s) - 1 /\ DOMAIN s = 1..Len(s)
           /\ \A i \in DOMAIN Tail(s) : Tail(s)[i] = s[i + 1] /\ i + 1 \in DOMAIN s
           /\ \/ Tail(s) = << >> /\ Len(s) = 1
              \/ Tail(s) # << >> /\ Tail(s)[Len(Tail(s))] = s[Len(s)]
<1>1. Len(Tail(s)) = Len(s) - 1 /\ Len(s) \in Nat /\ Len(s) >= 1
  OBVIOUS
<1>2. /\ Tail(s) \in Seq(S) /\ Head(s) \in S /\ Head(s) = s[1]
      /\ DOMAIN Tail(s) = 1..Len(s) - 1 /\ DOMAIN s = 1..Len(s)
      /\ \A i \in 1..Len(s) - 1 : Tail(s)[i] = s[i + 1] /\ i + 1 \in 1..Len(s)
  BY <1>1
<1>3. CASE Len(s) = 1
  <2>1. Len(Tail(s)) = 0 /\ Tail(s) \in Seq(S)
    BY <1>1, <1>2, <1>3
  <2>2. Tail(s) = << >>
    BY <2>1, EmptySeq
  <2> QED
    BY <1>2, <1>3, <2>2
<1>4. CASE Len(s) # 1
  <2>1. Len(s) - 1 \in 1..Len(s) - 1 /\ (Len(s) - 1) + 1 = Len(s) /\ Len(Tail(s)) = Len(s) - 1
    BY <1>1, <1>4
  <2>2. Tail(s)[Len(Tail(s))] = s[Len(s)]
    BY <1>2, <2>1
  <2>3. Tail(s) # << >>
    <3>1. Len(Tail(s)) # 0 /\ Len(<< >>) = 0
      BY <1>1, <1>4, <2>1
    <3> QED
      BY <3>1
  <2> QED
    BY <1>2, <2>2, <2>3
<1> QED
  BY <1>3, <1>4

(* A switch asks last for what it mounts;                                  *)
LEMMA SwitchKeeps ==
    ASSUME PanelInv, NEW p \in PanelOrNone, SwitchTab(p)
    PROVE  PanelInv'
<1>1. /\ mounted' = p
      /\ UNCHANGED <<pending, bridges, depsBridge, activeView, attached, upset>>
  BY DEF SwitchTab
<1>2. PICK l : l = IF mounted = "none" THEN << >> ELSE <<Call("deactivate", mounted)>>
  OBVIOUS
<1>3. l \in Seq(PanelCalls)
  <2>1. CASE mounted = "none"
    BY <1>2, <2>1
  <2>2. CASE mounted # "none"
    <3>1. Call("deactivate", mounted) \in PanelCalls
      BY <2>2 DEF Call, PanelCalls, PanelIds, PanelInv, PanelTypes, PanelOrNone
    <3> QED
      BY <1>2, <2>2, <3>1
  <2> QED
    BY <2>1, <2>2
<1>4. PICK t \in Seq(PanelCalls) : t = inbox \o l
  <2>1. inbox \in Seq(PanelCalls)
    BY DEF PanelInv, PanelTypes
  <2>2. inbox \o l \in Seq(PanelCalls)
    BY <1>3, <2>1
  <2> QED
    BY <2>2
<1>5. CASE p = "none"
  <2>1. inbox' = t
    BY <1>2, <1>4, <1>5 DEF SwitchTab
  <2> QED
    BY <1>1, <1>5, <2>1 DEF PanelInv, PanelTypes, Undisturbed, InOneBridge
<1>6. CASE p # "none"
  <2>1. PICK x \in PanelCalls : x = Call("activate", p)
    BY <1>6 DEF Call, PanelCalls, PanelIds, PanelOrNone
  <2>2. inbox' = t \o <<x>>
    BY <1>2, <1>4, <1>6, <2>1 DEF SwitchTab
  <2>3. inbox' \in Seq(PanelCalls) /\ inbox' # << >> /\ inbox'[Len(inbox')] = x
    BY <2>2, LastAppended
  <2>4. WillShow'
    BY <1>1, <2>1, <2>3 DEF WillShow, LastIs, Call
  <2> QED
    BY <1>1, <2>3, <2>4 DEF PanelInv, PanelTypes, Undisturbed, InOneBridge
<1> QED
  BY <1>5, <1>6

(* a handler that begins keeps the order,                                  *)
LEMMA HandleKeeps ==
    ASSUME PanelInv, Handle
    PROVE  PanelInv'
<1>1. /\ inbox # << >> /\ inbox' = Tail(inbox) /\ inbox \in Seq(PanelCalls)
      /\ UNCHANGED <<mounted, bridges, depsBridge, upset>>
  BY DEF Handle, PanelInv, PanelTypes
<1>2. PICK call \in PanelCalls : call = Head(inbox) /\ call = inbox[1]
  BY <1>1, LastStays
<1>3. /\ inbox' \in Seq(PanelCalls)
      /\ \/ inbox' = << >> /\ Len(inbox) = 1
         \/ inbox' # << >> /\ inbox'[Len(inbox')] = inbox[Len(inbox)]
  BY <1>1, LastStays
<1>4. call.what \in {"activate", "deactivate"} /\ call.panel \in PanelIds
  BY DEF PanelCalls
<1>5. /\ LastIs(inbox, mounted) =>
            (inbox' = << >> /\ call.panel = mounted) \/ LastIs(inbox', mounted)
      /\ inbox' # << >> => inbox'[Len(inbox')].what = inbox[Len(inbox)].what
      /\ inbox' = << >> => call = inbox[Len(inbox)]
  BY <1>2, <1>3 DEF LastIs
<1>6. CASE call.what = "deactivate"
  <2>1. Hidden(depsBridge, {call.panel}) /\ pending' = pending
    BY <1>2, <1>6 DEF Handle
  <2>2. PICK b : b = depsBridge
    OBVIOUS
  <2>3. /\ attached' = attached \/ attached' = attached \ {<<b, activeView[b]>>}
        /\ activeView' = activeView \/ activeView' = [activeView EXCEPT ![b] = "none"]
        /\ activeView' # activeView => attached' = attached \ {<<b, activeView[b]>>}
    BY <2>1, <2>2 DEF Hidden
  <2>4. activeView' \in [Bridges -> PanelOrNone]
    BY <2>3 DEF PanelInv, PanelTypes, PanelOrNone
  <2>5. PanelTypes'
    BY <1>1, <1>3, <2>1, <2>4 DEF PanelInv, PanelTypes
  <2>6. ASSUME Undisturbed' PROVE InOneBridge'
    <3>1. Undisturbed /\ InOneBridge
      BY <1>1, <2>6 DEF Undisturbed, PanelInv
    <3>2. bridges = 1 => attached' \subseteq {<<1, activeView'[1]>>}
      <4>1. bridges = 1 => b = 1 /\ attached \subseteq {<<1, activeView[1]>>}
        BY <2>2, <3>1 DEF InOneBridge
      <4> QED
        BY <2>3, <4>1
    <3> QED
      BY <1>1, <2>1, <2>3, <3>1, <3>2 DEF InOneBridge
  <2>7. ASSUME Undisturbed', mounted' # "none" PROVE WillShow'
    <3>1. LastIs(inbox, mounted) /\ inbox[Len(inbox)].what = "activate"
      BY <1>1, <2>7 DEF Undisturbed, PanelInv, WillShow
    <3>2. LastIs(inbox', mounted) /\ inbox'[Len(inbox')].what = "activate"
      BY <1>5, <1>6, <3>1 DEF LastIs
    <3> QED
      BY <1>1, <3>2 DEF WillShow
  <2> QED
    BY <2>5, <2>6, <2>7 DEF PanelInv
<1>7. CASE call.what = "activate"
  <2>1. /\ pending' = Append(pending, [panel |-> call.panel, bridge |-> depsBridge])
        /\ UNCHANGED <<attached, activeView>>
    BY <1>2, <1>7 DEF Handle
  <2>2. PICK x \in Activations : x = [panel |-> call.panel, bridge |-> depsBridge]
    BY <1>4 DEF Activations, PanelInv, PanelTypes
  <2>3. pending \in Seq(Activations) /\ pending' = Append(pending, x)
    BY <2>1, <2>2 DEF PanelInv, PanelTypes
  <2>4. /\ pending' \in Seq(Activations) /\ pending' # << >> /\ pending'[Len(pending')] = x
        /\ DOMAIN pending' = 1..Len(pending) + 1 /\ DOMAIN pending = 1..Len(pending)
        /\ \A i \in DOMAIN pending' : pending'[i] = IF i = Len(pending) + 1 THEN x ELSE pending[i]
        /\ Len(pending) \in Nat
    BY <2>3, LastAppended
  <2>5. PanelTypes'
    BY <1>1, <1>3, <2>1, <2>4 DEF PanelInv, PanelTypes
  <2>6. ASSUME Undisturbed' PROVE InOneBridge'
    <3>1. Undisturbed /\ InOneBridge
      BY <1>1, <2>6 DEF Undisturbed, PanelInv
    <3>2. x.bridge = bridges
      BY <2>2, <3>1 DEF InOneBridge
    <3>3. \A i \in DOMAIN pending' : pending'[i].bridge = bridges
      BY <2>4, <3>1, <3>2 DEF InOneBridge
    <3> QED
      BY <1>1, <2>1, <3>1, <3>3 DEF InOneBridge
  <2>7. ASSUME Undisturbed', mounted' # "none" PROVE WillShow'
    <3>1. LastIs(inbox, mounted) /\ inbox[Len(inbox)].what = "activate"
      BY <1>1, <2>7 DEF Undisturbed, PanelInv, WillShow
    <3>2. CASE inbox' # << >>
      BY <1>1, <1>5, <3>1, <3>2 DEF WillShow, LastIs
    <3>3. CASE inbox' = << >>
      BY <1>1, <1>5, <2>2, <2>4, <3>1, <3>3 DEF WillShow, LastIs
    <3> QED
      BY <3>2, <3>3
  <2> QED
    BY <2>5, <2>6, <2>7 DEF PanelInv
<1> QED
  BY <1>4, <1>6, <1>7

(* the client that comes does,                                             *)
LEMMA PublishedKeeps ==
    ASSUME PanelInv, ClientPublished
    PROVE  PanelInv'
<1>1. /\ depsBridge = 0 /\ bridges < MaxBridges /\ bridges' = bridges + 1
      /\ depsBridge' = bridges + 1
      /\ pending' = [i \in DOMAIN pending |-> [pending[i] EXCEPT !.bridge = bridges']]
      /\ UNCHANGED <<mounted, inbox, activeView, attached, upset>>
  BY DEF ClientPublished
<1>2. bridges \in Nat /\ bridges' \in 0..MaxBridges /\ depsBridge' \in Nat
  BY <1>1, PanelAssumption DEF PanelInv, PanelTypes
<1>3. PICK b \in Nat : b = bridges'
  BY <1>1, <1>2
<1>4. pending \in Seq(Activations) /\ DOMAIN pending = 1..Len(pending) /\ Len(pending) \in Nat
  BY DEF PanelInv, PanelTypes
<1>5. \A i \in 1..Len(pending) :
          /\ pending'[i] = [pending[i] EXCEPT !.bridge = b] /\ pending[i] \in Activations
          /\ pending'[i] \in Activations /\ pending'[i].bridge = b
          /\ pending'[i].panel = pending[i].panel
  <2>1. ASSUME NEW i \in 1..Len(pending)
        PROVE  /\ pending'[i] = [pending[i] EXCEPT !.bridge = b] /\ pending[i] \in Activations
               /\ pending'[i] \in Activations /\ pending'[i].bridge = b
               /\ pending'[i].panel = pending[i].panel
    <3>1. pending'[i] = [pending[i] EXCEPT !.bridge = b] /\ pending[i] \in Activations
      BY <1>1, <1>3, <1>4
    <3> QED
      BY <3>1 DEF Activations
  <2> QED
    BY <2>1
<1>6. /\ DOMAIN pending' = 1..Len(pending) /\ pending' \in Seq(Activations)
      /\ Len(pending') = Len(pending)
  <2>1. pending' = [i \in 1..Len(pending) |-> pending'[i]]
    BY <1>1, <1>4
  <2>2. pending' \in [1..Len(pending) -> Activations]
    BY <1>5, <2>1
  <2> QED
    BY <1>4, <2>2
<1>7. PanelTypes'
  BY <1>1, <1>2, <1>6 DEF PanelInv, PanelTypes
<1>8. ASSUME Undisturbed' PROVE InOneBridge' /\ (mounted' # "none" => WillShow')
  <2>1. bridges = 0 /\ Undisturbed /\ InOneBridge
    BY <1>1, <1>2, <1>8 DEF Undisturbed, PanelInv
  <2>2. InOneBridge'
    BY <1>1, <1>3, <1>5, <1>6, <2>1 DEF InOneBridge
  <2>3. ASSUME mounted # "none" PROVE WillShow'
    <3>1. CASE LastIs(inbox, mounted) /\ inbox[Len(inbox)].what = "activate"
      BY <1>1, <3>1 DEF WillShow
    <3>2. CASE inbox = << >> /\ LastIs(pending, mounted)
      <4>1. Len(pending) \in 1..Len(pending) /\ pending' # << >>
        BY <1>4, <1>6, <3>2 DEF LastIs
      <4>2. LastIs(pending', mounted)
        BY <1>5, <1>6, <3>2, <4>1 DEF LastIs
      <4> QED
        BY <1>1, <3>2, <4>2 DEF WillShow
    <3> QED
      BY <2>1, <2>3, <3>1, <3>2 DEF PanelInv, WillShow
  <2> QED
    BY <1>1, <2>2, <2>3
<1> QED
  BY <1>7, <1>8 DEF PanelInv

(* and the last activation shows its panel.                                *)
LEMMA ResolvedKeeps ==
    ASSUME PanelInv, Resolved
    PROVE  PanelInv'
<1>1. /\ depsBridge # 0 /\ pending # << >> /\ pending' = Tail(pending)
      /\ pending \in Seq(Activations)
      /\ UNCHANGED <<mounted, inbox, bridges, depsBridge, upset>>
  BY DEF Resolved, PanelInv, PanelTypes
<1>2. /\ pending' \in Seq(Activations) /\ Head(pending) \in Activations
      /\ Head(pending) = pending[1]
      /\ 1 \in DOMAIN pending
      /\ \A i \in DOMAIN pending' : pending'[i] = pending[i + 1] /\ i + 1 \in DOMAIN pending
      /\ \/ pending' = << >> /\ Len(pending) = 1
         \/ pending' # << >> /\ pending'[Len(pending')] = pending[Len(pending)]
  BY <1>1, LastStays
<1>3. PICK b, p : b = Head(pending).bridge /\ p = Head(pending).panel
  OBVIOUS
<1>4. /\ attached' = (attached \ {<<b, activeView[b]>>}) \cup {<<b, p>>}
      /\ activeView' = [activeView EXCEPT ![b] = p] /\ p \in PanelIds
  BY <1>2, <1>3 DEF Resolved, Activations
<1>5. activeView' \in [Bridges -> PanelOrNone]
  BY <1>4 DEF PanelInv, PanelTypes, PanelOrNone, PanelIds
<1>6. PanelTypes'
  BY <1>1, <1>2, <1>5 DEF PanelInv, PanelTypes
<1>7. ASSUME Undisturbed' PROVE InOneBridge' /\ (mounted' # "none" => WillShow')
  <2>1. Undisturbed /\ InOneBridge /\ bridges = 1 /\ b = 1
    <3>1. Undisturbed /\ InOneBridge
      BY <1>1, <1>7 DEF Undisturbed, PanelInv
    <3>2. bridges = 1
      BY <1>1, <3>1 DEF Undisturbed, InOneBridge, PanelInv, PanelTypes
    <3> QED
      BY <1>2, <1>3, <3>1, <3>2 DEF InOneBridge
  <2>2. 1 \in Bridges
    BY <2>1, PanelAssumption DEF Bridges, PanelInv, PanelTypes
  <2>3. attached' = {<<1, p>>} /\ activeView'[1] = p
    BY <1>4, <2>1, <2>2 DEF InOneBridge, PanelInv, PanelTypes
  <2>4. InOneBridge'
    BY <1>1, <1>2, <2>1, <2>3 DEF InOneBridge
  <2>5. ASSUME mounted # "none" PROVE WillShow'
    <3>1. CASE LastIs(inbox, mounted) /\ inbox[Len(inbox)].what = "activate"
      BY <1>1, <3>1 DEF WillShow
    <3>2. CASE inbox = << >> /\ LastIs(pending, mounted)
      <4>1. CASE pending' = << >>
        BY <1>1, <1>2, <1>3, <2>1, <2>3, <3>2, <4>1 DEF WillShow, LastIs
      <4>2. CASE pending' # << >>
        BY <1>1, <1>2, <3>2, <4>2 DEF WillShow, LastIs
      <4> QED
        BY <4>1, <4>2
    <3> QED
      BY <1>1, <2>1, <2>5, <3>1, <3>2 DEF PanelInv, WillShow
  <2> QED
    BY <1>1, <2>4, <2>5
<1> QED
  BY <1>6, <1>7 DEF PanelInv

(* Every step keeps the invariant.                                         *)
LEMMA PanelInvNext == PanelInv /\ [PanelNext]_panelVars => PanelInv'
<1> SUFFICES ASSUME PanelInv, [PanelNext]_panelVars PROVE PanelInv'
  OBVIOUS
<1>1. CASE ClientCleared \/ AwaitEnds \/ NotFound
  <2>1. /\ upset' = TRUE /\ UNCHANGED <<mounted, inbox, bridges, activeView>>
        /\ depsBridge' \in {0, depsBridge}
        /\ pending' = << >> \/ (pending # << >> /\ pending' = Tail(pending))
    BY <1>1 DEF ClientCleared, AwaitEnds, NotFound
  <2>2. pending' \in Seq(Activations)
    <3>1. pending \in Seq(Activations)
      BY DEF PanelInv, PanelTypes
    <3>2. pending # << >> => Tail(pending) \in Seq(Activations)
      BY <3>1, LastStays
    <3>3. << >> \in Seq(Activations)
      BY EmptySeq
    <3> QED
      BY <2>1, <3>2, <3>3, Zenon
  <2> QED
    BY <2>1, <2>2 DEF PanelInv, PanelTypes, Undisturbed
<1>2. CASE UNCHANGED panelVars
  BY <1>2 DEF panelVars, PanelInv, PanelTypes, Undisturbed, InOneBridge, WillShow, LastIs
<1> QED
  BY <1>1, <1>2, SwitchKeeps, HandleKeeps, PublishedKeeps, ResolvedKeeps DEF PanelNext

(* Once every request is answered the mounted panel is shown, and no       *)
(* other.                                                                  *)
LEMMA MountedShows == PanelSpec => []MountedIsShown
<1>1. PanelInv => MountedIsShown
  <2> SUFFICES ASSUME PanelInv, AllAnswered, bridges = 1, ~upset, mounted # "none"
               PROVE  attached = {<<1, mounted>>}
    BY DEF MountedIsShown
  <2>1. inbox = << >> /\ pending = << >>
    BY DEF AllAnswered
  <2> QED
    BY <2>1 DEF PanelInv, Undisturbed, WillShow, LastIs
<1> QED
  BY PanelInvInit, PanelInvNext, <1>1, PTL DEF PanelSpec

-----------------------------------------------------------------------------
(* Where a call can be.                                                    *)
Doings == {"idle", "binding", "bound", "calling", "tool", "done"}

(* The variables that matter, typed.                                       *)
HostTypes ==
    /\ opened \in Nat /\ depsHeld \in 0..opened /\ attachedOnce \in BOOLEAN
    /\ alive \subseteq 1..opened
    /\ doing \in [Calls -> Doings] /\ via \in [Calls -> 0..opened]
    /\ told = [c \in Calls |-> told[c]]

(* The connection held is one whose daemon lives.                          *)
HeldLives == depsHeld # 0 => depsHeld \in alive

(* Without one nothing is believed bound.                                  *)
NoneHeld == depsHeld = 0 => alive = {} /\ bound = {} /\ ~attachedOnce

(* Who has attached the listener hears of the loss of what is held.        *)
HearsLoss == attachedOnce => depsHeld \in listening

(* What is believed bound is, and its loss will be heard of.               *)
BoundThere == \A m \in bound : <<depsHeld, m>> \in bindings /\ attachedOnce

(* A call that is under way holds the connection held, or one that is      *)
(* gone.                                                                   *)
CallInv(c) ==
    /\ doing[c] \in {"binding", "calling"} => via[c] \in alive
    /\ via[c] \in alive => via[c] = depsHeld
    /\ (doing[c] \in {"binding", "bound", "calling"} /\ via[c] \in alive) => attachedOnce
    /\ (doing[c] \in {"bound", "calling"} /\ via[c] \in alive)
          => <<via[c], owner[c]>> \in bindings
    /\ told[c] # "unbound"

(* The inductive invariant of HostCalls.                                   *)
BindInv ==
    HostTypes /\ HeldLives /\ NoneHeld /\ HearsLoss /\ BoundThere /\ \A c \in Calls : CallInv(c)

(* It holds at the beginning.                                              *)
LEMMA BindInvInit == HostInit => BindInv
<1> SUFFICES ASSUME HostInit PROVE BindInv
  OBVIOUS
<1>1. /\ opened = 0 /\ alive = {} /\ depsHeld = 0 /\ bound = {} /\ attachedOnce = FALSE
      /\ doing = [c \in Calls |-> "idle"] /\ told = [c \in Calls |-> "none"]
      /\ via = [c \in Calls |-> 0]
  BY DEF HostInit
<1>2. HostTypes
  <2>1. told = [c \in Calls |-> told[c]]
    BY <1>1
  <2>2. doing \in [Calls -> Doings] /\ via \in [Calls -> 0..opened] /\ depsHeld \in 0..opened
    BY <1>1 DEF Doings
  <2> QED
    BY <1>1, <2>1, <2>2 DEF HostTypes
<1>3. \A c \in Calls : CallInv(c)
  BY <1>1 DEF CallInv
<1> QED
  BY <1>1, <1>2, <1>3 DEF BindInv, HeldLives, NoneHeld, HearsLoss, BoundThere

(* A step of one call leaves the others where they are.                    *)
LEMMA OneCall ==
    ASSUME BindInv, NEW c \in Calls, UNCHANGED <<opened, alive, depsHeld, owner>>,
           doing' \in [Calls -> Doings], via' \in [Calls -> 0..opened],
           told' = [e \in Calls |-> told'[e]],
           \A e \in Calls \ {c} :
               doing'[e] = doing[e] /\ via'[e] = via[e] /\ told'[e] = told[e],
           attachedOnce' \in BOOLEAN, attachedOnce => attachedOnce',
           bindings \subseteq bindings', depsHeld = 0 => bound' = bound /\ ~attachedOnce',
           HearsLoss', BoundThere', CallInv(c)'
    PROVE  BindInv'
<1>1. HostTypes' /\ HeldLives' /\ NoneHeld'
  BY DEF BindInv, HostTypes, HeldLives, NoneHeld
<1>2. ASSUME NEW e \in Calls PROVE CallInv(e)'
  <2>1. CASE e = c
    BY <2>1
  <2>2. CASE e # c
    <3>1. CallInv(e) /\ doing'[e] = doing[e] /\ via'[e] = via[e] /\ told'[e] = told[e]
      BY <2>2 DEF BindInv
    <3> QED
      BY <3>1 DEF CallInv
  <2> QED
    BY <2>1, <2>2
<1> QED
  BY <1>1, <1>2 DEF BindInv

(* A connection more keeps it,                                             *)
LEMMA PublishBinds ==
    ASSUME BindInv, Publish
    PROVE  BindInv'
<1>1. /\ opened' = opened + 1 /\ alive' = alive \cup {opened'}
      /\ depsHeld' = IF depsHeld = 0 THEN opened' ELSE depsHeld
      /\ UNCHANGED <<bound, listening, attachedOnce, bindings, doing, owner, via, told>>
  BY DEF Publish, hostCallVars
<1>2. opened \in Nat /\ alive \subseteq 1..opened /\ depsHeld \in 0..opened
  BY DEF BindInv, HostTypes
<1>3. HostTypes'
  <2>1. opened' \in Nat /\ depsHeld' \in 0..opened' /\ alive' \subseteq 1..opened'
    BY <1>1, <1>2
  <2>2. 0..opened \subseteq 0..opened'
    BY <1>1, <1>2
  <2> QED
    BY <1>1, <2>1, <2>2 DEF BindInv, HostTypes
<1>4. HeldLives' /\ NoneHeld'
  BY <1>1, <1>2 DEF BindInv, HeldLives, NoneHeld
<1>5. HearsLoss' /\ BoundThere'
  BY <1>1 DEF BindInv, HearsLoss, BoundThere, NoneHeld
<1>6. ASSUME NEW c \in Calls PROVE CallInv(c)'
  <2>1. via[c] \in 0..opened
    BY DEF BindInv, HostTypes
  <2>2. via[c] \in alive' => via[c] \in alive /\ depsHeld' = depsHeld
    BY <1>1, <1>2, <2>1 DEF BindInv, NoneHeld
  <2>3. CallInv(c)
    BY DEF BindInv
  <2> QED
    BY <1>1, <2>2, <2>3 DEF CallInv
<1> QED
  BY <1>3, <1>4, <1>5, <1>6 DEF BindInv

(* so does the end of the daemon, which clears what was bound;             *)
LEMMA DiesBinds ==
    ASSUME BindInv, HostDaemonDies
    PROVE  BindInv'
<1>1. /\ alive # {} /\ alive' = {} /\ depsHeld' = 0
      /\ UNCHANGED <<opened, owner, via>>
      /\ doing' = Rejected
      /\ told' = [c \in Calls |-> IF Rejected[c] # doing[c] THEN "rejected" ELSE told[c]]
      /\ IF listening \cap alive # {}
         THEN bound' = {} /\ attachedOnce' = FALSE
         ELSE UNCHANGED <<bound, attachedOnce>>
  BY DEF HostDaemonDies
<1>2. doing' \in [Calls -> Doings] /\ \A c \in Calls : doing'[c] \notin {"binding", "calling"}
  BY <1>1 DEF Rejected, Doings, BindInv, HostTypes
<1>3. HostTypes'
  <2>1. attachedOnce' \in BOOLEAN
    BY <1>1 DEF BindInv, HostTypes
  <2> QED
    BY <1>1, <1>2, <2>1 DEF BindInv, HostTypes
<1>4. ~attachedOnce' /\ bound' = {}
  <2>1. CASE attachedOnce
    <3>1. depsHeld \in listening /\ depsHeld \in alive
      BY <2>1 DEF BindInv, HearsLoss, HeldLives, NoneHeld
    <3> QED
      BY <1>1, <3>1
  <2>2. CASE ~attachedOnce
    BY <1>1, <2>2 DEF BindInv, BoundThere
  <2> QED
    BY <2>1, <2>2
<1>5. ASSUME NEW c \in Calls PROVE CallInv(c)'
  <2>1. told'[c] # "unbound"
    BY <1>1 DEF BindInv, CallInv
  <2> QED
    BY <1>1, <1>2, <2>1 DEF CallInv
<1> QED
  BY <1>1, <1>3, <1>4, <1>5 DEF BindInv, HeldLives, NoneHeld, HearsLoss, BoundThere

(* so does a call that begins,                                             *)
LEMMA BeginBinds ==
    ASSUME BindInv, NEW c \in Calls, HostCallBegins(c)
    PROVE  BindInv'
<1>1. /\ depsHeld # 0 /\ via' = [via EXCEPT ![c] = depsHeld] /\ attachedOnce' = TRUE
      /\ listening' = IF attachedOnce THEN listening ELSE listening \cup {depsHeld}
      /\ doing' = [doing EXCEPT ![c] = IF owner[c] \in bound THEN "calling" ELSE "binding"]
      /\ UNCHANGED <<depsHeld, bound, opened, alive, bindings, owner, told>>
  BY DEF HostCallBegins, hostDaemonVars
<1>2. /\ doing' \in [Calls -> Doings] /\ via' \in [Calls -> 0..opened]
      /\ told' = [e \in Calls |-> told'[e]]
  BY <1>1 DEF BindInv, HostTypes, Doings
<1>3. HearsLoss' /\ BoundThere'
  BY <1>1 DEF BindInv, HearsLoss, BoundThere
<1>4. CallInv(c)'
  <2>1. /\ via'[c] = depsHeld /\ depsHeld \in alive
        /\ doing'[c] = IF owner[c] \in bound THEN "calling" ELSE "binding"
    BY <1>1 DEF BindInv, HostTypes, HeldLives
  <2>2. owner[c] \in bound => <<depsHeld, owner[c]>> \in bindings
    BY DEF BindInv, BoundThere
  <2>3. told[c] # "unbound"
    BY DEF BindInv, CallInv
  <2> QED
    BY <1>1, <2>1, <2>2, <2>3 DEF CallInv
<1>5. \A e \in Calls \ {c} : doing'[e] = doing[e] /\ via'[e] = via[e] /\ told'[e] = told[e]
  BY <1>1 DEF BindInv, HostTypes
<1> QED
  BY <1>1, <1>2, <1>3, <1>4, <1>5, OneCall

(* that is bound,                                                          *)
LEMMA BindBinds ==
    ASSUME BindInv, NEW c \in Calls, bindSenderAction(c)
    PROVE  BindInv'
<1>1. /\ doing[c] = "binding" /\ bindings' = bindings \cup {<<via[c], owner[c]>>}
      /\ doing' = [doing EXCEPT ![c] = "bound"]
      /\ UNCHANGED <<opened, alive, depsHeld, bound, listening, attachedOnce, owner, via, told>>
  BY DEF bindSenderAction, hostElectronVars
<1>2. /\ doing' \in [Calls -> Doings] /\ via' \in [Calls -> 0..opened]
      /\ told' = [e \in Calls |-> told'[e]] /\ attachedOnce' \in BOOLEAN
  BY <1>1 DEF BindInv, HostTypes, Doings
<1>3. HearsLoss' /\ BoundThere'
  BY <1>1 DEF BindInv, HearsLoss, BoundThere
<1>4. CallInv(c)'
  <2>1. CallInv(c) /\ doing'[c] = "bound"
    BY <1>1 DEF BindInv, HostTypes
  <2> QED
    BY <1>1, <2>1 DEF CallInv
<1>5. \A e \in Calls \ {c} : doing'[e] = doing[e] /\ via'[e] = via[e] /\ told'[e] = told[e]
  BY <1>1 DEF BindInv, HostTypes
<1>6. depsHeld = 0 => ~attachedOnce'
  BY <1>1 DEF BindInv, NoneHeld
<1> QED
  BY <1>1, <1>2, <1>3, <1>4, <1>5, <1>6, OneCall

(* that is answered,                                                       *)
LEMMA AnswerBinds ==
    ASSUME BindInv, NEW c \in Calls, NEW a, a # "unbound", HostAnswers(c, a),
           UNCHANGED <<opened, alive, depsHeld, bound, listening, attachedOnce, bindings, owner,
                       via>>
    PROVE  BindInv'
<1>1. doing' = [doing EXCEPT ![c] = "done"] /\ told' = [told EXCEPT ![c] = a]
  BY DEF HostAnswers
<1>2. /\ doing' \in [Calls -> Doings] /\ via' \in [Calls -> 0..opened]
      /\ told' = [e \in Calls |-> told'[e]] /\ attachedOnce' \in BOOLEAN
  BY <1>1 DEF BindInv, HostTypes, Doings
<1>3. HearsLoss' /\ BoundThere'
  BY DEF BindInv, HearsLoss, BoundThere
<1>4. CallInv(c)'
  <2>1. CallInv(c) /\ doing'[c] = "done" /\ told'[c] = a
    BY <1>1 DEF BindInv, HostTypes
  <2> QED
    BY <2>1 DEF CallInv
<1>5. \A e \in Calls \ {c} : doing'[e] = doing[e] /\ via'[e] = via[e] /\ told'[e] = told[e]
  BY <1>1 DEF BindInv, HostTypes
<1>6. depsHeld = 0 => ~attachedOnce'
  BY DEF BindInv, NoneHeld
<1> QED
  BY <1>2, <1>3, <1>4, <1>5, <1>6, OneCall

(* that notes it was bound,                                                *)
LEMMA EnsureBinds ==
    ASSUME BindInv, NEW c \in Calls, ensureBound(c)
    PROVE  BindInv'
<1>1. /\ doing[c] = "bound"
      /\ UNCHANGED <<depsHeld, listening, attachedOnce, opened, alive, bindings, owner, via>>
  BY DEF ensureBound, hostDaemonVars
<1>2. CASE via[c] \notin alive
  BY <1>1, <1>2, AnswerBinds DEF ensureBound
<1>3. CASE via[c] \in alive
  <2>1. /\ bound' = bound \cup {owner[c]} /\ doing' = [doing EXCEPT ![c] = "calling"]
        /\ told' = told
    BY <1>3 DEF ensureBound
  <2>2. /\ doing' \in [Calls -> Doings] /\ via' \in [Calls -> 0..opened]
        /\ told' = [e \in Calls |-> told'[e]] /\ attachedOnce' \in BOOLEAN
    BY <1>1, <2>1 DEF BindInv, HostTypes, Doings
  <2>3. CallInv(c) /\ via[c] = depsHeld /\ <<depsHeld, owner[c]>> \in bindings /\ attachedOnce
    BY <1>1, <1>3 DEF BindInv, CallInv
  <2>4. HearsLoss' /\ BoundThere'
    BY <1>1, <2>1, <2>3 DEF BindInv, HearsLoss, BoundThere
  <2>5. CallInv(c)'
    <3>1. doing'[c] = "calling"
      BY <2>1 DEF BindInv, HostTypes
    <3> QED
      BY <1>1, <1>3, <2>1, <2>3, <3>1 DEF CallInv
  <2>6. \A e \in Calls \ {c} : doing'[e] = doing[e] /\ via'[e] = via[e] /\ told'[e] = told[e]
    BY <1>1, <2>1 DEF BindInv, HostTypes
  <2>7. depsHeld # 0
    BY <2>3 DEF BindInv, NoneHeld
  <2> QED
    BY <1>1, <2>2, <2>4, <2>5, <2>6, <2>7, OneCall
<1> QED
  BY <1>2, <1>3

(* and one of a tool.                                                      *)
LEMMA ToolBinds ==
    ASSUME BindInv, NEW c \in Calls, callModuleTool(c)
    PROVE  BindInv'
<1>1. /\ depsHeld # 0 /\ via' = [via EXCEPT ![c] = depsHeld]
      /\ doing' = [doing EXCEPT ![c] = "tool"]
      /\ UNCHANGED <<opened, alive, depsHeld, bound, listening, attachedOnce, bindings, owner,
                     told>>
  BY DEF callModuleTool, hostElectronVars, hostDaemonVars
<1>2. /\ doing' \in [Calls -> Doings] /\ via' \in [Calls -> 0..opened]
      /\ told' = [e \in Calls |-> told'[e]] /\ attachedOnce' \in BOOLEAN
  BY <1>1 DEF BindInv, HostTypes, Doings
<1>3. HearsLoss' /\ BoundThere'
  BY <1>1 DEF BindInv, HearsLoss, BoundThere
<1>4. CallInv(c)'
  <2>1. CallInv(c) /\ doing'[c] = "tool" /\ via'[c] = depsHeld
    BY <1>1 DEF BindInv, HostTypes
  <2> QED
    BY <1>1, <2>1 DEF CallInv
<1>5. \A e \in Calls \ {c} : doing'[e] = doing[e] /\ via'[e] = via[e] /\ told'[e] = told[e]
  BY <1>1 DEF BindInv, HostTypes
<1> QED
  BY <1>1, <1>2, <1>3, <1>4, <1>5, OneCall

(* Every step keeps the invariant.                                         *)
LEMMA BindInvNext == BindInv /\ [HostNext]_hostVars => BindInv'
<1> SUFFICES ASSUME BindInv, [HostNext]_hostVars PROVE BindInv'
  OBVIOUS
<1>1. CASE UNCHANGED hostVars \/ \E m \in Modules : Registry(m)
  <2>1. UNCHANGED <<opened, alive, bindings, depsHeld, bound, listening, attachedOnce, doing,
                    owner, via, told>>
    BY <1>1 DEF Registry, hostVars, hostElectronVars, hostDaemonVars, hostCallVars
  <2> QED
    BY <2>1 DEF BindInv, HostTypes, HeldLives, NoneHeld, HearsLoss, BoundThere, CallInv
<1>2. ASSUME NEW c \in Calls, HostCallAnswered(c) PROVE BindInv'
  <2>1. <<via[c], owner[c]>> \in bindings
    BY <1>2 DEF HostCallAnswered, BindInv, CallInv
  <2>2. hostCall(via[c], owner[c], method[c]) # "unbound"
    BY <2>1 DEF hostCall
  <2> QED
    BY <1>2, <2>2, AnswerBinds DEF HostCallAnswered, hostElectronVars, hostDaemonVars
<1>3. ASSUME NEW c \in Calls, HostToolAnswered(c) PROVE BindInv'
  <2>1. PICK a \in {"called", "threw", "failed", "unregistered"} : HostAnswers(c, a)
    BY <1>3 DEF HostToolAnswered
  <2> QED
    BY <1>3, <2>1, AnswerBinds DEF HostToolAnswered, hostElectronVars, hostDaemonVars
<1>4. ASSUME NEW c \in Calls, SubprocessCalls(c) PROVE BindInv'
  <2>1. PICK a : /\ a = IF createHostApi(owner[c]) = "null" THEN "null"
                        ELSE attachHostRpc(owner[c], method[c])
                 /\ HostAnswers(c, a)
    BY <1>4 DEF SubprocessCalls
  <2>2. a # "unbound"
    BY <2>1 DEF attachHostRpc
  <2> QED
    BY <1>4, <2>1, <2>2, AnswerBinds DEF SubprocessCalls, hostElectronVars, hostDaemonVars
<1> QED
  BY <1>1, <1>2, <1>3, <1>4, PublishBinds, DiesBinds, BeginBinds, BindBinds, EnsureBinds,
     ToolBinds DEF HostNext

(* What is believed bound is bound, and no call is refused for want of it. *)
LEMMA BoundStaysBound == HostSpec => []BoundIsBound
<1>1. BindInv => BoundIsBound
  BY DEF BindInv, BoundThere, CallInv, BoundIsBound
<1> QED
  BY BindInvInit, BindInvNext, <1>1, PTL DEF HostSpec

(* What main believes of a panel is so, for any panels, calls and          *)
(* connections (panel-bridge.ts:196-212,                                   *)
(* modules-panels-register.ts:66-81).                                      *)
THEOREM BeliefsHold == PanelSpec /\ HostSpec => []PanelsAreAsBelieved
BY MountedShows, BoundStaysBound, PTL DEF PanelsAreAsBelieved

-----------------------------------------------------------------------------
(* RendererTabs: the page that is told, and that asks.                     *)

(* What goes over the two channels.                                        *)
Telling ==
         [type : {"created", "removed"}, id : Ports]
    \cup [type : {"line"}, id : Ports, line : Nat]
    \cup [type : {"notice"}]
    \cup [type : {"list"}, ids : Seq(Ports)]
    \cup [type : {"logs"}, id : Ports, lines : Seq(Nat)]
Asking ==
         [type : {"list"}, asker : Nat]
    \cup [type : {"getLogs"}, id : Ports, asker : Nat]
    \cup [type : {"setActive", "remove"}, id : Ports]
    \cup [type : {"create"}]

(* The variables that matter, typed.                                       *)
TabTypes ==
    /\ tabRows \in Seq(Ports) /\ creating \in Seq(Ports) /\ wired \subseteq Ports
    /\ lives \in [Ports -> Nat] /\ lines \in Nat /\ log \in [Ports -> Seq(Nat)]
    /\ toPage \in Seq(Telling) /\ toMain \in Seq(Asking)
    /\ page \in {"loading", "shown"} /\ reloads \in Nat
    /\ shown \in Seq(Ports) /\ logs \in [Ports -> Seq(Nat)]

(* The rows, the tabs and the lists name an instance once,                 *)
Distinct(s) == \A i, j \in DOMAIN s : s[i] = s[j] => i = j
NamedOnce ==
    /\ Distinct(tabRows) /\ Distinct(shown)
    /\ \A i \in DOMAIN toPage : toPage[i].type = "list" => Distinct(toPage[i].ids)

(* lines are told in their order, to a page that listens,                  *)
LinesInOrder ==
    /\ page = "loading" => toPage = <<>>
    /\ \A id \in Ports : \A i \in DOMAIN log[id] :
           /\ log[id][i] <= lines
           /\ \A j \in DOMAIN log[id] : i < j => log[id][i] < log[id][j]
    /\ \A i \in DOMAIN toPage : toPage[i].type = "line" =>
           /\ toPage[i].line <= lines
           /\ \A j \in DOMAIN toPage :
                  i < j /\ toPage[j].type = "line" => toPage[i].line < toPage[j].line

(* and of an instance with another life than its first there is a trace.   *)
Traced ==
    /\ \A id \in ToSet(tabRows) \cup wired : lives[id] >= 1
    /\ \A id \in ToSet(tabRows) \cap wired : lives[id] >= 2
    /\ \A i \in DOMAIN toPage : toPage[i].type = "removed" => toPage[i].id \in wired

(* What a message says of an instance,                                     *)
SaysIn(m, id) == \/ m.type = "created" /\ m.id = id
                 \/ m.type = "list" /\ id \in ToSet(m.ids)
SaysOut(m, id) == \/ m.type = "removed" /\ m.id = id
                  \/ m.type = "list" /\ m.ids # <<>> /\ id \notin ToSet(m.ids)

(* the last word on it decides whether the page will show it,              *)
WillBeShown(id) ==
    \/ id \in ToSet(shown) /\ \A i \in DOMAIN toPage : ~SaysOut(toPage[i], id)
    \/ \E i \in DOMAIN toPage :
          /\ SaysIn(toPage[i], id)
          /\ \A j \in DOMAIN toPage : i < j => ~SaysOut(toPage[j], id)

(* and the page has asked for the list.                                    *)
Listing == \E i \in DOMAIN toMain : toMain[i].type = "list" /\ toMain[i].asker = reloads

(* The page will show the instances there are, at the latest when it has   *)
(* the list it asks for.                                                   *)
TabsFollow ==
    page = "shown" =>
      \A id \in Ports : /\ WillBeShown(id) => id \in ToSet(tabRows)
                        /\ id \in ToSet(tabRows) => WillBeShown(id) \/ Listing

(* A message puts a new log in the place of what the page had,             *)
Resets(m, id) == m.type \in {"created", "logs"} /\ m.id = id
IsLine(m, id) == m.type = "line" /\ m.id = id
NewLog(m) == IF m.type = "created" THEN <<>> ELSE m.lines
(* with what the page's log of the instance begins then,                   *)
Base(id, r) == IF r = 0 THEN logs[id] ELSE NewLog(toPage[r])

(* and from the last such message, or without one, the log of the main     *)
(* process is what the page will have: its beginning, and the lines on     *)
(* their way.                                                              *)
FollowsFrom(id, r) ==
    /\ r \in 0..Len(toPage)
    /\ r # 0 => Resets(toPage[r], id)
    /\ \A i \in DOMAIN toPage : r < i => ~Resets(toPage[i], id)
    /\ Len(Base(id, r)) <= Len(log[id])
    /\ \A j \in 1..Len(Base(id, r)) : Base(id, r)[j] = log[id][j]
    /\ \A i \in DOMAIN toPage : r < i /\ IsLine(toPage[i], id) =>
           \E j \in DOMAIN log[id] : Len(Base(id, r)) < j /\ log[id][j] = toPage[i].line
    /\ \A j \in DOMAIN log[id] : Len(Base(id, r)) < j =>
           \E i \in DOMAIN toPage : r < i /\ IsLine(toPage[i], id) /\ toPage[i].line = log[id][j]
Follows(id) == \E r \in 0..Len(toPage) : FollowsFrom(id, r)

(* The log is asked for, or will be when the list arrives.                 *)
InList(id) == \E i \in DOMAIN toPage : toPage[i].type = "list" /\ id \in ToSet(toPage[i].ids)
LogAsked(id) ==
    \E i \in DOMAIN toMain :
        toMain[i].type = "getLogs" /\ toMain[i].id = id /\ toMain[i].asker = reloads
AskedFor(id) == Listing \/ InList(id) \/ LogAsked(id)

(* Of an instance in its only life the page will have the log, or gets it. *)
LogsFollow ==
    page = "shown" =>
      \A id \in ToSet(tabRows) : lives[id] = 1 => Follows(id) \/ AskedFor(id)

(* The inductive invariant.                                                *)
TabsInv == TabTypes /\ NamedOnce /\ LinesInOrder /\ Traced /\ TabsFollow /\ LogsFollow

-----------------------------------------------------------------------------
(* What Without() returns of a sequence without repetitions.               *)
LEMMA WithoutIs ==
    ASSUME NEW S, NEW s \in Seq(S), Distinct(s), NEW x
    PROVE  /\ Without(s, x) \in Seq(S)
           /\ Distinct(Without(s, x))
           /\ ToSet(Without(s, x)) = ToSet(s) \ {x}
<1>1. CASE x \notin ToSet(s)
  <2>1. Without(s, x) = s
    BY <1>1 DEF Without
  <2> QED
    BY <1>1, <2>1
<1>3. CASE x \in ToSet(s)
  <2> DEFINE k == CHOOSE i \in DOMAIN s : s[i] = x
             u == SubSeq(s, 1, k-1)
             v == SubSeq(s, k+1, Len(s))
             w == u \o v
  <2>1. k \in 1..Len(s) /\ s[k] = x
    <3>1. \E i \in DOMAIN s : s[i] = x
      BY <1>3 DEF ToSet
    <3> QED
      BY <3>1
  <2>2. Without(s, x) = w
    BY <1>3 DEF Without, RemoveAt
  <2> HIDE DEF k
  <2>3. /\ u \in Seq(S) /\ Len(u) = k - 1 /\ \A i \in 1..k-1 : u[i] = s[i]
        /\ v \in Seq(S) /\ Len(v) = Len(s) - k /\ \A i \in 1..Len(s)-k : v[i] = s[k + i]
    BY <2>1
  <2> HIDE DEF u, v
  <2>4. /\ w \in Seq(S) /\ Len(w) = Len(s) - 1
        /\ \A i \in 1..Len(s)-1 : w[i] = IF i < k THEN s[i] ELSE s[i + 1]
    <3>1. /\ w \in Seq(S) /\ Len(w) = Len(u) + Len(v)
          /\ \A i \in 1..Len(u)+Len(v) : w[i] = IF i <= Len(u) THEN u[i] ELSE v[i - Len(u)]
      BY <2>3, ConcatProperties
    <3> HIDE DEF w
    <3>2. ASSUME NEW i \in 1..Len(s)-1 PROVE w[i] = IF i < k THEN s[i] ELSE s[i + 1]
      <4>1. CASE i < k
        <5>1. i \in 1..k-1 /\ i <= Len(u) /\ i \in 1..Len(u)+Len(v)
          BY <2>1, <2>3, <4>1
        <5>2. w[i] = u[i]
          BY <3>1, <5>1
        <5>3. u[i] = s[i]
          BY <2>3, <5>1
        <5> QED
          BY <4>1, <5>2, <5>3
      <4>2. CASE ~(i < k)
        <5>1. /\ i - (k - 1) \in 1..Len(s)-k /\ k + (i - (k - 1)) = i + 1
              /\ ~(i <= Len(u)) /\ i \in 1..Len(u)+Len(v) /\ i - Len(u) = i - (k - 1)
          BY <2>1, <2>3, <4>2
        <5>2. w[i] = v[i - (k - 1)]
          BY <3>1, <5>1
        <5>3. v[i - (k - 1)] = s[i + 1]
          BY <2>3, <5>1
        <5> QED
          BY <4>2, <5>2, <5>3
      <4> QED
        BY <4>1, <4>2
    <3> QED
      BY <2>1, <2>3, <3>1, <3>2
  <2> HIDE DEF w
  <2>5. Distinct(w)
    <3>1. SUFFICES ASSUME NEW i \in DOMAIN w, NEW j \in DOMAIN w, w[i] = w[j] PROVE i = j
      BY DEF Distinct
    <3>2. i \in 1..Len(s)-1 /\ j \in 1..Len(s)-1
      BY <2>4
    <3>3. ASSUME NEW a \in 1..Len(s)-1, NEW b \in 1..Len(s)-1, w[a] = w[b], a < b
          PROVE  FALSE
      <4> DEFINE at(c) == IF c < k THEN c ELSE c + 1
      <4>1. w[a] = s[at(a)] /\ w[b] = s[at(b)]
        BY <2>4, <3>3
      <4>2. at(a) \in DOMAIN s /\ at(b) \in DOMAIN s /\ at(a) < at(b)
        BY <2>1, <3>3
      <4> HIDE DEF at
      <4>3. at(a) = at(b)
        BY <3>3, <4>1, <4>2 DEF Distinct
      <4> QED
        BY <2>1, <3>3, <4>2, <4>3 DEF at
    <3> QED
      BY <3>1, <3>2, <3>3
  <2>6. ToSet(w) = ToSet(s) \ {x}
    <3>1. ASSUME NEW i \in DOMAIN w PROVE w[i] \in ToSet(s) \ {x}
      <4>1. i \in 1..Len(s)-1
        BY <2>4
      <4>2. CASE i < k
        BY <2>1, <2>4, <4>1, <4>2 DEF ToSet, Distinct
      <4>3. CASE ~(i < k)
        BY <2>1, <2>4, <4>1, <4>3 DEF ToSet, Distinct
      <4> QED
        BY <4>2, <4>3
    <3>2. ASSUME NEW i \in DOMAIN s, s[i] # x PROVE \E j \in DOMAIN w : w[j] = s[i]
      <4>1. CASE i < k
        BY <2>1, <2>4, <4>1
      <4>2. CASE i > k
        <5>1. i - 1 \in 1..Len(s)-1 /\ w[i - 1] = s[i]
          BY <2>1, <2>4, <4>2
        <5> QED
          BY <2>4, <5>1
      <4> QED
        BY <2>1, <3>2, <4>1, <4>2
    <3> QED
      BY <3>1, <3>2 DEF ToSet
  <2> QED
    BY <2>2, <2>4, <2>5, <2>6
<1> QED
  BY <1>1, <1>3

(* What is appended: the elements, and that they stay distinct.            *)
LEMMA AppendedIs ==
    ASSUME NEW S, NEW s \in Seq(S), NEW x \in S
    PROVE  /\ Append(s, x) \in Seq(S)
           /\ ToSet(Append(s, x)) = ToSet(s) \cup {x}
           /\ Distinct(s) /\ x \notin ToSet(s) => Distinct(Append(s, x))
<1>1. /\ Append(s, x) \in Seq(S) /\ Len(Append(s, x)) = Len(s) + 1
      /\ \A i \in 1..Len(s) : Append(s, x)[i] = s[i]
      /\ Append(s, x)[Len(s) + 1] = x
  OBVIOUS
<1>2. ToSet(Append(s, x)) = ToSet(s) \cup {x}
  BY <1>1 DEF ToSet
<1>3. ASSUME Distinct(s), x \notin ToSet(s) PROVE Distinct(Append(s, x))
  BY <1>1, <1>3 DEF Distinct, ToSet
<1> QED
  BY <1>1, <1>2, <1>3

(* What a sequence has without its head.                                   *)
LEMMA TailIs ==
    ASSUME NEW S, NEW s \in Seq(S), s # <<>>
    PROVE  /\ Tail(s) \in Seq(S) /\ Len(Tail(s)) = Len(s) - 1
           /\ Head(s) = s[1] /\ Head(s) \in S
           /\ \A i \in 1..Len(s)-1 : Tail(s)[i] = s[i + 1]
OBVIOUS

-----------------------------------------------------------------------------
(* A message that is sent is the last word on the instances it names.      *)
LEMMA ShownWhenTold ==
    ASSUME toPage \in Seq(Telling), NEW m \in Telling, toPage' = Append(toPage, m),
           shown' = shown, NEW id
    PROVE  WillBeShown(id)' <=> SaysIn(m, id) \/ (WillBeShown(id) /\ ~SaysOut(m, id))
<1> DEFINE n == Len(toPage)
<1>1. /\ n \in Nat /\ DOMAIN toPage = 1..n /\ (DOMAIN toPage)' = 1..(n+1)
      /\ \A i \in 1..n : toPage'[i] = toPage[i]
      /\ toPage'[n + 1] = m
  OBVIOUS
<1> HIDE DEF n
<1>2. ~(SaysIn(m, id) /\ SaysOut(m, id))
  BY DEF SaysIn, SaysOut, ToSet
<1>3. WillBeShown(id)' <=>
        \/ id \in ToSet(shown) /\ \A i \in 1..(n+1) : ~SaysOut(toPage'[i], id)
        \/ \E i \in 1..(n+1) :
              /\ SaysIn(toPage'[i], id)
              /\ \A j \in 1..(n+1) : i < j => ~SaysOut(toPage'[j], id)
  BY <1>1 DEF WillBeShown, SaysIn, SaysOut
<1>4. WillBeShown(id) <=>
        \/ id \in ToSet(shown) /\ \A i \in 1..n : ~SaysOut(toPage[i], id)
        \/ \E i \in 1..n :
              /\ SaysIn(toPage[i], id)
              /\ \A j \in 1..n : i < j => ~SaysOut(toPage[j], id)
  BY <1>1 DEF WillBeShown
<1>5. ASSUME WillBeShown(id)' PROVE SaysIn(m, id) \/ (WillBeShown(id) /\ ~SaysOut(m, id))
  BY <1>1, <1>3, <1>4, <1>5
<1>6. ASSUME SaysIn(m, id) PROVE WillBeShown(id)'
  BY <1>1, <1>3, <1>6
<1>7. ASSUME WillBeShown(id), ~SaysOut(m, id) PROVE WillBeShown(id)'
  BY <1>1, <1>3, <1>4, <1>7
<1> QED
  BY <1>2, <1>5, <1>6, <1>7

(* Taking a message changes nothing of what will be shown.                 *)
LEMMA ShownWhenTaken ==
    ASSUME toPage \in Seq(Telling), toPage # <<>>, toPage' = Tail(toPage), NEW id,
           id \in ToSet(shown)' <=> \/ SaysIn(Head(toPage), id)
                                    \/ id \in ToSet(shown) /\ ~SaysOut(Head(toPage), id)
    PROVE  WillBeShown(id)' <=> WillBeShown(id)
<1> DEFINE n == Len(toPage)
<1>1. /\ n \in Nat /\ n >= 1 /\ DOMAIN toPage = 1..n /\ (DOMAIN toPage)' = 1..(n-1)
      /\ \A i \in 1..(n-1) : toPage'[i] = toPage[i + 1]
      /\ Head(toPage) = toPage[1]
  OBVIOUS
<1> HIDE DEF n
<1> DEFINE m == toPage[1]
<1>2. ~(SaysIn(m, id) /\ SaysOut(m, id))
  BY DEF SaysIn, SaysOut, ToSet
<1>3. WillBeShown(id)' <=>
        \/ id \in ToSet(shown)' /\ \A i \in 1..(n-1) : ~SaysOut(toPage[i + 1], id)
        \/ \E i \in 1..(n-1) :
              /\ SaysIn(toPage[i + 1], id)
              /\ \A j \in 1..(n-1) : i < j => ~SaysOut(toPage[j + 1], id)
  <2>1. WillBeShown(id)' <=>
          \/ id \in ToSet(shown)' /\ \A i \in 1..(n-1) : ~SaysOut(toPage'[i], id)
          \/ \E i \in 1..(n-1) :
                /\ SaysIn(toPage'[i], id)
                /\ \A j \in 1..(n-1) : i < j => ~SaysOut(toPage'[j], id)
    BY <1>1 DEF WillBeShown, SaysIn, SaysOut
  <2> QED
    BY <1>1, <2>1
<1>4. WillBeShown(id) <=>
        \/ id \in ToSet(shown) /\ \A i \in 1..n : ~SaysOut(toPage[i], id)
        \/ \E i \in 1..n :
              /\ SaysIn(toPage[i], id)
              /\ \A j \in 1..n : i < j => ~SaysOut(toPage[j], id)
  BY <1>1 DEF WillBeShown
<1>5. ASSUME NEW k \in 1..n, k # 1 PROVE k - 1 \in 1..(n-1) /\ (k - 1) + 1 = k
  BY <1>1, <1>5
<1>6. \A k \in 1..n : k # 1 => \E i \in 1..(n-1) : i + 1 = k
  BY <1>5
<1>7. \A i \in 1..(n-1) : i + 1 \in 1..n /\ i + 1 # 1
  BY <1>1
<1>8. ASSUME WillBeShown(id)' PROVE WillBeShown(id)
  <2>1. CASE id \in ToSet(shown)' /\ \A i \in 1..(n-1) : ~SaysOut(toPage[i + 1], id)
    <3>1. \A k \in 1..n : k # 1 => ~SaysOut(toPage[k], id)
      BY <1>6, <2>1
    <3>2. CASE SaysIn(m, id)
      <4>1. 1 \in 1..n /\ \A j \in 1..n : 1 < j => ~SaysOut(toPage[j], id)
        BY <1>1, <3>1
      <4> QED
        BY <1>4, <3>2, <4>1
    <3>3. CASE id \in ToSet(shown) /\ ~SaysOut(m, id)
      BY <1>4, <3>1, <3>3
    <3> QED
      BY <1>1, <2>1, <3>2, <3>3
  <2>2. CASE \E i \in 1..(n-1) :
              /\ SaysIn(toPage[i + 1], id)
              /\ \A j \in 1..(n-1) : i < j => ~SaysOut(toPage[j + 1], id)
    <3>1. PICK i \in 1..(n-1) :
              /\ SaysIn(toPage[i + 1], id)
              /\ \A j \in 1..(n-1) : i < j => ~SaysOut(toPage[j + 1], id)
      BY <2>2
    <3>2. ASSUME NEW k \in 1..n, i + 1 < k PROVE ~SaysOut(toPage[k], id)
      <4>1. k - 1 \in 1..(n-1) /\ i < k - 1 /\ (k - 1) + 1 = k
        BY <1>1, <3>2
      <4> QED
        BY <3>1, <4>1
    <3> QED
      BY <1>4, <1>7, <3>1, <3>2
  <2> QED
    BY <1>3, <1>8, <2>1, <2>2
<1>9. ASSUME WillBeShown(id) PROVE WillBeShown(id)'
  <2>1. CASE id \in ToSet(shown) /\ \A i \in 1..n : ~SaysOut(toPage[i], id)
    BY <1>1, <1>3, <1>7, <2>1
  <2>2. ASSUME NEW i \in 1..n, SaysIn(toPage[i], id),
               \A j \in 1..n : i < j => ~SaysOut(toPage[j], id)
        PROVE  WillBeShown(id)'
    <3>1. CASE i = 1
      <4>1. \A j \in 1..(n-1) : ~SaysOut(toPage[j + 1], id)
        BY <1>1, <2>2, <3>1
      <4> QED
        BY <1>1, <1>3, <2>2, <3>1, <4>1
    <3>2. CASE i # 1
      <4>1. PICK k \in 1..(n-1) : k + 1 = i
        BY <1>6, <3>2
      <4>2. \A j \in 1..(n-1) : k < j => ~SaysOut(toPage[j + 1], id)
        BY <1>7, <2>2, <4>1
      <4> QED
        BY <1>3, <2>2, <4>1, <4>2
    <3> QED
      BY <3>1, <3>2
  <2> QED
    BY <1>4, <1>9, <2>1, <2>2
<1> QED
  BY <1>8, <1>9

(* A message that is sent leaves the logs as they were told, when it is    *)
(* not about them,                                                         *)
LEMMA FollowsWhenTold ==
    ASSUME toPage \in Seq(Telling), NEW m \in Telling, toPage' = Append(toPage, m), NEW id,
           log'[id] = log[id], logs'[id] = logs[id], Follows(id),
           ~Resets(m, id), ~IsLine(m, id)
    PROVE  Follows(id)'
<1> DEFINE n == Len(toPage)
<1>1. /\ n \in Nat /\ DOMAIN toPage = 1..n /\ (DOMAIN toPage)' = 1..(n+1)
      /\ Len(toPage)' = n + 1
      /\ \A i \in 1..n : toPage'[i] = toPage[i]
      /\ toPage'[n + 1] = m
  OBVIOUS
<1>2. PICK r \in 0..n : FollowsFrom(id, r)
  BY DEF Follows
<1> HIDE DEF n
<1>3. Base(id, r)' = Base(id, r)
  BY <1>1 DEF Base, NewLog
<1>4. FollowsFrom(id, r)'
  BY <1>1, <1>2, <1>3 DEF FollowsFrom, Resets, IsLine
<1> QED
  BY <1>1, <1>4 DEF Follows

(* when it is the line that was appended,                                  *)
LEMMA FollowsWhenLogged ==
    ASSUME NEW m \in Telling, NEW id
    PROVE  (/\ toPage \in Seq(Telling) /\ toPage' = Append(toPage, m)
            /\ log[id] \in Seq(Nat) /\ logs'[id] = logs[id] /\ Follows(id) /\ IsLine(m, id)
            /\ log'[id] = Append(log[id], m.line)
            /\ \A r \in 0..Len(toPage) : FollowsFrom(id, r) => Base(id, r) \in Seq(Nat))
           => Follows(id)'
<1>0. SUFFICES ASSUME toPage \in Seq(Telling), toPage' = Append(toPage, m),
                      log[id] \in Seq(Nat), logs'[id] = logs[id], Follows(id), IsLine(m, id),
                      log'[id] = Append(log[id], m.line),
                      \A r \in 0..Len(toPage) : FollowsFrom(id, r) => Base(id, r) \in Seq(Nat)
               PROVE  Follows(id)'
  OBVIOUS
<1> PICK n \in Nat : n = Len(toPage)
  BY <1>0
<1> PICK l \in Nat : l = Len(log[id])
  BY <1>0
<1>1. /\ DOMAIN toPage = 1..n /\ (DOMAIN toPage)' = 1..(n+1)
      /\ Len(toPage)' = n + 1
      /\ \A i \in 1..n : toPage'[i] = toPage[i]
      /\ toPage'[n + 1] = m
  BY <1>0
<1>2. m.line \in Nat /\ ~Resets(m, id)
  BY <1>0 DEF Telling, IsLine, Resets
<1>3. /\ DOMAIN log[id] = 1..l /\ DOMAIN log'[id] = 1..(l+1) /\ Len(log'[id]) = l + 1
      /\ \A j \in 1..l : log'[id][j] = log[id][j]
      /\ log'[id][l + 1] = m.line
  BY <1>0, <1>2
<1>4. PICK r \in 0..n : FollowsFrom(id, r)
  BY <1>0 DEF Follows
<1> PICK b \in Nat : b = Len(Base(id, r))
  <2>1. Base(id, r) \in Seq(Nat)
    BY <1>0, <1>4
  <2>2. Len(Base(id, r)) \in Nat
    BY <2>1
  <2> QED
    BY <2>2
<1>5. Base(id, r)' = Base(id, r)
  BY <1>0, <1>1 DEF Base, NewLog
<1>6. b <= l
  BY <1>0, <1>4 DEF FollowsFrom
<1>7. /\ r # 0 => Resets(toPage[r], id)
      /\ \A i \in 1..n : r < i => ~Resets(toPage[i], id)
      /\ \A j \in 1..b : Base(id, r)[j] = log[id][j]
      /\ \A i \in 1..n : r < i /\ IsLine(toPage[i], id) =>
             \E j \in 1..l : b < j /\ log[id][j] = toPage[i].line
      /\ \A j \in 1..l : b < j =>
             \E i \in 1..n : r < i /\ IsLine(toPage[i], id) /\ toPage[i].line = log[id][j]
  BY <1>1, <1>3, <1>4 DEF FollowsFrom
<1>8. /\ \A i \in 1..(n+1) : r < i => ~Resets(toPage'[i], id)
      /\ \A j \in 1..b : Base(id, r)[j] = log'[id][j]
      /\ r # 0 => Resets(toPage'[r], id)
  <2>1. ASSUME NEW i \in 1..(n+1), r < i PROVE ~Resets(toPage'[i], id)
    <3>1. CASE i = n + 1
      BY <1>1, <1>2, <3>1
    <3>2. CASE i \in 1..n
      <4>1. toPage'[i] = toPage[i] /\ ~Resets(toPage[i], id)
        BY <1>1, <1>7, <2>1, <3>2
      <4> QED
        BY <4>1
    <3> QED
      BY <3>1, <3>2
  <2>2. ASSUME NEW j \in 1..b PROVE Base(id, r)[j] = log'[id][j]
    <3>1. j \in 1..l /\ Base(id, r)[j] = log[id][j]
      BY <1>6, <1>7
    <3> QED
      BY <1>3, <3>1
  <2>3. ASSUME r # 0 PROVE Resets(toPage'[r], id)
    <3>1. r \in 1..n /\ Resets(toPage[r], id)
      BY <1>7, <2>3
    <3> QED
      BY <1>1, <3>1
  <2> QED
    BY <2>1, <2>2, <2>3
<1>9. ASSUME NEW i \in 1..(n+1), r < i, IsLine(toPage'[i], id)
      PROVE  \E j \in 1..(l+1) : b < j /\ log'[id][j] = toPage'[i].line
  <2>1. CASE i = n + 1
    <3>1. l + 1 \in 1..(l+1) /\ b < l + 1 /\ log'[id][l + 1] = toPage'[i].line
      BY <1>1, <1>3, <1>6, <2>1
    <3> QED
      BY <3>1
  <2>2. CASE i \in 1..n
    <3>1. PICK j \in 1..l : b < j /\ log[id][j] = toPage[i].line
      BY <1>1, <1>7, <1>9, <2>2
    <3>2. j \in 1..(l+1) /\ toPage'[i] = toPage[i] /\ log'[id][j] = log[id][j]
      BY <1>1, <1>3, <2>2
    <3> QED
      BY <3>1, <3>2
  <2> QED
    BY <2>1, <2>2
<1>10. ASSUME NEW j \in 1..(l+1), b < j
       PROVE  \E i \in 1..(n+1) : r < i /\ IsLine(toPage'[i], id) /\ toPage'[i].line = log'[id][j]
  <2>1. CASE j = l + 1
    <3>1. n + 1 \in 1..(n+1) /\ r < n + 1
      OBVIOUS
    <3>2. IsLine(toPage'[n + 1], id)
      BY <1>0, <1>1
    <3>3. toPage'[n + 1].line = log'[id][j]
      BY <1>1, <1>3, <2>1
    <3> QED
      BY <3>1, <3>2, <3>3
  <2>2. CASE j \in 1..l
    <3>1. PICK i \in 1..n : r < i /\ IsLine(toPage[i], id) /\ toPage[i].line = log[id][j]
      BY <1>7, <1>10, <2>2
    <3>2. i \in 1..(n+1) /\ toPage'[i] = toPage[i] /\ log'[id][j] = log[id][j]
      BY <1>1, <1>3, <2>2
    <3> QED
      BY <3>1, <3>2
  <2> QED
    BY <2>1, <2>2
<1>11. FollowsFrom(id, r)'
  <2>1. /\ r \in 0..(n+1) /\ b <= l + 1
        /\ \A i \in 1..(n+1) : r < i => ~Resets(toPage'[i], id)
        /\ r # 0 => Resets(toPage'[r], id)
    BY <1>6, <1>8
  <2>2. /\ \A i \in 1..(n+1) : r < i /\ IsLine(toPage'[i], id) =>
               \E j \in 1..(l+1) : b < j /\ log'[id][j] = toPage'[i].line
        /\ \A j \in 1..(l+1) : b < j =>
               \E i \in 1..(n+1) : r < i /\ IsLine(toPage'[i], id) /\ toPage'[i].line = log'[id][j]
    BY <1>9, <1>10
  <2>3. /\ Len(toPage)' = n + 1 /\ (DOMAIN toPage)' = 1..(n+1)
        /\ Len(log[id])' = l + 1 /\ (DOMAIN log[id])' = 1..(l+1)
        /\ Len(Base(id, r))' = b /\ Base(id, r)' = Base(id, r)
    BY <1>1, <1>3, <1>5
  <2>4. \A j \in 1..b : Base(id, r)[j] = log'[id][j]
    BY <1>8
  <2>5. /\ r \in 0..Len(toPage)'
        /\ r # 0 => Resets(toPage[r], id)'
        /\ \A i \in (DOMAIN toPage)' : r < i => ~Resets(toPage[i], id)'
    BY <2>1, <2>3 DEF Resets
  <2>6. /\ Len(Base(id, r))' <= Len(log[id])'
        /\ \A j \in 1..Len(Base(id, r))' : Base(id, r)'[j] = log'[id][j]
    BY <2>1, <2>3, <2>4
  <2>7. /\ \A i \in (DOMAIN toPage)' : r < i /\ IsLine(toPage[i], id)' =>
               \E j \in (DOMAIN log[id])' : Len(Base(id, r))' < j /\ log'[id][j] = toPage'[i].line
        /\ \A j \in (DOMAIN log[id])' : Len(Base(id, r))' < j =>
               \E i \in (DOMAIN toPage)' :
                   r < i /\ IsLine(toPage[i], id)' /\ toPage'[i].line = log'[id][j]
    BY <2>2, <2>3 DEF IsLine
  <2> QED
    BY <2>5, <2>6, <2>7 DEF FollowsFrom
<1> QED
  BY <1>1, <1>11 DEF Follows

(* and when it is the whole log.                                           *)
LEMMA FollowsWhenReset ==
    ASSUME toPage \in Seq(Telling), NEW m \in Telling, toPage' = Append(toPage, m), NEW id,
           log'[id] \in Seq(Nat), Resets(m, id), NewLog(m) = log'[id]
    PROVE  Follows(id)'
<1> PICK n \in Nat : n = Len(toPage) + 1
  OBVIOUS
<1>1. /\ n >= 1 /\ (DOMAIN toPage)' = 1..n /\ Len(toPage)' = n
      /\ toPage'[n] = m
  OBVIOUS
<1>2. Base(id, n)' = log'[id]
  BY <1>1 DEF Base, NewLog
<1>3. /\ Len(log'[id]) \in Nat /\ DOMAIN log'[id] = 1..Len(log'[id])
  OBVIOUS
<1>4. FollowsFrom(id, n)'
  BY <1>1, <1>2, <1>3 DEF FollowsFrom, Resets, IsLine
<1> QED
  BY <1>1, <1>4 DEF Follows

(* What the page has of the log is a sequence of lines.                    *)
LEMMA BasesAreLines ==
    ASSUME TabTypes, NEW id \in Ports, NEW r \in 0..Len(toPage), FollowsFrom(id, r)
    PROVE  Base(id, r) \in Seq(Nat)
<1>1. CASE r = 0
  BY <1>1 DEF Base, TabTypes
<1>2. CASE r # 0
  <2>1. toPage[r] \in Telling /\ Resets(toPage[r], id)
    BY <1>2 DEF FollowsFrom, TabTypes
  <2>2. NewLog(toPage[r]) \in Seq(Nat)
    BY <2>1 DEF NewLog, Telling, Resets
  <2> QED
    BY <1>2, <2>2 DEF Base
<1> QED
  BY <1>1, <1>2

(* Taking a message leaves what follows as it was: a line that is taken is *)
(* the first that the page does not have.                                  *)
LEMMA FollowsWhenTaken ==
    ASSUME NEW id \in Ports
    PROVE  (/\ TabTypes /\ LinesInOrder /\ toPage # <<>> /\ toPage' = Tail(toPage)
            /\ log'[id] = log[id] /\ Follows(id)
            /\ logs'[id] = IF Resets(Head(toPage), id) THEN NewLog(Head(toPage))
                           ELSE IF IsLine(Head(toPage), id)
                                THEN Append(logs[id], Head(toPage).line) ELSE logs[id])
           => Follows(id)'
<1>0. SUFFICES ASSUME TabTypes, LinesInOrder, toPage # <<>>, toPage' = Tail(toPage),
                      log'[id] = log[id], Follows(id),
                      logs'[id] = IF Resets(Head(toPage), id) THEN NewLog(Head(toPage))
                                  ELSE IF IsLine(Head(toPage), id)
                                       THEN Append(logs[id], Head(toPage).line) ELSE logs[id]
               PROVE  Follows(id)'
  OBVIOUS
<1> PICK n \in Nat : n = Len(toPage)
  BY <1>0 DEF TabTypes
<1> PICK l \in Nat : l = Len(log[id])
  BY <1>0 DEF TabTypes
<1> PICK m \in Telling : m = toPage[1] /\ m = Head(toPage)
  BY <1>0 DEF TabTypes
<1>1. /\ n >= 1 /\ DOMAIN toPage = 1..n /\ (DOMAIN toPage)' = 1..(n-1)
      /\ Len(toPage)' = n - 1 /\ n - 1 \in Nat
      /\ \A i \in 1..(n-1) : toPage'[i] = toPage[i + 1]
  BY <1>0 DEF TabTypes
<1>2. DOMAIN log[id] = 1..l /\ DOMAIN log'[id] = 1..l /\ Len(log[id])' = l
  BY <1>0 DEF TabTypes
<1>3. PICK r \in 0..n : FollowsFrom(id, r)
  BY <1>0 DEF Follows
<1>4. Base(id, r) \in Seq(Nat)
  BY <1>0, <1>3, BasesAreLines
<1> PICK b \in Nat : b = Len(Base(id, r))
  BY <1>4
<1>5. b <= l
  BY <1>3 DEF FollowsFrom
<1>6. /\ r # 0 => Resets(toPage[r], id)
      /\ \A i \in 1..n : r < i => ~Resets(toPage[i], id)
  BY <1>1, <1>3 DEF FollowsFrom
<1>7. \A j \in 1..b : Base(id, r)[j] = log[id][j]
  BY <1>3 DEF FollowsFrom
<1>8. /\ \A i \in 1..n : r < i /\ IsLine(toPage[i], id) =>
             \E j \in 1..l : b < j /\ log[id][j] = toPage[i].line
      /\ \A j \in 1..l : b < j =>
             \E i \in 1..n : r < i /\ IsLine(toPage[i], id) /\ toPage[i].line = log[id][j]
  BY <1>1, <1>2, <1>3 DEF FollowsFrom
<1>9. ASSUME NEW q \in 0..(n-1), NEW c \in Nat, c <= l,
             q # 0 => Resets(toPage[q + 1], id),
             \A i \in 1..n : q + 1 < i => ~Resets(toPage[i], id),
             Len(Base(id, q))' = c, \A j \in 1..c : Base(id, q)'[j] = log[id][j],
             \A i \in 1..n : q + 1 < i /\ IsLine(toPage[i], id) =>
                 \E j \in 1..l : c < j /\ log[id][j] = toPage[i].line,
             \A j \in 1..l : c < j =>
                 \E i \in 1..n : q + 1 < i /\ IsLine(toPage[i], id) /\ toPage[i].line = log[id][j]
      PROVE  Follows(id)'
  <2>1. \A i \in 1..(n-1) : q < i => i + 1 \in 1..n /\ q + 1 < i + 1
    BY <1>1
  <2>2. /\ q \in 0..Len(toPage)'
        /\ q # 0 => Resets(toPage[q], id)'
        /\ \A i \in (DOMAIN toPage)' : q < i => ~Resets(toPage[i], id)'
    <3>1. q # 0 => Resets(toPage'[q], id)
      BY <1>1, <1>9
    <3>2. \A i \in 1..(n-1) : q < i => ~Resets(toPage'[i], id)
      BY <1>1, <1>9, <2>1
    <3> QED
      BY <1>1, <3>1, <3>2 DEF Resets
  <2>3. /\ Len(Base(id, q))' <= Len(log[id])'
        /\ \A j \in 1..Len(Base(id, q))' : Base(id, q)'[j] = log'[id][j]
    BY <1>0, <1>2, <1>9
  <2>4. \A i \in (DOMAIN toPage)' : q < i /\ IsLine(toPage[i], id)' =>
            \E j \in (DOMAIN log[id])' : Len(Base(id, q))' < j /\ log'[id][j] = toPage'[i].line
    <3>1. ASSUME NEW i \in 1..(n-1), q < i, IsLine(toPage'[i], id)
          PROVE  \E j \in 1..l : c < j /\ log[id][j] = toPage'[i].line
      <4>1. i + 1 \in 1..n /\ q + 1 < i + 1 /\ toPage'[i] = toPage[i + 1]
        BY <1>1, <2>1, <3>1
      <4>2. IsLine(toPage[i + 1], id)
        BY <3>1, <4>1
      <4>3. \E j \in 1..l : c < j /\ log[id][j] = toPage[i + 1].line
        BY <1>9, <4>1, <4>2
      <4> QED
        BY <4>1, <4>3
    <3>2. \A i : IsLine(toPage[i], id)' <=> IsLine(toPage'[i], id)
      BY DEF IsLine
    <3>3. log'[id] = log[id] /\ (DOMAIN log[id])' = 1..l /\ Len(Base(id, q))' = c
      BY <1>0, <1>2, <1>9
    <3> QED
      BY <1>1, <3>1, <3>2, <3>3
  <2>5. \A j \in (DOMAIN log[id])' : Len(Base(id, q))' < j =>
            \E i \in (DOMAIN toPage)' :
                q < i /\ IsLine(toPage[i], id)' /\ toPage'[i].line = log'[id][j]
    <3>1. ASSUME NEW j \in 1..l, c < j
          PROVE  \E i \in 1..(n-1) : q < i /\ IsLine(toPage'[i], id) /\ toPage'[i].line = log[id][j]
      <4>1. PICK k \in 1..n : q + 1 < k /\ IsLine(toPage[k], id) /\ toPage[k].line = log[id][j]
        BY <1>9, <3>1
      <4>2. k - 1 \in 1..(n-1) /\ q < k - 1 /\ (k - 1) + 1 = k
        BY <4>1
      <4>3. toPage'[k - 1] = toPage[k]
        BY <1>1, <4>2
      <4> QED
        BY <4>1, <4>2, <4>3
    <3>2. \A i : IsLine(toPage[i], id)' <=> IsLine(toPage'[i], id)
      BY DEF IsLine
    <3>3. log'[id] = log[id] /\ (DOMAIN log[id])' = 1..l /\ Len(Base(id, q))' = c
      BY <1>0, <1>2, <1>9
    <3> QED
      BY <1>1, <3>1, <3>2, <3>3
  <2>6. FollowsFrom(id, q)'
    BY <2>2, <2>3, <2>4, <2>5 DEF FollowsFrom
  <2> QED
    BY <1>1, <2>6 DEF Follows
<1>10. CASE r >= 1
  <2> PICK q \in 0..(n-1) : q + 1 = r
    <3>1. r - 1 \in 0..(n-1) /\ (r - 1) + 1 = r
      BY <1>10
    <3> QED
      BY <3>1
  <2>1. Base(id, q)' = Base(id, r)
    <3>1. CASE r = 1
      <4>1. q = 0 /\ Resets(m, id) /\ Base(id, r) = NewLog(m)
        BY <1>6, <1>10, <3>1 DEF Base
      <4>2. Base(id, 0)' = logs'[id]
        BY DEF Base
      <4> QED
        BY <1>0, <4>1, <4>2
    <3>2. CASE r # 1
      <4>1. q # 0 /\ q \in 1..(n-1) /\ toPage'[q] = toPage[r]
        BY <1>1, <1>10, <3>2
      <4> QED
        BY <1>10, <4>1 DEF Base, NewLog
    <3> QED
      BY <3>1, <3>2
  <2>2. Len(Base(id, q))' = b /\ \A j \in 1..b : Base(id, q)'[j] = log[id][j]
    BY <1>7, <2>1
  <2>3. /\ q # 0 => Resets(toPage[q + 1], id)
        /\ \A i \in 1..n : q + 1 < i => ~Resets(toPage[i], id)
    BY <1>6, <1>10
  <2>4. /\ \A i \in 1..n : q + 1 < i /\ IsLine(toPage[i], id) =>
               \E j \in 1..l : b < j /\ log[id][j] = toPage[i].line
        /\ \A j \in 1..l : b < j =>
               \E i \in 1..n : q + 1 < i /\ IsLine(toPage[i], id) /\ toPage[i].line = log[id][j]
    BY <1>8
  <2> QED
    BY <1>5, <1>9, <2>2, <2>3, <2>4
<1>11. CASE r = 0
  <2>1. Base(id, r) = logs[id] /\ Base(id, 0)' = logs'[id]
    BY <1>11 DEF Base
  <2>2. ~Resets(m, id)
    BY <1>1, <1>6, <1>11
  <2>3. \A i \in 1..n : 1 < i => ~Resets(toPage[i], id)
    BY <1>6, <1>11
  <2>4. 0 \in 0..(n-1)
    BY <1>1
  <2>5. CASE ~IsLine(m, id)
    <3>1. logs'[id] = logs[id]
      BY <1>0, <2>2, <2>5
    <3>2. Len(Base(id, 0))' = b /\ \A j \in 1..b : Base(id, 0)'[j] = log[id][j]
      BY <1>7, <2>1, <3>1
    <3>3. \A i \in 1..n : 0 + 1 < i /\ IsLine(toPage[i], id) =>
              \E j \in 1..l : b < j /\ log[id][j] = toPage[i].line
      BY <1>8, <1>11
    <3>4. ASSUME NEW j \in 1..l, b < j
          PROVE  \E i \in 1..n : 0 + 1 < i /\ IsLine(toPage[i], id) /\ toPage[i].line = log[id][j]
      <4>1. PICK i \in 1..n : IsLine(toPage[i], id) /\ toPage[i].line = log[id][j]
        BY <1>8, <3>4
      <4>2. i # 1
        BY <2>5, <4>1
      <4> QED
        BY <4>1, <4>2
    <3> QED
      BY <1>5, <1>9, <2>3, <2>4, <3>2, <3>3, <3>4
  <2>6. CASE IsLine(m, id)
    <3>1. logs'[id] = Append(logs[id], m.line) /\ m.line \in Nat
      BY <1>0, <2>2, <2>6 DEF IsLine, Telling
    <3>2. PICK k \in 1..l : b < k /\ log[id][k] = m.line
      BY <1>1, <1>8, <1>11, <2>6
    <3>3. ASSUME NEW i \in 1..n, 1 < i, IsLine(toPage[i], id) PROVE m.line < toPage[i].line
      <4>1. /\ 1 \in DOMAIN toPage /\ i \in DOMAIN toPage
            /\ toPage[1].type = "line" /\ toPage[i].type = "line"
        BY <1>1, <2>6, <3>3 DEF IsLine
      <4> QED
        BY <1>0, <3>3, <4>1 DEF LinesInOrder
    <3>4. \A i \in 1..l : \A j \in 1..l : i < j => log[id][i] < log[id][j]
      BY <1>0, <1>2 DEF LinesInOrder
    <3>5. \A i \in 1..l : log[id][i] \in Nat
      <4>1. log[id] \in Seq(Nat)
        BY <1>0 DEF TabTypes
      <4> QED
        BY <1>2, <4>1
    <3>6. k = b + 1
      <4>1. SUFFICES ASSUME k # b + 1 PROVE FALSE
        OBVIOUS
      <4>2. b + 1 \in 1..l /\ b < b + 1 /\ b + 1 < k
        BY <3>2, <4>1
      <4>3. PICK i \in 1..n : IsLine(toPage[i], id) /\ toPage[i].line = log[id][b + 1]
        BY <1>8, <4>2
      <4>4. log[id][b + 1] < m.line
        BY <3>2, <3>4, <4>2
      <4>5. CASE i = 1
        BY <3>2, <3>5, <4>2, <4>3, <4>4, <4>5
      <4>6. CASE i # 1
        <5>1. m.line < log[id][b + 1]
          BY <3>3, <4>3, <4>6
        <5> QED
          BY <3>1, <3>5, <4>2, <4>4, <5>1
      <4> QED
        BY <4>5, <4>6
    <3>7. /\ Len(Base(id, 0))' = b + 1
          /\ \A j \in 1..(b+1) : Base(id, 0)'[j] = log[id][j]
      <4>1. /\ Len(logs'[id]) = b + 1
            /\ \A j \in 1..b : logs'[id][j] = logs[id][j]
            /\ logs'[id][b + 1] = m.line
        BY <1>4, <2>1, <3>1
      <4>2. \A j \in 1..b : logs'[id][j] = log[id][j]
        BY <1>7, <2>1, <4>1
      <4>3. logs'[id][b + 1] = log[id][b + 1]
        BY <3>2, <3>6, <4>1
      <4>4. \A j \in 1..(b+1) : j = b + 1 \/ j \in 1..b
        OBVIOUS
      <4> QED
        BY <2>1, <4>1, <4>2, <4>3, <4>4
    <3>8. ASSUME NEW i \in 1..n, 0 + 1 < i, IsLine(toPage[i], id)
          PROVE  \E j \in 1..l : b + 1 < j /\ log[id][j] = toPage[i].line
      <4>1. PICK j \in 1..l : b < j /\ log[id][j] = toPage[i].line
        BY <1>8, <1>11, <3>8
      <4>2. j # b + 1
        BY <3>1, <3>2, <3>3, <3>6, <3>8, <4>1
      <4> QED
        BY <4>1, <4>2
    <3>9. ASSUME NEW j \in 1..l, b + 1 < j
          PROVE  \E i \in 1..n : 0 + 1 < i /\ IsLine(toPage[i], id) /\ toPage[i].line = log[id][j]
      <4>1. PICK i \in 1..n : IsLine(toPage[i], id) /\ toPage[i].line = log[id][j]
        BY <1>8, <3>9
      <4>2. log[id][k] < log[id][j]
        BY <3>4, <3>6, <3>9
      <4>3. i # 1
        BY <3>1, <3>2, <4>1, <4>2
      <4> QED
        BY <4>1, <4>3
    <3>10. b + 1 \in Nat /\ b + 1 <= l
      BY <3>2, <3>6
    <3>11. \A i \in 1..n : 0 + 1 < i => ~Resets(toPage[i], id)
      BY <2>3
    <3>12. /\ \A i \in 1..n : 0 + 1 < i /\ IsLine(toPage[i], id) =>
                  \E j \in 1..l : b + 1 < j /\ log[id][j] = toPage[i].line
           /\ \A j \in 1..l : b + 1 < j => \E i \in 1..n :
                  0 + 1 < i /\ IsLine(toPage[i], id) /\ toPage[i].line = log[id][j]
      BY <3>8, <3>9
    <3> QED
      BY <1>9, <2>4, <3>7, <3>10, <3>11, <3>12
  <2> QED
    BY <2>5, <2>6
<1> QED
  BY <1>10, <1>11

-----------------------------------------------------------------------------
(* A question that waits is still there when another is added, and it is   *)
(* the head that leaves.                                                   *)
LEMMA AskedWhenAsked ==
    ASSUME toMain \in Seq(Asking), NEW a \in Seq(Asking), toMain' = toMain \o a,
           reloads' = reloads
    PROVE  /\ Listing => Listing'
           /\ \A id : LogAsked(id) => LogAsked(id)'
<1>1. /\ DOMAIN toMain = 1..Len(toMain) /\ (DOMAIN toMain)' = 1..Len(toMain)+Len(a)
      /\ Len(toMain) \in Nat /\ Len(a) \in Nat
      /\ \A i \in 1..Len(toMain) : toMain'[i] = toMain[i]
  BY ConcatProperties
<1>2. \A i \in DOMAIN toMain : i \in (DOMAIN toMain)' /\ toMain'[i] = toMain[i]
  BY <1>1
<1> QED
  BY <1>2 DEF Listing, LogAsked

(* What waits is still waiting when the head was served, but the head.     *)
LEMMA AskedWhenServed ==
    ASSUME toMain \in Seq(Asking), toMain # <<>>, toMain' = Tail(toMain), reloads' = reloads
    PROVE  /\ Listing => \/ Listing'
                         \/ Head(toMain).type = "list" /\ Head(toMain).asker = reloads
           /\ \A id : LogAsked(id) => \/ LogAsked(id)'
                                      \/ /\ Head(toMain).type = "getLogs" /\ Head(toMain).id = id
                                         /\ Head(toMain).asker = reloads
<1>1. \A i \in DOMAIN toMain :
          \/ toMain[i] = Head(toMain)
          \/ \E j \in (DOMAIN toMain)' : toMain'[j] = toMain[i]
  <2>1. ASSUME NEW i \in DOMAIN toMain, i # 1
        PROVE  \E j \in (DOMAIN toMain)' : toMain'[j] = toMain[i]
    <3>1. i - 1 \in (DOMAIN toMain)' /\ toMain'[i - 1] = toMain[i]
      BY <2>1
    <3> QED
      BY <3>1
  <2> QED
    BY <2>1
<1> QED
  BY <1>1 DEF Listing, LogAsked

(* A log that is asked for stays so while messages are sent.               *)
LEMMA AskedWhenTold ==
    ASSUME toPage \in Seq(Telling), NEW m \in Telling,
           toPage' \in {toPage, Append(toPage, m)}, NEW id, InList(id)
    PROVE  InList(id)'
<1>1. \A i \in DOMAIN toPage : i \in (DOMAIN toPage)' /\ toPage'[i] = toPage[i]
  OBVIOUS
<1> QED
  BY <1>1 DEF InList

(* What is said by a message that is sent.                                 *)
LEMMA ToldIs ==
    ASSUME toPage \in Seq(Telling), NEW m \in Telling, toPage' = Append(toPage, m)
    PROVE  /\ toPage' \in Seq(Telling)
           /\ \A i \in (DOMAIN toPage)' :
                  \/ i \in DOMAIN toPage /\ toPage'[i] = toPage[i]
                  \/ i = Len(toPage) + 1 /\ toPage'[i] = m
OBVIOUS

(* While the page loads, nothing is sent.                                  *)
LEMMA LoadingKeeps ==
    ASSUME TabsInv, page = "loading", page' = page, toPage' = toPage
    PROVE  TabsFollow' /\ LogsFollow' /\ toPage' = <<>>
BY DEF TabsInv, TabTypes, LinesInOrder, TabsFollow, LogsFollow

(* Elements are of the set the sequence is over.                           *)
LEMMA ElementsAre == ASSUME NEW S, NEW s \in Seq(S) PROVE ToSet(s) \subseteq S
BY DEF ToSet

(* The lowest free port is one.                                            *)
LEMMA FreePortIsOne == Ports \ ToSet(tabRows) # {} => freePort \in Ports
<1>1. SUFFICES ASSUME Ports \ ToSet(tabRows) # {} PROVE freePort \in Ports
  OBVIOUS
<1>2. IsWellFoundedOn(OpToRel(<, Nat), Nat)
  BY NatLessThanWellFounded
<1>3. Ports \ ToSet(tabRows) \subseteq Nat
  BY PortsAssumption
<1>4. PICK p \in Ports \ ToSet(tabRows) :
          \A q \in Ports \ ToSet(tabRows) : <<q, p>> \notin OpToRel(<, Nat)
  BY <1>1, <1>2, <1>3, WFMin
<1>5. \A q \in Ports : q < p => q \in ToSet(tabRows)
  BY <1>3, <1>4 DEF OpToRel
<1> QED
  BY <1>4, <1>5 DEF freePort

(* A creation that is done leaves the others.                              *)
LEMMA RemovedAtIs ==
    ASSUME NEW S, NEW s \in Seq(S), NEW i \in DOMAIN s
    PROVE  RemoveAt(s, i) \in Seq(S)
<1>1. SubSeq(s, 1, i-1) \in Seq(S) /\ SubSeq(s, i+1, Len(s)) \in Seq(S)
  OBVIOUS
<1> QED
  BY <1>1, ConcatProperties DEF RemoveAt

-----------------------------------------------------------------------------
(* It holds at the start.                                                  *)
LEMMA TabsStartSo == TabsInit => TabsInv
<1>1. SUFFICES ASSUME TabsInit PROVE TabsInv
  OBVIOUS
<1>2. TabTypes
  BY <1>1, EmptySeq DEF TabsInit, TabTypes
<1>3. NamedOnce /\ LinesInOrder /\ Traced
  BY <1>1 DEF TabsInit, NamedOnce, Distinct, LinesInOrder, Traced, ToSet
<1>4. TabsFollow /\ LogsFollow
  BY <1>1 DEF TabsInit, TabsFollow, LogsFollow
<1> QED
  BY <1>2, <1>3, <1>4 DEF TabsInv

(* A creation that ends keeps the invariant: the page is told, and has an  *)
(* empty log then.                                                         *)
LEMMA CreatedKeeps == TabsInv /\ Created => TabsInv'
<1>0. SUFFICES ASSUME TabsInv, Created PROVE TabsInv'
  OBVIOUS
<1>1. PICK k \in DOMAIN creating :
        /\ tabRows' = IF creating[k] \in ToSet(tabRows) THEN tabRows
                      ELSE Append(tabRows, creating[k])
        /\ wired' = IF creating[k] \in ToSet(tabRows) THEN wired \cup {creating[k]} ELSE wired
        /\ log' = [log EXCEPT ![creating[k]] = <<>>]
        /\ lives' = [lives EXCEPT ![creating[k]] = @ + 1]
        /\ creating' = RemoveAt(creating, k)
        /\ SendsLine([type |-> "created", id |-> creating[k]])
  BY <1>0 DEF Created
<1> PICK id \in Ports : id = creating[k]
  BY <1>0 DEF TabsInv, TabTypes
<1> DEFINE m == [type |-> "created", id |-> id]
<1>2. m \in Telling
  BY DEF Telling
<1>3. /\ toMain' = toMain /\ reloads' = reloads /\ shown' = shown /\ logs' = logs /\ page' = page
      /\ lines' = lines
  BY <1>0 DEF Created, pageVars, bounds
<1>4. toPage' = IF page = "shown" THEN Append(toPage, m) ELSE toPage
  BY <1>1 DEF SendsLine
<1> HIDE DEF m
<1>5. /\ tabRows' \in Seq(Ports) /\ Distinct(tabRows')
      /\ ToSet(tabRows') = ToSet(tabRows) \cup {id}
  <2>1. tabRows \in Seq(Ports) /\ Distinct(tabRows)
    BY <1>0 DEF TabsInv, TabTypes, NamedOnce
  <2>2. tabRows' = IF id \in ToSet(tabRows) THEN tabRows ELSE Append(tabRows, id)
    BY <1>1
  <2> QED
    BY <2>1, <2>2, AppendedIs
<1>6. m.type = "created" /\ m.id = id
  BY DEF m
<1>7. TabTypes'
  <2>1. creating' \in Seq(Ports)
    BY <1>0, <1>1, RemovedAtIs DEF TabsInv, TabTypes
  <2>2. toPage' \in Seq(Telling)
    BY <1>0, <1>2, <1>4 DEF TabsInv, TabTypes
  <2>3. log' \in [Ports -> Seq(Nat)] /\ lives' \in [Ports -> Nat] /\ wired' \subseteq Ports
    <3>1. log \in [Ports -> Seq(Nat)] /\ lives \in [Ports -> Nat] /\ wired \subseteq Ports
      BY <1>0 DEF TabsInv, TabTypes
    <3>2. log' \in [Ports -> Seq(Nat)]
      BY <1>1, <3>1, EmptySeq
    <3> QED
      BY <1>1, <3>1, <3>2
  <2> QED
    BY <1>0, <1>3, <1>5, <2>1, <2>2, <2>3 DEF TabsInv, TabTypes
<1>t. toPage \in Seq(Telling)
  BY <1>0 DEF TabsInv, TabTypes
<1>8. \A i \in (DOMAIN toPage)' :
          \/ i \in DOMAIN toPage /\ toPage'[i] = toPage[i]
          \/ i = Len(toPage) + 1 /\ toPage'[i] = m
  <2>1. CASE page = "shown"
    BY <1>2, <1>4, <1>t, <2>1, ToldIs
  <2>2. CASE page # "shown"
    BY <1>4, <2>2
  <2> QED
    BY <2>1, <2>2
<1>9. NamedOnce'
  BY <1>0, <1>3, <1>5, <1>6, <1>8 DEF TabsInv, NamedOnce, Distinct
<1>10. LinesInOrder'
  <2>1. \A q \in Ports : log'[q] = IF q = id THEN <<>> ELSE log[q]
    BY <1>0, <1>1 DEF TabsInv, TabTypes
  <2>2. (\A q \in Ports : \A i \in DOMAIN log[q] :
           /\ log[q][i] <= lines
           /\ \A j \in DOMAIN log[q] : i < j => log[q][i] < log[q][j])'
    BY <1>0, <1>3, <2>1 DEF TabsInv, LinesInOrder
  <2>3. (\A i \in DOMAIN toPage : toPage[i].type = "line" =>
           /\ toPage[i].line <= lines
           /\ \A j \in DOMAIN toPage :
                  i < j /\ toPage[j].type = "line" => toPage[i].line < toPage[j].line)'
    BY <1>0, <1>3, <1>6, <1>8 DEF TabsInv, LinesInOrder
  <2> QED
    BY <1>0, <1>3, <1>4, <2>2, <2>3 DEF TabsInv, LinesInOrder
<1>11. Traced'
  <2>1. \A q \in Ports : lives'[q] = IF q = id THEN lives[q] + 1 ELSE lives[q]
    BY <1>0, <1>1 DEF TabsInv, TabTypes
  <2>2. \A q \in Ports : lives[q] \in Nat
    BY <1>0 DEF TabsInv, TabTypes
  <2>3. ToSet(tabRows) \subseteq Ports /\ wired \subseteq Ports
    BY <1>0, ElementsAre DEF TabsInv, TabTypes
  <2>4. /\ \A q \in ToSet(tabRows') \cup wired' : lives'[q] >= 1
        /\ \A q \in ToSet(tabRows') \cap wired' : lives'[q] >= 2
    BY <1>0, <1>1, <1>5, <2>1, <2>2, <2>3 DEF TabsInv, Traced
  <2>5. \A i \in (DOMAIN toPage)' : toPage'[i].type = "removed" => toPage'[i].id \in wired'
    BY <1>0, <1>1, <1>6, <1>8 DEF TabsInv, Traced
  <2> QED
    BY <2>4, <2>5 DEF Traced
<1>12. CASE page = "loading"
  BY <1>0, <1>3, <1>4, <1>7, <1>9, <1>10, <1>11, <1>12, LoadingKeeps DEF TabsInv
<1>13. CASE page = "shown"
  <2>1. toPage' = Append(toPage, m)
    BY <1>4, <1>13
  <2>2. TabsFollow'
    <3>1. \A q : SaysIn(m, q) <=> q = id
      BY <1>6 DEF SaysIn
    <3>2. \A q : ~SaysOut(m, q)
      BY <1>6 DEF SaysOut
    <3>3. \A q : WillBeShown(q)' <=> SaysIn(m, q) \/ (WillBeShown(q) /\ ~SaysOut(m, q))
      BY <1>0, <1>2, <1>3, <2>1, ShownWhenTold DEF TabsInv, TabTypes
    <3>4. Listing' <=> Listing
      BY <1>3 DEF Listing
    <3> QED
      BY <1>0, <1>5, <1>13, <3>1, <3>2, <3>3, <3>4 DEF TabsInv, TabsFollow
  <2>3. LogsFollow'
    <3>1. SUFFICES ASSUME NEW q \in ToSet(tabRows'), lives'[q] = 1
                   PROVE  Follows(q)' \/ AskedFor(q)'
      BY DEF LogsFollow
    <3>2. CASE q = id
      <4>1. log'[q] = <<>> /\ Resets(m, q) /\ NewLog(m) = <<>>
        BY <1>0, <1>1, <1>6, <3>2 DEF TabsInv, TabTypes, Resets, NewLog
      <4>2. log'[q] \in Seq(Nat)
        BY <4>1, EmptySeq
      <4>3. NewLog(m) = log'[q] /\ Resets(m, q) /\ log'[q] \in Seq(Nat)
        BY <4>1, <4>2
      <4> QED
        BY <1>2, <1>t, <2>1, <4>3, FollowsWhenReset
    <3>3. CASE q # id
      <4>1. q \in Ports /\ log'[q] = log[q] /\ logs'[q] = logs[q] /\ lives'[q] = lives[q]
        <5>1. q \in Ports
          BY <1>5, ElementsAre
        <5> QED
          BY <1>0, <1>1, <1>3, <3>3, <5>1 DEF TabsInv, TabTypes
      <4>2. Follows(q) \/ AskedFor(q)
        BY <1>0, <1>5, <1>13, <3>1, <3>3, <4>1 DEF TabsInv, LogsFollow
      <4>3. CASE Follows(q)
        <5>1. ~Resets(m, q) /\ ~IsLine(m, q)
          BY <1>6, <3>3 DEF Resets, IsLine
        <5> QED
          BY <1>0, <1>2, <2>1, <4>1, <4>3, <5>1, FollowsWhenTold DEF TabsInv, TabTypes
      <4>4. CASE AskedFor(q)
        BY <1>0, <1>2, <1>3, <2>1, <4>4, AskedWhenTold
           DEF AskedFor, LogAsked, TabsInv, TabTypes, Listing
      <4> QED
        BY <4>2, <4>3, <4>4
    <3> QED
      BY <3>2, <3>3
  <2> QED
    BY <1>7, <1>9, <1>10, <1>11, <2>2, <2>3 DEF TabsInv
<1> QED
  BY <1>0, <1>12, <1>13 DEF TabsInv, TabTypes

-----------------------------------------------------------------------------
(* Questions come and go; what is not asked by this page matters to        *)
(* nobody.                                                                 *)
LEMMA QuestionsKeep ==
    ASSUME TabsInv,
           UNCHANGED <<tabRows, log, wired, lives, lines, toPage, page, shown, logs, reloads>>,
           creating' \in Seq(Ports), toMain' \in Seq(Asking),
           page = "shown" => /\ Listing => Listing'
                             /\ \A id : LogAsked(id) => LogAsked(id)'
    PROVE  TabsInv'
<1>1. TabTypes'
  BY DEF TabsInv, TabTypes
<1>2. NamedOnce' /\ LinesInOrder' /\ Traced'
  BY DEF TabsInv, NamedOnce, LinesInOrder, Traced
<1>3. TabsFollow'
  <2>1. \A id : WillBeShown(id)' <=> WillBeShown(id)
    BY DEF WillBeShown, SaysIn, SaysOut
  <2> QED
    BY <2>1 DEF TabsInv, TabsFollow
<1>4. LogsFollow'
  <2>1. \A id : Follows(id)' <=> Follows(id)
    BY DEF Follows, FollowsFrom, Resets, IsLine, Base, NewLog
  <2>2. \A id : InList(id)' <=> InList(id)
    BY DEF InList
  <2> QED
    BY <2>1, <2>2 DEF TabsInv, LogsFollow, AskedFor
<1> QED
  BY <1>1, <1>2, <1>3, <1>4 DEF TabsInv

(* The main process chooses the port of a creation.                        *)
LEMMA BeginsIs == TabTypes /\ Begins => creating' \in Seq(Ports)
BY FreePortIsOne, AppendedIs DEF TabTypes, Begins

(* The user's clicks ask for no list and no log.                           *)
LEMMA ClickKeeps == TabsInv /\ Click => TabsInv'
<1>1. SUFFICES ASSUME TabsInv, Click PROVE TabsInv'
  OBVIOUS
<1>2. /\ UNCHANGED <<tabRows, log, wired, lives, lines, toPage, page, shown, logs, reloads>>
      /\ creating' = creating
  BY <1>1 DEF Click, mainVars
<1>3. TabTypes
  BY <1>1 DEF TabsInv
<1>4. PICK m \in Asking : toMain' = Append(toMain, m)
  <2>1. ToSet(shown) \subseteq Ports
    BY <1>3, ElementsAre DEF TabTypes
  <2> QED
    BY <1>1, <2>1 DEF Click, Ask, Asking
<1>5. toMain' = toMain \o <<m>> /\ toMain' \in Seq(Asking) /\ <<m>> \in Seq(Asking)
  BY <1>3, <1>4 DEF TabTypes
<1>6. (Listing => Listing') /\ \A id : LogAsked(id) => LogAsked(id)'
  BY <1>2, <1>3, <1>5, AskedWhenAsked DEF TabTypes
<1> QED
  BY <1>1, <1>2, <1>3, <1>5, <1>6, QuestionsKeep DEF TabTypes

(* A page that mounts asks for the list.                                   *)
LEMMA MountKeeps == TabsInv /\ Mount => TabsInv'
<1>1. SUFFICES ASSUME TabsInv, Mount PROVE TabsInv'
  OBVIOUS
<1> DEFINE m == [type |-> "list", asker |-> reloads]
<1>2. /\ UNCHANGED <<tabRows, log, wired, lives, lines, toPage, reloads>>
      /\ toPage = <<>> /\ shown' = <<>> /\ page' = "shown"
      /\ toMain' = Append(toMain, m)
      /\ logs' = [p \in Ports |-> <<>>]
  BY <1>1 DEF Mount, Ask, bounds, TabsInv, LinesInOrder
<1>3. TabTypes /\ m \in Asking
  BY <1>1 DEF TabsInv, TabTypes, Asking
<1>4. creating' \in Seq(Ports)
  BY <1>1, <1>3, BeginsIs DEF Mount, TabTypes
<1>5. TabTypes'
  <2>1. logs' \in [Ports -> Seq(Nat)] /\ shown' \in Seq(Ports)
    BY <1>2, EmptySeq
  <2>2. toMain' \in Seq(Asking)
    BY <1>2, <1>3 DEF TabTypes
  <2> QED
    BY <1>2, <1>3, <1>4, <2>1, <2>2 DEF TabTypes
<1>6. NamedOnce' /\ LinesInOrder' /\ Traced'
  BY <1>1, <1>2 DEF TabsInv, NamedOnce, Distinct, LinesInOrder, Traced
<1>7. Listing'
  <2>1. /\ toMain \in Seq(Asking) /\ Len(toMain) + 1 \in (DOMAIN toMain)'
        /\ toMain'[Len(toMain) + 1] = m
    BY <1>2, <1>3 DEF TabTypes
  <2>2. m.type = "list" /\ m.asker = reloads
    OBVIOUS
  <2> QED
    BY <1>2, <2>1, <2>2 DEF Listing
<1>8. \A id : ~WillBeShown(id)'
  BY <1>2 DEF WillBeShown, ToSet
<1> QED
  BY <1>5, <1>6, <1>7, <1>8 DEF TabsInv, TabsFollow, LogsFollow, AskedFor

(* A page that loads follows nothing yet.                                  *)
LEMMA ReloadKeeps == TabsInv /\ Reload => TabsInv'
<1>1. SUFFICES ASSUME TabsInv, Reload PROVE TabsInv'
  OBVIOUS
<1>2. /\ UNCHANGED <<tabRows, log, wired, lives, lines, toMain, shown, logs, creating>>
      /\ toPage' = <<>> /\ page' = "loading" /\ reloads' = reloads + 1
  BY <1>1 DEF Reload, mainVars
<1>3. TabTypes'
  BY <1>1, <1>2, EmptySeq DEF TabsInv, TabTypes
<1>4. NamedOnce' /\ LinesInOrder' /\ Traced'
  BY <1>1, <1>2 DEF TabsInv, NamedOnce, Distinct, LinesInOrder, Traced
<1> QED
  BY <1>2, <1>3, <1>4 DEF TabsInv, TabsFollow, LogsFollow

(* A notice puts no line into a buffer and takes none out of it.           *)
LEMMA NoticeKeepsLogs == logs \in [Ports -> Seq(Nat)] /\ addServiceLogLegacy => logs' = logs
BY DEF addServiceLogLegacy, Put

(* The user's commands neither.                                            *)
LEMMA ShortcutKeeps == TabsInv /\ Shortcut => TabsInv'
<1>1. SUFFICES ASSUME TabsInv, Shortcut PROVE TabsInv'
  OBVIOUS
<1>2. TabTypes
  BY <1>1 DEF TabsInv
<1>3. /\ UNCHANGED <<tabRows, log, wired, lives, lines, toPage, page, shown, logs, reloads>>
      /\ UNCHANGED <<creating, toMain>>
  BY <1>1, <1>2, NoticeKeepsLogs DEF Shortcut, addServiceLogLegacy, mainVars, TabTypes
<1>4. (Listing => Listing') /\ \A id : LogAsked(id) => LogAsked(id)'
  BY <1>3 DEF Listing, LogAsked
<1>5. creating' \in Seq(Ports) /\ toMain' \in Seq(Asking)
  BY <1>2, <1>3 DEF TabTypes
<1> QED
  BY <1>1, <1>3, <1>4, <1>5, QuestionsKeep

(* A line reaches the log and the page, or comes of an instance that is    *)
(* gone.                                                                   *)
LEMMA LineKeeps == TabsInv /\ Line => TabsInv'
<1>0. SUFFICES ASSUME TabsInv, Line PROVE TabsInv'
  OBVIOUS
<1>1. PICK id \in ToSet(tabRows) \cup wired :
        /\ \/ id \in ToSet(tabRows) /\ log' = [log EXCEPT ![id] = Append(@, lines')]
           \/ id \in wired /\ UNCHANGED log
        /\ SendsLine([type |-> "line", id |-> id, line |-> lines'])
  BY <1>0 DEF Line
<1> DEFINE m == [type |-> "line", id |-> id, line |-> lines + 1]
<1>2. /\ UNCHANGED <<tabRows, creating, wired, lives, toMain, page, shown, logs, reloads>>
      /\ lines' = lines + 1
  BY <1>0 DEF Line, pageVars, bounds
<1>3. TabTypes
  BY <1>0 DEF TabsInv
<1>4. id \in Ports /\ ToSet(tabRows) \subseteq Ports /\ lines \in Nat
  BY <1>1, <1>3, ElementsAre DEF TabTypes
<1>5. m \in Telling /\ m.type = "line" /\ m.id = id /\ m.line = lines + 1
  BY <1>4 DEF Telling
<1>6. toPage' = IF page = "shown" THEN Append(toPage, m) ELSE toPage
  BY <1>1, <1>2 DEF SendsLine
<1> HIDE DEF m
<1>7. /\ \A q \in Ports : q # id => log'[q] = log[q]
      /\ \/ id \in ToSet(tabRows) /\ log'[id] = Append(log[id], lines + 1)
         \/ id \in wired /\ log'[id] = log[id]
      /\ log' \in [Ports -> Seq(Nat)]
  <2>1. log[id] \in Seq(Nat) /\ lines + 1 \in Nat /\ log \in [Ports -> Seq(Nat)]
    BY <1>3, <1>4 DEF TabTypes
  <2>2. Append(log[id], lines + 1) \in Seq(Nat)
    BY <2>1
  <2>3. CASE id \in ToSet(tabRows) /\ log' = [log EXCEPT ![id] = Append(@, lines')]
    <3>1. log' = [log EXCEPT ![id] = Append(log[id], lines + 1)]
      BY <1>2, <2>3
    <3> QED
      BY <1>4, <2>1, <2>2, <2>3, <3>1
  <2>4. CASE id \in wired /\ log' = log
    BY <2>1, <2>4
  <2> QED
    BY <1>1, <2>3, <2>4
<1>8. TabTypes'
  <2>1. toPage' \in Seq(Telling)
    <3>1. toPage \in Seq(Telling)
      BY <1>3 DEF TabTypes
    <3>2. Append(toPage, m) \in Seq(Telling)
      BY <1>5, <3>1
    <3> QED
      BY <1>6, <3>1, <3>2
  <2>2. lines' \in Nat /\ log' \in [Ports -> Seq(Nat)]
    BY <1>2, <1>4, <1>7
  <2> QED
    BY <1>2, <1>3, <2>1, <2>2 DEF TabTypes
<1>9. \A i \in (DOMAIN toPage)' :
          \/ i \in DOMAIN toPage /\ toPage'[i] = toPage[i]
          \/ i = Len(toPage) + 1 /\ toPage'[i] = m
  <2>1. CASE page = "shown"
    BY <1>3, <1>5, <1>6, <2>1, ToldIs DEF TabTypes
  <2>2. CASE page # "shown"
    BY <1>6, <2>2
  <2> QED
    BY <2>1, <2>2
<1>10. NamedOnce' /\ Traced'
  BY <1>0, <1>2, <1>5, <1>9 DEF TabsInv, NamedOnce, Distinct, Traced
<1>11. LinesInOrder'
  <2>1. ASSUME NEW q \in Ports, NEW i \in DOMAIN log'[q]
        PROVE  /\ log'[q][i] <= lines + 1
               /\ \A j \in DOMAIN log'[q] : i < j => log'[q][i] < log'[q][j]
    <3>1. log[q] \in Seq(Nat)
      BY <1>3 DEF TabTypes
    <3>2. \A k \in DOMAIN log[q] : log[q][k] <= lines /\ log[q][k] \in Nat
      BY <1>0, <3>1 DEF TabsInv, LinesInOrder
    <3>3. \A k \in DOMAIN log[q] : \A j \in DOMAIN log[q] : k < j => log[q][k] < log[q][j]
      BY <1>0 DEF TabsInv, LinesInOrder
    <3>4. CASE log'[q] = log[q]
      BY <1>4, <2>1, <3>2, <3>3, <3>4
    <3>5. CASE log'[q] = Append(log[q], lines + 1)
      <4>1. /\ DOMAIN log[q] = 1..Len(log[q]) /\ DOMAIN log'[q] = 1..(Len(log[q])+1)
            /\ Len(log[q]) \in Nat
            /\ \A j \in 1..Len(log[q]) : log'[q][j] = log[q][j]
            /\ log'[q][Len(log[q]) + 1] = lines + 1
        BY <1>4, <3>1, <3>5
      <4>2. CASE i = Len(log[q]) + 1
        BY <1>4, <4>1, <4>2
      <4>3. CASE i \in 1..Len(log[q])
        <5>1. log'[q][i] <= lines /\ log'[q][i] \in Nat
          BY <3>2, <4>1, <4>3
        <5>2. ASSUME NEW j \in DOMAIN log'[q], i < j PROVE log'[q][i] < log'[q][j]
          <6>1. CASE j = Len(log[q]) + 1
            BY <1>4, <4>1, <5>1, <6>1
          <6>2. CASE j \in 1..Len(log[q])
            BY <3>3, <4>1, <4>3, <5>2, <6>2
          <6> QED
            BY <4>1, <5>2, <6>1, <6>2
        <5> QED
          BY <1>4, <5>1, <5>2
      <4> QED
        BY <2>1, <4>1, <4>2, <4>3
    <3> QED
      BY <1>4, <1>7, <3>4, <3>5
  <2>2. page = "loading" => toPage' = <<>>
    BY <1>0, <1>6 DEF TabsInv, LinesInOrder
  <2>3. ASSUME NEW i \in (DOMAIN toPage)', toPage'[i].type = "line"
        PROVE  /\ toPage'[i].line <= lines + 1
               /\ \A j \in (DOMAIN toPage)' :
                      i < j /\ toPage'[j].type = "line" => toPage'[i].line < toPage'[j].line
    <3>1. CASE i = Len(toPage) + 1 /\ toPage'[i] = m
      <4>1. Len(toPage) \in Nat /\ DOMAIN toPage = 1..Len(toPage)
        BY <1>3 DEF TabTypes
      <4>2. \A j \in (DOMAIN toPage)' : ~(i < j)
        BY <1>9, <3>1, <4>1
      <4> QED
        BY <1>4, <1>5, <3>1, <4>2
    <3>2. CASE i \in DOMAIN toPage /\ toPage'[i] = toPage[i]
      <4>1. toPage[i].line <= lines /\ toPage[i].line \in Nat
        <5>1. toPage[i] \in Telling
          BY <1>3, <3>2 DEF TabTypes
        <5> QED
          BY <1>0, <2>3, <3>2, <5>1 DEF TabsInv, LinesInOrder, Telling
      <4>2. ASSUME NEW j \in (DOMAIN toPage)', i < j, toPage'[j].type = "line"
            PROVE  toPage'[i].line < toPage'[j].line
        <5>1. CASE j \in DOMAIN toPage /\ toPage'[j] = toPage[j]
          BY <1>0, <2>3, <3>2, <4>2, <5>1 DEF TabsInv, LinesInOrder
        <5>2. CASE toPage'[j] = m
          BY <1>4, <1>5, <3>2, <4>1, <5>2
        <5> QED
          BY <1>9, <5>1, <5>2
      <4> QED
        BY <1>4, <3>2, <4>1, <4>2
    <3> QED
      BY <1>9, <3>1, <3>2
  <2> QED
    BY <1>2, <2>1, <2>2, <2>3 DEF LinesInOrder
<1>12. CASE page = "loading"
  BY <1>0, <1>2, <1>6, <1>8, <1>10, <1>11, <1>12, LoadingKeeps DEF TabsInv
<1>13. CASE page = "shown"
  <2>1. toPage' = Append(toPage, m) /\ toPage \in Seq(Telling)
    BY <1>3, <1>6, <1>13 DEF TabTypes
  <2>2. TabsFollow'
    <3>1. \A q : ~SaysIn(m, q) /\ ~SaysOut(m, q)
      BY <1>5 DEF SaysIn, SaysOut
    <3>2. \A q : WillBeShown(q)' <=> WillBeShown(q)
      BY <1>2, <1>5, <2>1, <3>1, ShownWhenTold
    <3>3. Listing' <=> Listing
      BY <1>2 DEF Listing
    <3> QED
      BY <1>0, <1>2, <1>13, <3>2, <3>3 DEF TabsInv, TabsFollow
  <2>3. LogsFollow'
    <3>1. SUFFICES ASSUME NEW q \in ToSet(tabRows), lives[q] = 1
                   PROVE  Follows(q)' \/ AskedFor(q)'
      BY <1>2 DEF LogsFollow
    <3>2. q \in Ports /\ logs'[q] = logs[q] /\ log[q] \in Seq(Nat)
      BY <1>2, <1>3, <1>4 DEF TabTypes
    <3>3. Follows(q) \/ AskedFor(q)
      BY <1>0, <1>13, <3>1 DEF TabsInv, LogsFollow
    <3>4. CASE AskedFor(q)
      BY <1>2, <1>5, <2>1, <3>4, AskedWhenTold DEF AskedFor, LogAsked, Listing
    <3>5. CASE Follows(q) /\ q # id
      <4>1. ~Resets(m, q) /\ ~IsLine(m, q) /\ log'[q] = log[q]
        BY <1>5, <1>7, <3>2, <3>5 DEF Resets, IsLine
      <4> QED
        BY <1>5, <2>1, <3>2, <3>5, <4>1, FollowsWhenTold
    <3>6. CASE Follows(q) /\ q = id
      <4>1. q \notin wired
        BY <1>0, <3>1 DEF TabsInv, Traced
      <4>2. log'[q] = Append(log[q], m.line) /\ IsLine(m, q)
        BY <1>5, <1>7, <3>6, <4>1 DEF IsLine
      <4>3. \A r \in 0..Len(toPage) : FollowsFrom(q, r) => Base(q, r) \in Seq(Nat)
        BY <1>3, <3>2, BasesAreLines
      <4> QED
        BY <1>5, <2>1, <3>2, <3>6, <4>2, <4>3, FollowsWhenLogged
    <3> QED
      BY <3>3, <3>4, <3>5, <3>6
  <2> QED
    BY <1>8, <1>10, <1>11, <2>2, <2>3 DEF TabsInv
<1> QED
  BY <1>3, <1>12, <1>13 DEF TabTypes

(* A message that is no line leaves the order as it is.                    *)
LEMMA ToldKeeps ==
    ASSUME TabsInv, NEW m \in Telling, toPage' = Append(toPage, m), page = "shown",
           UNCHANGED <<log, lives, lines, page, shown, logs, reloads>>,
           m.type # "line", m.type = "list" => Distinct(m.ids),
           m.type = "removed" => m.id \in wired',
           tabRows' \in Seq(Ports), Distinct(tabRows'), creating' \in Seq(Ports),
           toMain' \in Seq(Asking), wired \subseteq wired', wired' \subseteq Ports,
           \A q \in ToSet(tabRows') \cup wired' : lives[q] >= 1,
           \A q \in ToSet(tabRows') \cap wired' : lives[q] >= 2
    PROVE  TabTypes' /\ NamedOnce' /\ LinesInOrder' /\ Traced'
<1>1. toPage \in Seq(Telling)
  BY DEF TabsInv, TabTypes
<1>2. /\ toPage' \in Seq(Telling)
      /\ \A i \in (DOMAIN toPage)' :
            \/ i \in DOMAIN toPage /\ toPage'[i] = toPage[i]
            \/ i = Len(toPage) + 1 /\ toPage'[i] = m
  BY <1>1, ToldIs
<1>3. TabTypes'
  BY <1>2 DEF TabsInv, TabTypes
<1>4. NamedOnce'
  BY <1>2 DEF TabsInv, NamedOnce, Distinct
<1>5. LinesInOrder'
  BY <1>2 DEF TabsInv, LinesInOrder
<1>6. Traced'
  BY <1>2 DEF TabsInv, Traced
<1> QED
  BY <1>3, <1>4, <1>5, <1>6

(* A notice that is sent says nothing of instances and logs.               *)
LEMMA NoticeKeeps == TabsInv /\ Notice => TabsInv'
<1>0. SUFFICES ASSUME TabsInv, Notice PROVE TabsInv'
  OBVIOUS
<1>1. TabTypes
  BY <1>0 DEF TabsInv
<1> DEFINE m == [type |-> "notice"]
<1>2. /\ UNCHANGED <<tabRows, log, wired, lives, creating>>
      /\ UNCHANGED <<lines, toMain, page, shown, logs, reloads>>
      /\ toPage' = IF page = "shown" THEN Append(toPage, m) ELSE toPage
  BY <1>0 DEF Notice, SendsLine, mainVars, pageVars, bounds
<1>3. m \in Telling /\ m.type = "notice"
  BY DEF Telling
<1> HIDE DEF m
<1>4. (Listing => Listing') /\ \A id : LogAsked(id) => LogAsked(id)'
  BY <1>2 DEF Listing, LogAsked
<1>5. creating' \in Seq(Ports) /\ toMain' \in Seq(Asking)
  BY <1>1, <1>2 DEF TabTypes
<1>6. CASE page # "shown"
  <2>1. toPage' = toPage
    BY <1>2, <1>6
  <2> QED
    BY <1>0, <1>2, <1>4, <1>5, <2>1, QuestionsKeep
<1>7. CASE page = "shown"
  <2>1. toPage' = Append(toPage, m) /\ toPage \in Seq(Telling)
    BY <1>1, <1>2, <1>7 DEF TabTypes
  <2>2. TabTypes' /\ NamedOnce' /\ LinesInOrder' /\ Traced'
    <3>1. /\ \A q \in ToSet(tabRows') \cup wired' : lives[q] >= 1
          /\ \A q \in ToSet(tabRows') \cap wired' : lives[q] >= 2
      BY <1>0, <1>2 DEF TabsInv, Traced
    <3>2. /\ wired \subseteq wired' /\ wired' \subseteq Ports
          /\ tabRows' \in Seq(Ports) /\ Distinct(tabRows')
      BY <1>0, <1>1, <1>2 DEF TabsInv, TabTypes, NamedOnce
    <3> QED
      BY <1>0, <1>2, <1>3, <1>5, <1>7, <2>1, <3>1, <3>2, ToldKeeps
  <2>3. TabsFollow'
    <3>1. \A q : ~SaysIn(m, q) /\ ~SaysOut(m, q)
      BY <1>3 DEF SaysIn, SaysOut
    <3>2. \A q : WillBeShown(q)' <=> WillBeShown(q)
      BY <1>2, <1>3, <2>1, <3>1, ShownWhenTold
    <3> QED
      BY <1>0, <1>2, <1>4, <1>7, <3>2 DEF TabsInv, TabsFollow
  <2>4. LogsFollow'
    <3>1. SUFFICES ASSUME NEW q \in ToSet(tabRows), lives[q] = 1
                   PROVE  Follows(q)' \/ AskedFor(q)'
      BY <1>2 DEF LogsFollow
    <3>2. log'[q] = log[q] /\ logs'[q] = logs[q] /\ ~Resets(m, q) /\ ~IsLine(m, q)
      BY <1>2, <1>3 DEF Resets, IsLine
    <3>3. Follows(q) => Follows(q)'
      BY <1>3, <2>1, <3>2, FollowsWhenTold
    <3>4. InList(q) => InList(q)'
      BY <1>3, <2>1, AskedWhenTold
    <3> QED
      BY <1>0, <1>4, <1>7, <3>1, <3>3, <3>4 DEF TabsInv, LogsFollow, AskedFor
  <2> QED
    BY <2>2, <2>3, <2>4 DEF TabsInv
<1> QED
  BY <1>6, <1>7

(* Questions are answered in order: the answer of the head takes its       *)
(* place, of this page or of none.                                         *)
LEMMA HandleInstanceKeeps == TabsInv /\ HandleInstance => TabsInv'
<1>0. SUFFICES ASSUME TabsInv, HandleInstance PROVE TabsInv'
  OBVIOUS
<1>1. TabTypes
  BY <1>0 DEF TabsInv
<1> PICK a \in Asking : a = Head(toMain)
  BY <1>0, <1>1 DEF HandleInstance, TabTypes
<1>2. /\ toMain # <<>> /\ toMain' = Tail(toMain) /\ toMain' \in Seq(Asking)
      /\ UNCHANGED <<lines, page, shown, logs, reloads>>
  BY <1>0, <1>1 DEF HandleInstance, pageVars, bounds, TabTypes
<1>3. /\ Listing => Listing' \/ (a.type = "list" /\ a.asker = reloads)
      /\ \A id : LogAsked(id) =>
             LogAsked(id)' \/ (a.type = "getLogs" /\ a.id = id /\ a.asker = reloads)
  BY <1>1, <1>2, AskedWhenServed DEF TabTypes
<1>4. ASSUME UNCHANGED <<tabRows, log, wired, lives, toPage>>, creating' \in Seq(Ports),
             page = "shown" => a.type \notin {"list", "getLogs"} \/ a.asker # reloads
      PROVE  TabsInv'
  BY <1>0, <1>2, <1>3, <1>4, QuestionsKeep
<1>5. creating \in Seq(Ports) /\ tabRows \in Seq(Ports) /\ log \in [Ports -> Seq(Nat)]
  BY <1>1 DEF TabTypes
<1>6. CASE a.type = "list" /\ ListInstances(a.asker)
  <2> DEFINE m == [type |-> "list", ids |-> tabRows]
  <2>1. /\ UNCHANGED <<tabRows, log, wired, lives, creating>>
        /\ toPage' = IF page = "shown" /\ a.asker = reloads THEN Append(toPage, m) ELSE toPage
    BY <1>6 DEF ListInstances, AnswersPage, mainVars
  <2>2. m \in Telling /\ m.type = "list" /\ m.ids = tabRows
    BY <1>5 DEF Telling
  <2> HIDE DEF m
  <2>3. CASE ~(page = "shown" /\ a.asker = reloads)
    BY <1>4, <1>5, <2>1, <2>3
  <2>4. CASE page = "shown" /\ a.asker = reloads
    <3>1. toPage' = Append(toPage, m)
      BY <2>1, <2>4
    <3>2. TabTypes' /\ NamedOnce' /\ LinesInOrder' /\ Traced'
      <4>1. Distinct(m.ids)
        BY <1>0, <2>2 DEF TabsInv, NamedOnce
      <4>2. /\ \A q \in ToSet(tabRows') \cup wired' : lives[q] >= 1
            /\ \A q \in ToSet(tabRows') \cap wired' : lives[q] >= 2
        BY <1>0, <2>1 DEF TabsInv, Traced
      <4>3. wired \subseteq wired' /\ wired' \subseteq Ports /\ Distinct(tabRows')
        BY <1>0, <1>1, <2>1 DEF TabsInv, TabTypes, NamedOnce
      <4> QED
        BY <1>0, <1>2, <1>5, <2>1, <2>2, <2>4, <3>1, <4>1, <4>2, <4>3, ToldKeeps
    <3>3. \A q : WillBeShown(q)' <=> SaysIn(m, q) \/ (WillBeShown(q) /\ ~SaysOut(m, q))
      BY <1>1, <1>2, <2>2, <3>1, ShownWhenTold DEF TabTypes
    <3>4. \A q : SaysIn(m, q) <=> q \in ToSet(tabRows)
      BY <2>2 DEF SaysIn
    <3>5. \A q : q \in ToSet(tabRows) \/ SaysOut(m, q) \/ tabRows = <<>>
      BY <2>2 DEF SaysOut
    <3>6. TabsFollow'
      BY <1>0, <1>2, <2>1, <2>4, <3>3, <3>4, <3>5 DEF TabsInv, TabsFollow
    <3>7. \A q \in ToSet(tabRows) : InList(q)'
      <4>1. Len(toPage) + 1 \in (DOMAIN toPage)' /\ toPage'[Len(toPage) + 1] = m
        BY <1>1, <3>1 DEF TabTypes
      <4> QED
        BY <2>2, <4>1 DEF InList
    <3>8. LogsFollow'
      BY <2>1, <3>7 DEF LogsFollow, AskedFor
    <3> QED
      BY <3>2, <3>6, <3>8 DEF TabsInv
  <2> QED
    BY <2>3, <2>4
<1>7. CASE a.type = "getLogs" /\ GetLogs(a.id, a.asker)
  <2> PICK id \in Ports : id = a.id
    BY <1>7 DEF Asking
  <2> DEFINE m == [type |-> "logs", id |-> id,
                   lines |-> IF id \in ToSet(tabRows) THEN log[id] ELSE <<>>]
  <2>1. /\ UNCHANGED <<tabRows, log, wired, lives, creating>>
        /\ toPage' = IF page = "shown" /\ a.asker = reloads THEN Append(toPage, m) ELSE toPage
    BY <1>7 DEF GetLogs, AnswersPage, mainVars
  <2>2. /\ m \in Telling /\ m.type = "logs" /\ m.id = id
        /\ m.lines = IF id \in ToSet(tabRows) THEN log[id] ELSE <<>>
    <3>1. (IF id \in ToSet(tabRows) THEN log[id] ELSE <<>>) \in Seq(Nat)
      BY <1>5, EmptySeq
    <3> QED
      BY <3>1 DEF Telling
  <2> HIDE DEF m
  <2>3. CASE ~(page = "shown" /\ a.asker = reloads)
    BY <1>4, <1>5, <2>1, <2>3
  <2>4. CASE page = "shown" /\ a.asker = reloads
    <3>1. toPage' = Append(toPage, m)
      BY <2>1, <2>4
    <3>2. TabTypes' /\ NamedOnce' /\ LinesInOrder' /\ Traced'
      <4>1. /\ \A q \in ToSet(tabRows') \cup wired' : lives[q] >= 1
            /\ \A q \in ToSet(tabRows') \cap wired' : lives[q] >= 2
        BY <1>0, <2>1 DEF TabsInv, Traced
      <4>2. wired \subseteq wired' /\ wired' \subseteq Ports /\ Distinct(tabRows')
        BY <1>0, <1>1, <2>1 DEF TabsInv, TabTypes, NamedOnce
      <4> QED
        BY <1>0, <1>2, <1>5, <2>1, <2>2, <2>4, <3>1, <4>1, <4>2, ToldKeeps
    <3>3. TabsFollow'
      <4>1. \A q : ~SaysIn(m, q) /\ ~SaysOut(m, q)
        BY <2>2 DEF SaysIn, SaysOut
      <4>2. \A q : WillBeShown(q)' <=> WillBeShown(q)
        BY <1>1, <1>2, <2>2, <3>1, <4>1, ShownWhenTold DEF TabTypes
      <4>3. Listing => Listing'
        BY <1>3, <1>7
      <4> QED
        BY <1>0, <1>2, <2>1, <2>4, <4>2, <4>3 DEF TabsInv, TabsFollow
    <3>4. LogsFollow'
      <4>1. SUFFICES ASSUME NEW q \in ToSet(tabRows), lives[q] = 1
                     PROVE  Follows(q)' \/ AskedFor(q)'
        BY <2>1 DEF LogsFollow
      <4>2. q \in Ports /\ log'[q] = log[q] /\ logs'[q] = logs[q]
        BY <1>2, <1>5, <2>1, ElementsAre
      <4>3. CASE q = id
        <5>1. Resets(m, q) /\ NewLog(m) = log'[q] /\ log'[q] \in Seq(Nat)
          BY <1>5, <2>2, <4>1, <4>2, <4>3 DEF Resets, NewLog
        <5> QED
          BY <1>1, <2>2, <3>1, <5>1, FollowsWhenReset DEF TabTypes
      <4>4. CASE q # id
        <5>1. Follows(q) \/ AskedFor(q)
          BY <1>0, <2>4, <4>1 DEF TabsInv, LogsFollow
        <5>2. CASE Follows(q)
          <6>1. ~Resets(m, q) /\ ~IsLine(m, q)
            BY <2>2, <4>4 DEF Resets, IsLine
          <6> QED
            BY <1>1, <2>2, <3>1, <4>2, <5>2, <6>1, FollowsWhenTold DEF TabTypes
        <5>3. CASE Listing \/ LogAsked(q)
          BY <1>3, <1>7, <4>4, <5>3 DEF AskedFor
        <5>4. CASE InList(q)
          <6>1. toPage \in Seq(Telling) /\ toPage' \in {toPage, Append(toPage, m)}
            BY <1>1, <3>1 DEF TabTypes
          <6> QED
            BY <2>2, <5>4, <6>1, AskedWhenTold DEF AskedFor
        <5> QED
          BY <5>1, <5>2, <5>3, <5>4 DEF AskedFor
      <4> QED
        BY <4>3, <4>4
    <3> QED
      BY <3>2, <3>3, <3>4 DEF TabsInv
  <2> QED
    BY <2>3, <2>4
<1>8. CASE a.type = "setActive" /\ SelectTab(a.id)
  BY <1>4, <1>5, <1>8 DEF SelectTab
<1>9. CASE a.type = "create" /\ Create
  BY <1>1, <1>4, <1>9, BeginsIs DEF Create
<1>10. CASE a.type = "remove" /\ RemoveInstance(a.id)
  <2> PICK id \in Ports : id = a.id
    BY <1>10 DEF Asking
  <2>1. CASE id \notin ToSet(tabRows)
    BY <1>4, <1>5, <1>10, <2>1 DEF RemoveInstance, mainVars
  <2>2. CASE id \in ToSet(tabRows)
    <3> DEFINE m == [type |-> "removed", id |-> id]
    <3>1. /\ UNCHANGED <<log, lives, creating>>
          /\ tabRows' = Without(tabRows, id) /\ wired' = wired \cup {id}
          /\ toPage' = IF page = "shown" THEN Append(toPage, m) ELSE toPage
      BY <1>10, <2>2 DEF RemoveInstance, SendsLine
    <3>2. m \in Telling /\ m.type = "removed" /\ m.id = id
      BY DEF Telling
    <3> HIDE DEF m
    <3>3. /\ tabRows' \in Seq(Ports) /\ Distinct(tabRows')
          /\ ToSet(tabRows') = ToSet(tabRows) \ {id}
      BY <1>0, <1>5, <3>1, WithoutIs DEF TabsInv, NamedOnce
    <3>4. /\ wired \subseteq wired' /\ wired' \subseteq Ports /\ creating' \in Seq(Ports)
          /\ \A q \in ToSet(tabRows') \cup wired' : lives[q] >= 1
          /\ \A q \in ToSet(tabRows') \cap wired' : lives[q] >= 2
      BY <1>0, <1>1, <2>2, <3>1, <3>3 DEF TabsInv, TabTypes, Traced
    <3>5. CASE page = "shown"
      <4>1. toPage' = Append(toPage, m)
        BY <3>1, <3>5
      <4>2. TabTypes' /\ NamedOnce' /\ LinesInOrder' /\ Traced'
        <5>1. m.id \in wired'
          BY <3>1, <3>2
        <5> QED
          BY <1>0, <1>2, <3>1, <3>2, <3>3, <3>4, <3>5, <4>1, <5>1, ToldKeeps
      <4>3. Listing => Listing'
        BY <1>3, <1>10
      <4>4. TabsFollow'
        <5>1. \A q : WillBeShown(q)' <=> SaysIn(m, q) \/ (WillBeShown(q) /\ ~SaysOut(m, q))
          BY <1>1, <1>2, <3>2, <4>1, ShownWhenTold DEF TabTypes
        <5>2. \A q : ~SaysIn(m, q) /\ (SaysOut(m, q) <=> q = id)
          BY <3>2 DEF SaysIn, SaysOut
        <5> QED
          BY <1>0, <1>2, <3>3, <3>5, <4>3, <5>1, <5>2 DEF TabsInv, TabsFollow
      <4>5. LogsFollow'
        <5>1. SUFFICES ASSUME NEW q \in ToSet(tabRows), q # id, lives[q] = 1
                       PROVE  Follows(q)' \/ AskedFor(q)'
          BY <3>1, <3>3 DEF LogsFollow
        <5>2. q \in Ports /\ log'[q] = log[q] /\ logs'[q] = logs[q]
          BY <1>2, <1>5, <3>1, ElementsAre
        <5>3. Follows(q) \/ AskedFor(q)
          BY <1>0, <3>5, <5>1 DEF TabsInv, LogsFollow
        <5>4. CASE Follows(q)
          <6>1. ~Resets(m, q) /\ ~IsLine(m, q)
            BY <3>2 DEF Resets, IsLine
          <6> QED
            BY <1>1, <3>2, <4>1, <5>2, <5>4, <6>1, FollowsWhenTold DEF TabTypes
        <5>5. CASE Listing \/ LogAsked(q)
          BY <1>3, <1>10, <5>5 DEF AskedFor
        <5>6. CASE InList(q)
          <6>1. toPage \in Seq(Telling) /\ toPage' \in {toPage, Append(toPage, m)}
            BY <1>1, <4>1 DEF TabTypes
          <6> QED
            BY <3>2, <5>6, <6>1, AskedWhenTold DEF AskedFor
        <5> QED
          BY <5>3, <5>4, <5>5, <5>6 DEF AskedFor
      <4> QED
        BY <4>2, <4>4, <4>5 DEF TabsInv
    <3>6. CASE page = "loading"
      <4>1. toPage' = toPage
        BY <3>1, <3>6
      <4>2. TabsFollow' /\ LogsFollow' /\ toPage' = <<>>
        BY <1>0, <1>2, <3>6, <4>1, LoadingKeeps
      <4>3. TabTypes'
        BY <1>1, <1>2, <3>1, <3>3, <3>4, <4>1 DEF TabTypes
      <4>4. NamedOnce'
        BY <1>0, <1>2, <3>3, <4>1 DEF TabsInv, NamedOnce, Distinct
      <4>5. LinesInOrder'
        BY <1>0, <1>2, <3>1, <4>1 DEF TabsInv, LinesInOrder
      <4>6. Traced'
        BY <1>0, <3>1, <3>4, <4>1 DEF TabsInv, Traced
      <4> QED
        BY <4>2, <4>3, <4>4, <4>5, <4>6 DEF TabsInv
    <3> QED
      BY <1>1, <3>5, <3>6 DEF TabTypes
  <2> QED
    BY <2>1, <2>2
<1>11. \/ a.type = "list" /\ ListInstances(a.asker)
       \/ a.type = "getLogs" /\ GetLogs(a.id, a.asker)
       \/ a.type = "setActive" /\ SelectTab(a.id)
       \/ a.type = "remove" /\ RemoveInstance(a.id)
       \/ a.type = "create" /\ Create
  BY <1>0 DEF HandleInstance
<1> QED
  BY <1>6, <1>7, <1>8, <1>9, <1>10, <1>11

(* A message leaves the page with the tabs it says,                        *)
LEMMA TabsWhenTaken ==
    ASSUME TabTypes, NamedOnce, Receive, NEW m \in Telling, m = Head(toPage)
    PROVE  /\ shown' \in Seq(Ports) /\ Distinct(shown')
           /\ \A q : q \in ToSet(shown)' <=> SaysIn(m, q) \/ (q \in ToSet(shown) /\ ~SaysOut(m, q))
<1>1. shown \in Seq(Ports) /\ Distinct(shown)
  BY DEF TabTypes, NamedOnce
<1>2. CASE m.type = "created" /\ InstanceCreated(m.id)
  <2>1. /\ m.id \in Ports
        /\ shown' = IF m.id \in ToSet(shown) THEN shown ELSE Append(shown, m.id)
    BY <1>2 DEF InstanceCreated, Telling
  <2>2. /\ shown' \in Seq(Ports) /\ Distinct(shown')
        /\ ToSet(shown') = ToSet(shown) \cup {m.id}
    BY <1>1, <2>1, AppendedIs
  <2> QED
    BY <1>2, <2>2 DEF SaysIn, SaysOut
<1>3. CASE m.type = "removed" /\ InstanceRemoved(m.id)
  <2>1. shown' = Without(shown, m.id)
    BY <1>3 DEF InstanceRemoved
  <2>2. /\ shown' \in Seq(Ports) /\ Distinct(shown')
        /\ ToSet(shown') = ToSet(shown) \ {m.id}
    BY <1>1, <2>1, WithoutIs
  <2> QED
    BY <1>3, <2>2 DEF SaysIn, SaysOut
<1>4. CASE m.type = "line" /\ appendInstanceLog(m.id, m.line)
  BY <1>1, <1>4 DEF appendInstanceLog, SaysIn, SaysOut
<1>5. CASE m.type = "logs" /\ Logged(m.id, m.lines)
  BY <1>1, <1>5 DEF Logged, SaysIn, SaysOut
<1>7. CASE m.type = "notice" /\ addServiceLogLegacy
  BY <1>1, <1>7 DEF addServiceLogLegacy, SaysIn, SaysOut
<1>6. CASE m.type = "list" /\ Listed(m.ids)
  <2>1. m.ids \in Seq(Ports) /\ Distinct(m.ids)
    <3>1. 1 \in DOMAIN toPage /\ toPage[1] = m
      BY DEF Receive, TabTypes
    <3> QED
      BY <1>6, <3>1 DEF NamedOnce, Telling
  <2>2. CASE m.ids = <<>>
    <3>1. shown' = shown /\ ToSet(m.ids) = {}
      BY <1>6, <2>2 DEF Listed, ToSet
    <3> QED
      BY <1>1, <1>6, <2>2, <3>1 DEF SaysIn, SaysOut
  <2>3. CASE m.ids # <<>>
    <3>1. shown' = m.ids
      BY <1>6, <2>3 DEF Listed
    <3> QED
      BY <1>6, <2>1, <2>3, <3>1 DEF SaysIn, SaysOut
  <2> QED
    BY <2>2, <2>3
<1> QED
  BY <1>2, <1>3, <1>4, <1>5, <1>6, <1>7 DEF Receive

(* with the logs it says,                                                  *)
LEMMA LogsWhenTaken ==
    ASSUME TabTypes, Receive, NEW m \in Telling, m = Head(toPage)
    PROVE  /\ logs' \in [Ports -> Seq(Nat)]
           /\ \A q \in Ports : ~(m.type = "removed" /\ m.id = q) =>
                 logs'[q] = IF Resets(m, q) THEN NewLog(m)
                            ELSE IF IsLine(m, q) THEN Append(logs[q], m.line) ELSE logs[q]
<1>1. logs \in [Ports -> Seq(Nat)]
  BY DEF TabTypes
<1>2. CASE m.type = "created" /\ InstanceCreated(m.id)
  BY <1>1, <1>2, EmptySeq DEF InstanceCreated, Put, Resets, NewLog, IsLine
<1>3. CASE m.type = "removed" /\ InstanceRemoved(m.id)
  BY <1>1, <1>3, EmptySeq DEF InstanceRemoved, Resets, IsLine
<1>4. CASE m.type = "line" /\ appendInstanceLog(m.id, m.line)
  <2>1. m.id \in Ports /\ m.line \in Nat
    BY <1>4 DEF Telling
  <2>2. logs' = [logs EXCEPT ![m.id] = Append(logs[m.id], m.line)]
    BY <1>4 DEF appendInstanceLog, Put
  <2>3. Append(logs[m.id], m.line) \in Seq(Nat)
    BY <1>1, <2>1
  <2> QED
    BY <1>1, <1>4, <2>1, <2>2, <2>3 DEF Resets, IsLine
<1>5. CASE m.type = "logs" /\ Logged(m.id, m.lines)
  <2>1. m.id \in Ports /\ m.lines \in Seq(Nat)
    BY <1>5 DEF Telling
  <2>2. logs' = [logs EXCEPT ![m.id] = m.lines]
    BY <1>5 DEF Logged, Put
  <2> QED
    BY <1>1, <1>5, <2>1, <2>2 DEF Resets, IsLine, NewLog
<1>6. CASE m.type = "list" /\ Listed(m.ids)
  BY <1>1, <1>6 DEF Listed, Resets, IsLine
<1>7. CASE m.type = "notice" /\ addServiceLogLegacy
  BY <1>1, <1>7, NoticeKeepsLogs DEF Resets, IsLine
<1> QED
  BY <1>2, <1>3, <1>4, <1>5, <1>6, <1>7 DEF Receive

(* and, if it is the list, asking for the logs of its instances.           *)
LEMMA AskedWhenTaken ==
    ASSUME TabTypes, Receive, NEW m \in Telling, m = Head(toPage)
    PROVE  /\ toMain' \in Seq(Asking)
           /\ Listing => Listing'
           /\ \A q : LogAsked(q) \/ (m.type = "list" /\ q \in ToSet(m.ids)) => LogAsked(q)'
<1>1. toMain \in Seq(Asking) /\ reloads \in Nat /\ reloads' = reloads
  BY DEF TabTypes, Receive, bounds
<1>2. CASE m.type = "list" /\ Listed(m.ids) /\ m.ids # <<>>
  <2>1. m.ids \in Seq(Ports)
    BY <1>2 DEF Telling
  <2> DEFINE ask(i) == [type |-> "getLogs", id |-> m.ids[i], asker |-> reloads]
             a == [i \in DOMAIN m.ids |-> ask(i)]
  <2>2. toMain' = toMain \o a
    BY <1>2 DEF Listed
  <2>3. \A i \in DOMAIN m.ids : ask(i) \in Asking
    BY <1>1, <2>1 DEF Asking
  <2>4. /\ \A i \in DOMAIN m.ids : a[i] = ask(i)
        /\ a \in Seq(Asking) /\ Len(a) = Len(m.ids)
    <3> HIDE DEF ask
    <3>1. DOMAIN m.ids = 1..Len(m.ids) /\ Len(m.ids) \in Nat
      BY <2>1
    <3> QED
      BY <2>3, <3>1, IsASeq
  <2> HIDE DEF a
  <2>5. (Listing => Listing') /\ \A q : LogAsked(q) => LogAsked(q)'
    BY <1>1, <2>2, <2>4, AskedWhenAsked
  <2>6. /\ toMain' \in Seq(Asking)
        /\ \A i \in DOMAIN m.ids : /\ Len(toMain) + i \in (DOMAIN toMain)'
                                   /\ toMain'[Len(toMain) + i] = ask(i)
    BY <1>1, <2>1, <2>2, <2>4, ConcatProperties
  <2>7. ASSUME NEW q \in ToSet(m.ids) PROVE LogAsked(q)'
    <3>1. PICK i \in DOMAIN m.ids : m.ids[i] = q
      BY DEF ToSet
    <3>2. ask(i).type = "getLogs" /\ ask(i).id = q /\ ask(i).asker = reloads
      BY <3>1
    <3> HIDE DEF ask
    <3> QED
      BY <1>1, <2>6, <3>2 DEF LogAsked
  <2> QED
    BY <2>5, <2>6, <2>7
<1>3. CASE toMain' = toMain /\ (m.type = "list" => m.ids = <<>>)
  <2>1. m.type = "list" => ToSet(m.ids) = {}
    BY <1>3 DEF ToSet
  <2> QED
    BY <1>1, <1>3, <2>1 DEF Listing, LogAsked
<1> QED
  BY <1>2, <1>3 DEF Receive, Listed, InstanceCreated, InstanceRemoved, appendInstanceLog, Logged,
                    addServiceLogLegacy

(* A message that is taken leaves the page as it was told it would be.     *)
LEMMA ReceiveKeeps == TabsInv /\ Receive => TabsInv'
<1>0. SUFFICES ASSUME TabsInv, Receive PROVE TabsInv'
  OBVIOUS
<1>1. TabTypes /\ NamedOnce
  BY <1>0 DEF TabsInv
<1>2. /\ page = "shown" /\ page' = page /\ toPage # <<>> /\ toPage' = Tail(toPage)
      /\ UNCHANGED <<tabRows, log, creating, wired, lives, lines, reloads>>
  BY <1>0 DEF Receive, mainVars, bounds
<1> PICK m \in Telling : m = Head(toPage) /\ m = toPage[1]
  BY <1>1, <1>2 DEF TabTypes
<1>3. /\ shown' \in Seq(Ports) /\ Distinct(shown')
      /\ \A q : q \in ToSet(shown)' <=> SaysIn(m, q) \/ (q \in ToSet(shown) /\ ~SaysOut(m, q))
  BY <1>0, <1>1, TabsWhenTaken
<1>4. /\ logs' \in [Ports -> Seq(Nat)]
      /\ \A q \in Ports : ~(m.type = "removed" /\ m.id = q) =>
            logs'[q] = IF Resets(m, q) THEN NewLog(m)
                       ELSE IF IsLine(m, q) THEN Append(logs[q], m.line) ELSE logs[q]
  BY <1>0, <1>1, LogsWhenTaken
<1>5. /\ toMain' \in Seq(Asking)
      /\ Listing => Listing'
      /\ \A q : LogAsked(q) \/ (m.type = "list" /\ q \in ToSet(m.ids)) => LogAsked(q)'
  BY <1>0, <1>1, AskedWhenTaken
<1>6. /\ toPage \in Seq(Telling) /\ toPage' \in Seq(Telling)
      /\ \A i \in (DOMAIN toPage)' : i + 1 \in DOMAIN toPage /\ toPage'[i] = toPage[i + 1]
      /\ \A i \in DOMAIN toPage :
            i = 1 \/ (i - 1 \in (DOMAIN toPage)' /\ toPage'[i - 1] = toPage[i])
      /\ (DOMAIN toPage)' \subseteq Nat
      /\ 1 \in DOMAIN toPage
  BY <1>1, <1>2 DEF TabTypes
<1>7. TabTypes'
  BY <1>1, <1>2, <1>3, <1>4, <1>5, <1>6 DEF TabTypes
<1>8. NamedOnce'
  BY <1>1, <1>2, <1>3, <1>6 DEF NamedOnce, Distinct
<1>9. LinesInOrder'
  <2>1. \A i \in DOMAIN toPage : toPage[i].type = "line" =>
           /\ toPage[i].line <= lines
           /\ \A j \in DOMAIN toPage :
                  i < j /\ toPage[j].type = "line" => toPage[i].line < toPage[j].line
    BY <1>0 DEF TabsInv, LinesInOrder
  <2>2. \A i, j \in (DOMAIN toPage)' : i < j => i + 1 < j + 1
    BY <1>6
  <2>3. \A i \in (DOMAIN toPage)' : toPage'[i].type = "line" =>
           /\ toPage'[i].line <= lines
           /\ \A j \in (DOMAIN toPage)' :
                  i < j /\ toPage'[j].type = "line" => toPage'[i].line < toPage'[j].line
    BY <1>6, <2>1, <2>2
  <2> QED
    BY <1>0, <1>2, <2>3 DEF TabsInv, LinesInOrder
<1>10. Traced'
  BY <1>0, <1>2, <1>6 DEF TabsInv, Traced
<1>11. TabsFollow'
  <2>1. \A q : WillBeShown(q)' <=> WillBeShown(q)
    BY <1>2, <1>3, <1>6, ShownWhenTaken
  <2> QED
    BY <1>0, <1>2, <1>5, <2>1 DEF TabsInv, TabsFollow
<1>12. LogsFollow'
  <2>1. SUFFICES ASSUME NEW q \in ToSet(tabRows), lives[q] = 1
                 PROVE  Follows(q)' \/ AskedFor(q)'
    BY <1>2 DEF LogsFollow
  <2>2. q \in Ports
    BY <1>1, ElementsAre DEF TabTypes
  <2>3. Follows(q) \/ AskedFor(q)
    BY <1>0, <1>2, <2>1 DEF TabsInv, LogsFollow
  <2>4. CASE Follows(q)
    <3>1. ~(m.type = "removed" /\ m.id = q)
      <4>1. q \notin wired
        BY <1>0, <2>1 DEF TabsInv, Traced
      <4> QED
        BY <1>0, <1>6, <4>1 DEF TabsInv, Traced
    <3>2. logs'[q] = IF Resets(m, q) THEN NewLog(m)
                     ELSE IF IsLine(m, q) THEN Append(logs[q], m.line) ELSE logs[q]
      BY <1>4, <2>2, <3>1
    <3>3. LinesInOrder /\ log'[q] = log[q]
      BY <1>0, <1>2 DEF TabsInv
    <3> QED
      BY <1>1, <1>2, <2>2, <2>4, <3>2, <3>3, FollowsWhenTaken
  <2>5. CASE Listing \/ LogAsked(q)
    BY <1>5, <2>5 DEF AskedFor
  <2>6. CASE InList(q)
    <3>1. PICK i \in DOMAIN toPage : toPage[i].type = "list" /\ q \in ToSet(toPage[i].ids)
      BY <2>6 DEF InList
    <3>2. CASE i = 1
      BY <1>5, <3>1, <3>2 DEF AskedFor
    <3>3. CASE i # 1
      BY <1>6, <3>1, <3>3 DEF AskedFor, InList
    <3> QED
      BY <3>2, <3>3
  <2> QED
    BY <2>3, <2>4, <2>5, <2>6 DEF AskedFor
<1> QED
  BY <1>7, <1>8, <1>9, <1>10, <1>11, <1>12 DEF TabsInv

-----------------------------------------------------------------------------
(* Every step of the two sides keeps the invariant.                        *)
LEMMA TabsStepKeeps == TabsInv /\ [TabsNext]_rendererVars => TabsInv'
<1>1. ASSUME TabsInv, UNCHANGED rendererVars PROVE TabsInv'
  <2>1. /\ UNCHANGED <<tabRows, log, wired, lives, lines, toPage, page, shown, logs, reloads>>
        /\ UNCHANGED <<creating, toMain>>
    BY <1>1 DEF rendererVars, mainVars, pageVars, bounds
  <2>2. (Listing => Listing') /\ \A id : LogAsked(id) => LogAsked(id)'
    BY <2>1 DEF Listing, LogAsked
  <2>3. creating' \in Seq(Ports) /\ toMain' \in Seq(Asking)
    BY <1>1, <2>1 DEF TabsInv, TabTypes
  <2> QED
    BY <1>1, <2>1, <2>2, <2>3, QuestionsKeep
<1> QED
  BY <1>1, CreatedKeeps, LineKeeps, NoticeKeeps, HandleInstanceKeeps, MountKeeps, ReloadKeeps,
     ReceiveKeeps, ClickKeeps, ShortcutKeeps DEF TabsNext

(* With nothing on its way, what follows is what is there.                 *)
LEMMA SettledIsEqual == TabsInv => EveryLineOnce
<1>0. SUFFICES ASSUME TabsInv, Settled
               PROVE  /\ ToSet(shown) = ToSet(tabRows)
                      /\ \A id \in ToSet(tabRows) : lives[id] = 1 => logs[id] = log[id]
  BY DEF EveryLineOnce
<1>1. page = "shown" /\ toPage = <<>> /\ toMain = <<>>
  BY <1>0 DEF Settled
<1>2. DOMAIN toPage = {} /\ DOMAIN toMain = {} /\ Len(toPage) = 0
  BY <1>1
<1>3. ~Listing /\ \A id : ~AskedFor(id)
  BY <1>2 DEF Listing, AskedFor, InList, LogAsked
<1>4. ToSet(tabRows) \subseteq Ports /\ ToSet(shown) \subseteq Ports
  BY <1>0, ElementsAre DEF TabsInv, TabTypes
<1>5. \A id : WillBeShown(id) <=> id \in ToSet(shown)
  BY <1>2 DEF WillBeShown
<1>6. ToSet(shown) = ToSet(tabRows)
  BY <1>0, <1>1, <1>3, <1>4, <1>5 DEF TabsInv, TabsFollow
<1>7. ASSUME NEW id \in ToSet(tabRows), lives[id] = 1 PROVE logs[id] = log[id]
  <2>1. Follows(id)
    BY <1>0, <1>1, <1>3, <1>7 DEF TabsInv, LogsFollow
  <2>2. FollowsFrom(id, 0)
    <3>1. PICK r \in 0..Len(toPage) : FollowsFrom(id, r)
      BY <2>1 DEF Follows
    <3>2. r = 0
      BY <1>2
    <3> QED
      BY <3>1, <3>2
  <2>3. Base(id, 0) = logs[id]
    BY DEF Base
  <2>4. logs[id] \in Seq(Nat) /\ log[id] \in Seq(Nat)
    BY <1>0, <1>4 DEF TabsInv, TabTypes
  <2>5. /\ Len(logs[id]) <= Len(log[id])
        /\ \A j \in 1..Len(logs[id]) : logs[id][j] = log[id][j]
        /\ \A j \in DOMAIN log[id] : ~(Len(logs[id]) < j)
    BY <1>2, <2>2, <2>3 DEF FollowsFrom
  <2>6. Len(logs[id]) = Len(log[id])
    BY <2>4, <2>5
  <2> QED
    BY <2>4, <2>5, <2>6, SeqEqual
<1> QED
  BY <1>6, <1>7

(* When nothing is on its way, the page shows the instances there are, and *)
(* of an instance in its first life, among the notices, every line of its  *)
(* log once and in order.                                                  *)
THEOREM LinesShownOnce == TabsSpec => []EveryLineOnce
<1>1. TabsInv /\ [TabsNext]_rendererVars => TabsInv'
  BY TabsStepKeeps
<1> QED
  BY <1>1, TabsStartSo, SettledIsEqual, PTL DEF TabsSpec
===============================================================================

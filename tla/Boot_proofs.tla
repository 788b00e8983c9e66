----------------------------- MODULE Boot_proofs ------------------------------
(***************************************************************************)
(* Proofs about the boot of a session and what it sets up.                 *)
(*                                                                         *)
(* SessionBoot, for any number of boots and ports: whom a boot signals and *)
(* what outlives a session. From the lookup to the last kill the holder of *)
(* the port is the process whose cwd was compared, or the port has changed *)
(* hands (Compared); what runs has an owner or a name (Begun, Named).      *)
(*                                                                         *)
(* DevTools, for any calls, states and proxies: no proxy is lost and       *)
(* "connected" is not said of a lost one. Each action is looked at for the *)
(* one call that goes on (OnlyCall); what the calls leave behind holds     *)
(* also when they overlap (Upstreams).                                     *)
(*                                                                         *)
(* HookCatalog: a session runs the hooks its boot registered.              *)
(***************************************************************************)
EXTENDS SessionBoot, DevTools, HookCatalog, NaturalsInduction,
        WellFoundedInduction, TLAPS

(* The process that is killed is the one whose cwd was compared, or the    *)
(* port has changed hands.                                                 *)
Compared ==
    /\ step = "owner" => handedOver \/ found = holder[Profile]
    /\ step \in {"term", "grace", "kill"} => handedOver \/ Mine(holder[Profile])

(* Until it starts Metro                                                   *)
Unstarted == {"port", "identify", "find", "owner", "term", "grace", "kill", "fallback", "metro"}

(* a boot has nothing that runs,                                           *)
Bare(b) == ~Alive(b) /\ b \notin responders /\ b \notin debuggers

(* and a later one has nothing yet; the modules IPC of a session goes      *)
(* before its disposal.                                                    *)
Begun ==
    /\ step \in Unstarted => Bare(boot)
    /\ \A b \in Boots : b > boot => Bare(b)
    /\ step = "dispose" => boot \notin responders

(* What runs is the last boot's, while it goes on, or one's that threw, or *)
(* Metro's that was started through npx.                                   *)
Named ==
    \A b \in Boots :
        /\ b \in responders \/ b \in debuggers => b \in threw \/ (step # "off" /\ b = boot)
        /\ Alive(b) => b \in threw \/ b \in wrapped \/ (step # "off" /\ b = boot)

(* The parties on a port are distinct.                                     *)
LEMMA WhoIsWho ==
    /\ Boots \subseteq Nat /\ 0 \notin Boots /\ 1 \in Ports /\ Profile \in Ports
    /\ Stale \notin Boots /\ Neighbour \notin Boots /\ Service \notin Boots
    /\ \A x \in Boots : 0 < x
    /\ \A h : Mine(h) => h \notin {Neighbour, Service, Nobody}
    /\ \A h \in Foreign : h # Nobody
BY BootBounds DEF Boots, Ports, Profile, Stale, Neighbour, Service, Mine, Nobody, Foreign

(* BootTypeOK, with a conjunct for each set.                               *)
Scalars ==
    /\ boot \in 0..MaxBoots /\ overtaken \in BOOLEAN /\ handedOver \in BOOLEAN
    /\ step \in Booting \cup {"off", "up", "dispose"}
    /\ found \in Boots \cup Foreign \cup {Nobody}
    /\ portOf \in [Boots -> Ports]
    /\ holder \in [Ports -> Boots \cup Foreign \cup {Nobody}]
    /\ metroProc \in [Boots -> {"none", "starting", "bound", "exited"}]
    /\ instance \in [Boots -> {"none", "starting", "running", "stopped", "error", "deleted"}]
    /\ signalled \subseteq Boots \cup Foreign
    /\ wrapped \subseteq Boots /\ probe \subseteq Boots /\ responders \subseteq Boots
    /\ debuggers \subseteq Boots /\ threw \subseteq Boots

(* They say the same.                                                      *)
LEMMA BootTypesAre == BootTypeOK <=> Scalars
BY DEF BootTypeOK, Scalars

(* What happens around the steps of a boot.                                *)
Outside ==
    \/ \E p \in Ports, h \in Foreign : ForeignTakes(p, h)
    \/ \E p \in Ports : ForeignLeaves(p)
    \/ \E b \in Boots : \/ MetroBinds(b) \/ Banner(b) \/ Probe(b) \/ ProbeAnswers(b)
                        \/ \E clean \in BOOLEAN : MetroExits(b, clean)

(* Processes that come and go keep the types.                              *)
LEMMA OutsideTypes == Scalars /\ Outside => Scalars'
<1> SUFFICES ASSUME Scalars, Outside PROVE Scalars'
  OBVIOUS
<1> USE DEF Scalars
<1>1. ASSUME NEW p \in Ports, NEW h \in Foreign, ForeignTakes(p, h) PROVE Scalars'
  <2>1. handedOver' \in BOOLEAN
    BY <1>1, Zenon DEF ForeignTakes, Passes
  <2> QED
    BY <1>1, <2>1 DEF ForeignTakes, Passes, wiring
<1>2. ASSUME NEW p \in Ports, ForeignLeaves(p) PROVE Scalars'
  <2>1. handedOver' \in BOOLEAN
    BY <1>2, Zenon DEF ForeignLeaves, Passes
  <2> QED
    BY <1>2, <2>1 DEF ForeignLeaves, Passes, wiring
<1>3. ASSUME NEW b \in Boots, MetroBinds(b) PROVE Scalars'
  <2>1. handedOver' \in BOOLEAN
    BY <1>3, Zenon DEF MetroBinds, Passes
  <2> QED
    BY <1>3, <2>1 DEF MetroBinds, Passes, wiring, Exited
<1>4. ASSUME NEW b \in Boots, Banner(b) \/ Probe(b) \/ ProbeAnswers(b) PROVE Scalars'
  BY <1>4 DEF Banner, Probe, ProbeAnswers, wiring, bootHistory
<1>5. ASSUME NEW b \in Boots, NEW clean \in BOOLEAN, MetroExits(b, clean) PROVE Scalars'
  <2>1. handedOver' \in BOOLEAN
    BY <1>5, Zenon DEF MetroExits
  <2> QED
    BY <1>5, <2>1 DEF MetroExits, Exited, Freed, wiring
<1> QED
  BY <1>1, <1>2, <1>3, <1>4, <1>5 DEF Outside

(* A boot that goes on has a number.                                       *)
Away == step # "off" => boot \in Boots

(* Every step keeps the types.                                             *)
LEMMA StepTypes == Scalars /\ Away /\ BootNext => Scalars' /\ Away'
<1> SUFFICES ASSUME Scalars, Away, BootNext PROVE Scalars' /\ Away'
  OBVIOUS
<1>1. CASE Outside
  <2>1. UNCHANGED <<boot, step>>
    BY <1>1 DEF Outside, ForeignTakes, ForeignLeaves, MetroBinds, Banner, Probe, ProbeAnswers,
                MetroExits
  <2> QED
    BY <1>1, <2>1, OutsideTypes DEF Away
<1> USE DEF Scalars, Away, Goes, Throws, Booting, Killing
<1>2. CASE CheckPort \/ Identify \/ FindHolder \/ CompareCwd \/ GraceEnds
  BY <1>2, WhoIsWho DEF CheckPort, Identify, FindHolder, CompareCwd, GraceEnds, Unboot,
                        wiring, landlord, bootHistory
<1>3. CASE BeginBoot
  <2>1. boot' \in Boots
    BY <1>3, BootBounds DEF BeginBoot, Boots
  <2>2. handedOver' \in BOOLEAN /\ overtaken' \in BOOLEAN
    BY <1>3, Zenon DEF BeginBoot
  <2> QED
    BY <1>3, <2>1, <2>2, BootBounds DEF BeginBoot, wiring, landlord, Boots
<1>4. CASE Terminate
  BY <1>4, WhoIsWho DEF Terminate, wiring, landlord
<1>5. CASE Kill
  <2>1. Profile \in Ports /\ holder[Profile] \in Boots \cup Foreign \cup {Nobody}
    BY WhoIsWho
  <2>2. signalled' \subseteq Boots \cup Foreign
    BY <1>5, <2>1 DEF Kill
  <2>3. metroProc' \in [Boots -> {"none", "starting", "bound", "exited"}]
    BY <1>5 DEF Kill
  <2>4. instance' \in [Boots -> {"none", "starting", "running", "stopped", "error", "deleted"}]
    BY <1>5 DEF Kill, Exited
  <2>5. holder' \in [Ports -> Boots \cup Foreign \cup {Nobody}]
    BY <1>5, <2>1 DEF Kill
  <2>6. step' \in {"metro", "off"} /\ boot' = boot /\ boot \in Boots
    BY <1>5 DEF Kill
  <2>7. UNCHANGED <<boot, overtaken, found, portOf, probe, wrapped, responders, debuggers,
                    handedOver, threw>>
    BY <1>5 DEF Kill, wiring
  <2> QED
    BY <2>2, <2>3, <2>4, <2>5, <2>6, <2>7
<1>6. CASE Fallback
  <2>1. boot \in Boots /\ step' \in {"metro", "off"}
    BY <1>6 DEF Fallback
  <2>2. portOf' \in [Boots -> Ports]
    BY <1>6 DEF Fallback
  <2>3. UNCHANGED <<boot, overtaken, found, holder, metroProc, instance, probe, wrapped,
                    responders, debuggers, signalled, handedOver, threw>>
    BY <1>6 DEF Fallback, wiring, landlord, bootHistory
  <2> QED
    BY <2>1, <2>2, <2>3
<1>7. CASE StartMetro
  <2>1. boot \in Boots /\ step' = "devtools"
    BY <1>7 DEF StartMetro
  <2>2. /\ metroProc' \in [Boots -> {"none", "starting", "bound", "exited"}]
        /\ instance' \in [Boots -> {"none", "starting", "running", "stopped", "error", "deleted"}]
        /\ wrapped' \subseteq Boots /\ signalled' = {}
    BY <1>7, <2>1 DEF StartMetro
  <2>3. handedOver' \in BOOLEAN
    BY <1>7, Zenon DEF StartMetro
  <2>4. UNCHANGED <<boot, overtaken, found, portOf, holder, probe, responders, debuggers, threw>>
    BY <1>7 DEF StartMetro
  <2> QED
    BY <2>1, <2>2, <2>3, <2>4
<1>8. CASE DevtoolsStarted \/ RegisterModulesIpc
  <2>1. boot \in Boots /\ step' \in {"ipc", "init"}
    BY <1>8 DEF DevtoolsStarted, RegisterModulesIpc
  <2>2. debuggers' \subseteq Boots /\ responders' \subseteq Boots
    BY <1>8, <2>1 DEF DevtoolsStarted, RegisterModulesIpc
  <2>3. UNCHANGED <<boot, overtaken, found, portOf, holder, metroProc, instance, probe, wrapped,
                    signalled, handedOver, threw>>
    BY <1>8 DEF DevtoolsStarted, RegisterModulesIpc, landlord, bootHistory
  <2> QED
    BY <2>1, <2>2, <2>3
<1>9. CASE InitThrows \/ BootEnds \/ StopSession
  <2>1. boot \in Boots /\ step' \in {"off", "dispose", "up"}
    BY <1>9 DEF InitThrows, BootEnds, StopSession
  <2>2. threw' \subseteq Boots /\ responders' \subseteq Boots
    BY <1>9, <2>1 DEF InitThrows, BootEnds, StopSession, Unregistered, wiring, bootHistory
  <2>3. UNCHANGED <<boot, overtaken, found, portOf, holder, metroProc, instance, probe, wrapped,
                    debuggers, signalled, handedOver>>
    BY <1>9 DEF InitThrows, BootEnds, StopSession, landlord, wiring, bootHistory
  <2> QED
    BY <2>1, <2>2, <2>3
<1>10. CASE StopOvertakes
  <2>1. overtaken' \in BOOLEAN
    BY <1>10, Zenon DEF StopOvertakes
  <2> QED
    BY <1>10, <2>1 DEF StopOvertakes, wiring, landlord, bootHistory
<1>11. CASE Dispose
  <2>1. boot \in Boots /\ step' = "off"
    BY <1>11 DEF Dispose
  <2>2. /\ metroProc' \in [Boots -> {"none", "starting", "bound", "exited"}]
        /\ instance' \in [Boots -> {"none", "starting", "running", "stopped", "error", "deleted"}]
        /\ holder' \in [Ports -> Boots \cup Foreign \cup {Nobody}]
        /\ debuggers' \subseteq Boots
    BY <1>11, <2>1 DEF Dispose, Freed
  <2>3. UNCHANGED <<boot, overtaken, found, portOf, probe, wrapped, responders, signalled,
                    handedOver, threw>>
    BY <1>11 DEF Dispose, bootHistory
  <2> QED
    BY <2>1, <2>2, <2>3
<1> QED
  BY <1>1, <1>2, <1>3, <1>4, <1>5, <1>6, <1>7, <1>8, <1>9, <1>10, <1>11 DEF BootNext, Outside

-----------------------------------------------------------------------------

(* Every step keeps a signal to what was compared.                         *)
LEMMA ComparedKept ==
    Scalars /\ Away /\ Compared /\ SignalsOwn /\ BootNext => Compared' /\ SignalsOwn'
<1> SUFFICES ASSUME Scalars, Away, Compared, SignalsOwn, BootNext
             PROVE  Compared' /\ SignalsOwn'
  OBVIOUS
<1>p. Profile \in Ports
  BY WhoIsWho
<1> USE <1>p DEF Compared, SignalsOwn, Goes, Throws, Killing
<1>1. CASE Outside
  <2>1. step' = step /\ found' = found /\ signalled' = signalled
    BY <1>1 DEF Outside, ForeignTakes, ForeignLeaves, MetroBinds, Banner, Probe, ProbeAnswers,
                MetroExits, bootHistory
  <2>2. handedOver => handedOver'
    BY <1>1 DEF Outside, ForeignTakes, ForeignLeaves, MetroBinds, Banner, Probe, ProbeAnswers,
                MetroExits, bootHistory, Passes
  <2>3. holder'[Profile] # holder[Profile] /\ step \in Killing => handedOver'
    <3>1. ASSUME NEW p \in Ports, NEW h, Passes(p, h)
          PROVE  holder'[Profile] # holder[Profile] /\ step \in Killing => handedOver'
      BY <3>1 DEF Passes, Scalars
    <3>2. ASSUME NEW b \in Boots, NEW clean \in BOOLEAN, MetroExits(b, clean)
          PROVE  holder'[Profile] # holder[Profile] /\ step \in Killing => handedOver'
      BY <3>2 DEF MetroExits, Freed, Scalars
    <3>3. ASSUME NEW b \in Boots, MetroBinds(b)
          PROVE  \/ holder' = holder
                 \/ \E p \in Ports : Passes(p, b)
      BY <3>3 DEF MetroBinds, Scalars
    <3> QED
      BY <1>1, <3>1, <3>2, <3>3 DEF Outside, ForeignTakes, ForeignLeaves, Banner, Probe,
                                    ProbeAnswers
  <2> QED
    BY <2>1, <2>2, <2>3 DEF Mine
<1>2. CASE CompareCwd
  BY <1>2 DEF CompareCwd, Unboot, landlord, bootHistory
<1>3. CASE Terminate
  BY <1>3, WhoIsWho DEF Terminate, landlord
<1>4. CASE Kill
  BY <1>4, WhoIsWho DEF Kill
<1>5. CASE CheckPort \/ Identify \/ FindHolder \/ GraceEnds
  BY <1>5 DEF CheckPort, Identify, FindHolder, GraceEnds, Unboot, landlord, bootHistory
<1>6. CASE BeginBoot \/ Fallback \/ StartMetro \/ DevtoolsStarted \/ RegisterModulesIpc
  BY <1>6 DEF BeginBoot, Fallback, StartMetro, DevtoolsStarted, RegisterModulesIpc, landlord,
              bootHistory
<1>7. CASE InitThrows \/ BootEnds \/ StopSession \/ StopOvertakes \/ Dispose
  BY <1>7 DEF InitThrows, BootEnds, StopSession, StopOvertakes, Dispose, landlord, bootHistory
<1> QED
  BY <1>1, <1>2, <1>3, <1>4, <1>5, <1>6, <1>7 DEF BootNext, Outside

(* Every step keeps a boot bare until it starts Metro.                     *)
LEMMA BegunKept == Scalars /\ Away /\ Begun /\ BootNext => Begun'
<1> SUFFICES ASSUME Scalars, Away, Begun, BootNext PROVE Begun'
  OBVIOUS
<1> USE DEF Begun, Bare, Alive, Unstarted, Goes, Throws
<1>t. Boots \subseteq Nat /\ boot \in Nat
  BY WhoIsWho, BootBounds DEF Scalars
<1>1. CASE Outside
  <2>1. UNCHANGED <<boot, step, responders, debuggers>>
    BY <1>1 DEF Outside, ForeignTakes, ForeignLeaves, MetroBinds, Banner, Probe, ProbeAnswers,
                MetroExits, wiring
  <2>2. \A b \in Boots : Alive(b)' => Alive(b)
    BY <1>1 DEF Outside, ForeignTakes, ForeignLeaves, MetroBinds, Banner, Probe, ProbeAnswers,
                MetroExits, Alive, Scalars
  <2> QED
    BY <2>1, <2>2, <1>t, WhoIsWho DEF Away
<1>2. CASE CheckPort \/ Identify \/ FindHolder \/ CompareCwd \/ Terminate \/ GraceEnds
            \/ Fallback \/ StopOvertakes
  BY <1>2 DEF CheckPort, Identify, FindHolder, CompareCwd, Terminate, GraceEnds, Fallback,
              StopOvertakes, Unboot, landlord, wiring
<1>3. CASE BeginBoot
  <2>1. boot' = boot + 1 /\ boot' \in Boots
    BY <1>3, BootBounds, <1>t DEF BeginBoot, Boots
  <2>2. UNCHANGED <<metroProc, responders, debuggers>> /\ step' = "port"
    BY <1>3 DEF BeginBoot, landlord, wiring
  <2> QED
    BY <2>1, <2>2, <1>t
<1>4. CASE Kill
  <2>1. UNCHANGED <<boot, responders, debuggers>> /\ step' \in {"metro", "off"}
    BY <1>4 DEF Kill, wiring
  <2>2. \A b \in Boots : Alive(b)' => Alive(b)
    BY <1>4 DEF Kill
  <2> QED
    BY <1>4, <2>1, <2>2 DEF Kill, Away
<1>5. CASE StartMetro \/ DevtoolsStarted \/ RegisterModulesIpc
  <2>1. boot \in Boots /\ boot' = boot /\ step' \in {"devtools", "ipc", "init"}
    BY <1>5 DEF StartMetro, DevtoolsStarted, RegisterModulesIpc, Away
  <2>2. \A b \in Boots : b # boot =>
            (metroProc'[b] = metroProc[b]) /\ (b \in responders' <=> b \in responders)
            /\ (b \in debuggers' <=> b \in debuggers)
    BY <1>5, <2>1 DEF StartMetro, DevtoolsStarted, RegisterModulesIpc, landlord, Scalars
  <2> QED
    BY <2>1, <2>2, <1>t
<1>6. CASE InitThrows \/ BootEnds \/ StopSession
  <2>1. UNCHANGED <<boot, metroProc, debuggers>> /\ responders' \subseteq responders
    BY <1>6 DEF InitThrows, BootEnds, StopSession, Unregistered, landlord, wiring
  <2>2. step' \in {"off", "up"} \/ (step' = "dispose" /\ boot \notin responders')
    BY <1>6 DEF InitThrows, BootEnds, StopSession, Unregistered
  <2> QED
    BY <2>1, <2>2
<1>7. CASE Dispose
  <2>1. boot' = boot /\ responders' = responders /\ debuggers' \subseteq debuggers
    BY <1>7 DEF Dispose
  <2>2. \A b \in Boots : b # boot => metroProc'[b] = metroProc[b]
    BY <1>7 DEF Dispose, Scalars
  <2> QED
    BY <1>7, <2>1, <2>2, <1>t DEF Dispose
<1> QED
  BY <1>1, <1>2, <1>3, <1>4, <1>5, <1>6, <1>7 DEF BootNext, Outside

(* Every step keeps a name on what runs.                                   *)
LEMMA NamedKept == Scalars /\ Away /\ Begun /\ Named /\ BootNext => Named'
<1> SUFFICES ASSUME Scalars, Away, Begun, Named, BootNext, NEW b \in Boots
             PROVE  /\ b \in responders' \/ b \in debuggers'
                        => b \in threw' \/ (step' # "off" /\ b = boot')
                    /\ Alive(b)' => b \in threw' \/ b \in wrapped' \/ (step' # "off" /\ b = boot')
  BY DEF Named
<1> USE DEF Goes, Throws, Alive
<1>n. /\ b \in responders \/ b \in debuggers => b \in threw \/ (step # "off" /\ b = boot)
      /\ Alive(b) => b \in threw \/ b \in wrapped \/ (step # "off" /\ b = boot)
  BY DEF Named
<1>1. CASE Outside
  <2>1. UNCHANGED <<boot, step, responders, debuggers, threw, wrapped>>
    BY <1>1 DEF Outside, ForeignTakes, ForeignLeaves, MetroBinds, Banner, Probe, ProbeAnswers,
                MetroExits, wiring, bootHistory
  <2>2. Alive(b)' => Alive(b)
    BY <1>1 DEF Outside, ForeignTakes, ForeignLeaves, MetroBinds, Banner, Probe, ProbeAnswers,
                MetroExits, Scalars
  <2> QED
    BY <2>1, <2>2, <1>n
<1>2. CASE CheckPort \/ Identify \/ FindHolder \/ CompareCwd \/ Terminate \/ GraceEnds
            \/ Fallback \/ StopOvertakes
  <2>1. UNCHANGED <<boot, responders, debuggers, threw, wrapped, metroProc>>
    BY <1>2 DEF CheckPort, Identify, FindHolder, CompareCwd, Terminate, GraceEnds, Fallback,
                StopOvertakes, Unboot, landlord, wiring, bootHistory
  <2>2. step # "off" /\ (step' = "off" => Bare(boot))
    BY <1>2 DEF CheckPort, Identify, FindHolder, CompareCwd, Terminate, GraceEnds, Fallback,
                StopOvertakes, Begun, Unstarted, Booting, Killing
  <2> QED
    BY <2>1, <2>2, <1>n DEF Bare
<1>3. CASE BeginBoot
  BY <1>3, <1>n DEF BeginBoot, landlord, wiring
<1>4. CASE Kill
  <2>1. UNCHANGED <<boot, responders, debuggers, threw, wrapped>> /\ Bare(boot)
    BY <1>4 DEF Kill, wiring, Begun, Unstarted
  <2>2. Alive(b)' => Alive(b)
    BY <1>4 DEF Kill
  <2> QED
    BY <2>1, <2>2, <1>n DEF Bare
<1>5. CASE StartMetro \/ DevtoolsStarted \/ RegisterModulesIpc
  <2>1. boot' = boot /\ boot \in Boots /\ step' # "off" /\ threw' = threw
    BY <1>5 DEF StartMetro, DevtoolsStarted, RegisterModulesIpc, Away, bootHistory
  <2>2. b # boot =>
            (metroProc'[b] = metroProc[b]) /\ (b \in responders' <=> b \in responders)
            /\ (b \in debuggers' <=> b \in debuggers) /\ (b \in wrapped => b \in wrapped')
    BY <1>5, <2>1 DEF StartMetro, DevtoolsStarted, RegisterModulesIpc, landlord, Scalars
  <2> QED
    BY <2>1, <2>2, <1>n
<1>6. CASE InitThrows \/ BootEnds \/ StopSession
  <2>1. UNCHANGED <<boot, metroProc, debuggers, wrapped>> /\ responders' \subseteq responders
    BY <1>6 DEF InitThrows, BootEnds, StopSession, Unregistered, landlord, wiring
  <2>2. (step' # "off" /\ threw' = threw) \/ threw' = threw \cup {boot}
    BY <1>6 DEF InitThrows, BootEnds, StopSession, bootHistory
  <2> QED
    BY <2>1, <2>2, <1>n
<1>7. CASE Dispose
  <2>1. boot \in Boots /\ boot \notin responders
    BY <1>7 DEF Dispose, Away, Begun
  <2>2. UNCHANGED <<boot, responders, threw, wrapped>> /\ debuggers' = debuggers \ {boot}
    BY <1>7 DEF Dispose, bootHistory
  <2>3. b = boot => ~Alive(b)' \/ b \in wrapped
    BY <1>7, <2>1 DEF Dispose, Scalars
  <2>4. b # boot => metroProc'[b] = metroProc[b]
    BY <1>7, <2>1 DEF Dispose, Scalars
  <2> QED
    BY <2>1, <2>2, <2>3, <2>4, <1>n
<1> QED
  BY <1>1, <1>2, <1>3, <1>4, <1>5, <1>6, <1>7 DEF BootNext, Outside

(* The inductive invariant of SessionBoot.                                 *)
BootInv == Scalars /\ Away /\ Compared /\ SignalsOwn /\ Begun /\ Named

(* It holds when the daemon starts                                         *)
LEMMA BootInvInit == BootInit => BootInv
<1> SUFFICES ASSUME BootInit PROVE BootInv
  OBVIOUS
<1> USE DEF BootInit
<1>a. boot \in 0..MaxBoots
  BY BootBounds
<1>d. overtaken \in BOOLEAN /\ handedOver \in BOOLEAN
  BY Zenon
<1>b. portOf \in [Boots -> Ports] /\ holder \in [Ports -> Boots \cup Foreign \cup {Nobody}]
  BY WhoIsWho
<1>c. /\ metroProc \in [Boots -> {"none", "starting", "bound", "exited"}]
      /\ instance \in [Boots -> {"none", "starting", "running", "stopped", "error", "deleted"}]
  OBVIOUS
<1>1. Scalars
  BY <1>a, <1>b, <1>c, <1>d DEF Scalars
<1>2. Away /\ Compared /\ SignalsOwn
  BY DEF Away, Compared, SignalsOwn
<1>3. Begun /\ Named
  BY DEF Begun, Named, Bare, Unstarted, Alive
<1> QED
  BY <1>1, <1>2, <1>3 DEF BootInv

(* and after every step.                                                   *)
LEMMA BootInvNext == BootInv /\ [BootNext]_bootVars => BootInv'
<1>1. BootInv /\ BootNext => BootInv'
  BY StepTypes, ComparedKept, BegunKept, NamedKept DEF BootInv
<1>2. BootInv /\ UNCHANGED bootVars => BootInv'
  BY DEF BootInv, bootVars, landlord, wiring, bootHistory, Scalars, Away, Compared, SignalsOwn,
         Begun, Named, Bare, Alive
<1> QED
  BY <1>1, <1>2

(* A process of another worktree, or one that is no Metro, is signalled    *)
(* only when the port changed hands behind the check: for any number of    *)
(* boots and ports (boot.ts:264-289, metro.ts:244-262).                    *)
THEOREM OwnIsSignalled == BootSpec => [](BootTypeOK /\ SignalsOwn)
<1>1. BootInv => BootTypeOK /\ SignalsOwn
  BY BootTypesAre DEF BootInv
<1> QED
  BY <1>1, BootInvInit, BootInvNext, PTL DEF BootSpec

(* Listeners, devtools and Metros that outlive their session are those of  *)
(* a boot that threw, or were started through npx (boot.ts:494-525,        *)
(* metro.ts:486-507).                                                      *)
THEOREM LeftoversNamed == BootSpec => []LeftoversAreNamed
<1>1. BootInv => LeftoversAreNamed
  BY DEF BootInv, Named, LeftoversAreNamed, Scalars
<1> QED
  BY <1>1, BootInvInit, BootInvNext, PTL DEF BootSpec

(* A late answer to a probe does not make an ended Metro a running one     *)
(* (metro.ts:421-449).                                                     *)
THEOREM EndedMetroStays == BootSpec => EndedStaysEnded
<1> DEFINE Stays == \A b \in Boots : instance[b] \in {"stopped", "error", "deleted"}
                            => instance'[b] # "running"
<1>1. BootInv /\ BootNext => Stays
  <2> SUFFICES ASSUME BootInv, BootNext PROVE Stays
    OBVIOUS
  <2> USE DEF BootInv, Scalars
  <2>1. CASE Outside
    BY <2>1 DEF Outside, ForeignTakes, ForeignLeaves, MetroBinds, Banner, Probe, ProbeAnswers,
                MetroExits, Exited
  <2>2. CASE BeginBoot \/ CheckPort \/ Identify \/ FindHolder \/ CompareCwd \/ Terminate
             \/ GraceEnds \/ Fallback \/ StopOvertakes \/ DevtoolsStarted \/ RegisterModulesIpc
             \/ InitThrows \/ BootEnds \/ StopSession
    BY <2>2 DEF BeginBoot, CheckPort, Identify, FindHolder, CompareCwd, Terminate, GraceEnds,
                Fallback, StopOvertakes, DevtoolsStarted, RegisterModulesIpc, InitThrows,
                BootEnds, StopSession, Unboot, landlord
  <2>3. CASE Kill
    BY <2>3 DEF Kill, Exited
  <2>4. CASE StartMetro \/ Dispose
    BY <2>4 DEF StartMetro, Dispose
  <2> QED
    BY <2>1, <2>2, <2>3, <2>4 DEF BootNext, Outside
<1>2. BootInv /\ [BootNext]_bootVars => [Stays]_bootVars
  BY <1>1
<1> QED
  BY <1>2, BootInvInit, BootInvNext, PTL DEF BootSpec, EndedStaysEnded

-----------------------------------------------------------------------------
(* DevTypeOK, with a conjunct for each set.                                *)
DevScalars ==
    /\ tracked \in 0..MaxStates /\ overlapped \in BOOLEAN
    /\ life \in [States -> {"none", "IDLE", "RUNNING", "RECONNECTING", "STOPPING"}]
    /\ proxyStatus \in [States -> {"no-target", "connected", "disconnected", "preempted"}]
    /\ proxyOf \in [States -> Proxies]
    /\ targeted \subseteq States /\ ticking \subseteq States
    /\ checks \subseteq States /\ polls \subseteq States
    /\ server \in [Proxies -> {"none", "bound", "closed"}]
    /\ upstream \in [Proxies -> {"none", "open", "terminated", "closed"}]
    /\ blind \subseteq Proxies /\ failed \subseteq Proxies
    /\ call \in [Calls -> {"idle", "stopping", "disposing", "fetching", "opening",
                           "swapping", "reopening", "done"}]
    /\ callState \in [Calls -> 0..MaxStates] /\ callProxy \in [Calls -> 0..MaxProxies]

(* They say the same.                                                      *)
LEMMA DevTypesAre == DevTypeOK <=> DevScalars
BY DEF DevTypeOK, DevScalars

(* A set of numbers has a lowest one.                                      *)
LEMMA LowestIsOne == ASSUME NEW S \in SUBSET Nat, S # {} PROVE Lowest(S) \in S
<1>1. IsWellFoundedOn(OpToRel(<, Nat), Nat)
  BY NatLessThanWellFounded
<1>2. PICK x \in S : \A y \in S : <<y, x>> \notin OpToRel(<, Nat)
  BY <1>1, WFMin
<1>3. \A y \in S : ~(y < x)
  BY <1>2 DEF OpToRel
<1>4. \A y \in S : x <= y
  BY <1>3
<1> QED
  BY <1>4 DEF Lowest

(* The bounds number at least one state and one proxy, and none is 0.      *)
LEMMA Numbers ==
    /\ 1 \in States /\ 1 \in Proxies /\ 0 \notin States /\ 0 \notin Proxies
    /\ States \subseteq Nat /\ Proxies \subseteq Nat
    /\ States \subseteq 0..MaxStates /\ Proxies \subseteq 0..MaxProxies
    /\ \A s \in 0..MaxStates : s # 0 => s \in States
BY DevBounds DEF States, Proxies

(* What is made next was not made before.                                  *)
LEMMA FreshOnes ==
    /\ FreshStates # {} => Lowest(FreshStates) \in States /\ life[Lowest(FreshStates)] = "none"
    /\ FreshProxies # {} => Lowest(FreshProxies) \in Proxies
                            /\ server[Lowest(FreshProxies)] = "none"
<1>1. FreshStates \in SUBSET Nat /\ FreshProxies \in SUBSET Nat
  BY Numbers DEF FreshStates, FreshProxies
<1>2. FreshStates # {} => Lowest(FreshStates) \in FreshStates
  BY <1>1, LowestIsOne
<1>3. FreshProxies # {} => Lowest(FreshProxies) \in FreshProxies
  BY <1>1, LowestIsOne
<1> QED
  BY <1>2, <1>3 DEF FreshStates, FreshProxies

(* A call that has made a proxy and waits for its upstream.                *)
Holding(c) == call[c] \in {"opening", "reopening"}

(* What happens by itself                                                  *)
Callbacks ==
    \/ \E p \in Proxies : UpstreamDrops(p) \/ \E ok \in BOOLEAN : FrontendConnects(p, ok)
    \/ \E s \in States : \/ Poll(s)
                         \/ \E listed \in BOOLEAN : CheckResolves(s, listed)
                                                    \/ PollResolves(s, listed)
    \/ MetroEnds

(* and what a call does                                                    *)
CallStep(c) ==
    \/ Restart(c) \/ DisposeTools(c) \/ StopEnds(c) \/ Started(c)
    \/ OpeningFails(c) \/ SelectTarget(c) \/ Swapped(c) \/ Reopened(c)
    \/ \E hasTarget \in BOOLEAN : Fetched(c, hasTarget)

(* are all the steps.                                                      *)
LEMMA DevSteps == DevNext => Callbacks \/ \E c \in Calls : CallStep(c)
BY DEF DevNext, Callbacks, CallStep

(* onUpstreamClose() keeps the types.                                      *)
LEMMA ClosingTypes ==
    ASSUME DevScalars, NEW p, UpstreamClosed(p)
    PROVE  /\ life' \in [States -> {"none", "IDLE", "RUNNING", "RECONNECTING", "STOPPING"}]
           /\ proxyStatus' \in [States -> {"no-target", "connected", "disconnected", "preempted"}]
           /\ checks' \subseteq States
<1>1. CASE p \in blind \/ tracked = 0 \/ life[tracked] = "STOPPING"
  BY <1>1 DEF UpstreamClosed, DevScalars
<1>2. CASE ~(p \in blind \/ tracked = 0 \/ life[tracked] = "STOPPING")
  <2>1. tracked \in States
    BY <1>2, Numbers DEF DevScalars
  <2>2. /\ life' = [life EXCEPT ![tracked] = "RECONNECTING"]
        /\ proxyStatus' = [proxyStatus EXCEPT ![tracked] = "disconnected"]
        /\ checks' = checks \cup {tracked}
    BY <1>2 DEF UpstreamClosed
  <2> QED
    BY <2>1, <2>2 DEF DevScalars
<1> QED
  BY <1>1, <1>2

(* So does what happens by itself,                                         *)
LEMMA CallbackTypes == DevScalars /\ Callbacks => DevScalars'
<1> SUFFICES ASSUME DevScalars, Callbacks PROVE DevScalars'
  OBVIOUS
<1>0. UNCHANGED <<tracked, proxyOf, targeted, ticking, server, blind, callState, callProxy,
                  call, overlapped, failed>>
  BY DEF Callbacks, UpstreamDrops, FrontendConnects, Poll, CheckResolves, PollResolves,
         MetroEnds, devProxies, devCalls
<1> USE DEF DevScalars
<1>1. ASSUME NEW p \in Proxies, UpstreamDrops(p) PROVE DevScalars'
  BY <1>0, <1>1, ClosingTypes DEF UpstreamDrops
<1>2. ASSUME NEW p \in Proxies, NEW ok \in BOOLEAN, FrontendConnects(p, ok) PROVE DevScalars'
  BY <1>0, <1>2, ClosingTypes DEF FrontendConnects
<1>3. ASSUME NEW s \in States, NEW listed \in BOOLEAN,
             Poll(s) \/ CheckResolves(s, listed) \/ PollResolves(s, listed)
      PROVE  DevScalars'
  BY <1>0, <1>3 DEF Poll, CheckResolves, PollResolves, devProxies
<1>4. CASE MetroEnds
  BY <1>0, <1>4 DEF MetroEnds, devProxies
<1> QED
  BY <1>1, <1>2, <1>3, <1>4 DEF Callbacks

(* and what a call does.                                                   *)
LEMMA CallTypes ==
    ASSUME DevScalars, NEW c \in Calls, CallStep(c), Holding(c) => callProxy[c] \in Proxies
    PROVE  DevScalars'
<1> USE DEF DevScalars, At, Begins, Holding
<1>1. ASSUME NEW where \in {"stopping", "disposing"}, BeginStop(c, where) PROVE DevScalars'
  <2>1. overlapped' \in BOOLEAN
    BY <1>1, Zenon DEF BeginStop
  <2>2. /\ upstream' \in [Proxies -> {"none", "open", "terminated", "closed"}]
        /\ life' \in [States -> {"none", "IDLE", "RUNNING", "RECONNECTING", "STOPPING"}]
        /\ call' \in [Calls -> {"idle", "stopping", "disposing", "fetching", "opening",
                                "swapping", "reopening", "done"}]
        /\ callState' \in [Calls -> 0..MaxStates] /\ ticking' \subseteq States
    BY <1>1 DEF BeginStop, StopProxy
  <2>3. UNCHANGED <<tracked, proxyStatus, proxyOf, targeted, checks, polls, server, blind,
                    callProxy, failed>>
    BY <1>1 DEF BeginStop
  <2> QED
    BY <2>1, <2>2, <2>3
<1>2. CASE RestartFromNone(c)
  <2>1. overlapped' \in BOOLEAN
    BY <1>2, Zenon DEF RestartFromNone
  <2> QED
    BY <1>2, <2>1 DEF RestartFromNone, devStates, devProxies
<1>3. CASE StopEnds(c)
  <2>1. /\ tracked' \in 0..MaxStates
        /\ server' \in [Proxies -> {"none", "bound", "closed"}]
        /\ call' \in [Calls -> {"idle", "stopping", "disposing", "fetching", "opening",
                                "swapping", "reopening", "done"}]
    <3>1. /\ tracked' = 0 /\ Closed(callState[c])
          /\ call' = [call EXCEPT ![c] = IF call[c] = "stopping" THEN "fetching" ELSE "done"]
      BY <1>3 DEF StopEnds
    <3>2. tracked' \in 0..MaxStates
      BY <3>1, DevBounds
    <3>3. server' \in [Proxies -> {"none", "bound", "closed"}]
      BY <3>1 DEF Closed
    <3>4. call' \in [Calls -> {"idle", "stopping", "disposing", "fetching", "opening",
                              "swapping", "reopening", "done"}]
      BY <3>1
    <3> QED
      BY <3>2, <3>3, <3>4
  <2>2. UNCHANGED <<life, proxyStatus, proxyOf, targeted, ticking, checks, polls, upstream, blind,
                    callState, callProxy, overlapped, failed>>
    BY <1>3 DEF StopEnds
  <2> QED
    BY <2>1, <2>2
<1>4. CASE Started(c)
  <2> DEFINE s == Lowest(FreshStates)
             p == callProxy[c]
  <2>1. s \in States /\ p \in Proxies
    BY <1>4, FreshOnes DEF Started
  <2>2. /\ upstream' \in [Proxies -> {"none", "open", "terminated", "closed"}]
        /\ life' \in [States -> {"none", "IDLE", "RUNNING", "RECONNECTING", "STOPPING"}]
        /\ proxyStatus' \in [States -> {"no-target", "connected", "disconnected", "preempted"}]
        /\ proxyOf' \in [States -> Proxies]
        /\ call' \in [Calls -> {"idle", "stopping", "disposing", "fetching", "opening",
                                "swapping", "reopening", "done"}]
    BY <1>4, <2>1 DEF Started
  <2>3. tracked' \in 0..MaxStates /\ targeted' \subseteq States /\ ticking' \subseteq States
    BY <1>4, <2>1, Numbers DEF Started
  <2>4. UNCHANGED <<checks, polls, server, blind, callState, callProxy, overlapped, failed>>
    BY <1>4 DEF Started
  <2> QED
    BY <2>2, <2>3, <2>4
<1>5. CASE OpeningFails(c)
  <2>1. UpstreamClosed(callProxy[c]) /\ callProxy[c] \in Proxies
    BY <1>5 DEF OpeningFails
  <2>2. /\ life' \in [States -> {"none", "IDLE", "RUNNING", "RECONNECTING", "STOPPING"}]
        /\ proxyStatus' \in [States -> {"no-target", "connected", "disconnected", "preempted"}]
        /\ checks' \subseteq States
    BY <2>1, ClosingTypes
  <2> QED
    BY <1>5, <2>1, <2>2 DEF OpeningFails, devProxies
<1>6. CASE SelectTarget(c)
  <2>1. overlapped' \in BOOLEAN
    BY <1>6, Zenon DEF SelectTarget
  <2> QED
    BY <1>6, <2>1, Numbers DEF SelectTarget, StopProxy
<1>7. CASE Swapped(c)
  <2>1. Lowest(FreshProxies) \in Proxies
    BY <1>7, FreshOnes DEF Swapped
  <2> QED
    BY <1>7, <2>1, Numbers DEF Swapped, devStates
<1>8. CASE Reopened(c)
  BY <1>8 DEF Reopened
<1>9. ASSUME NEW hasTarget \in BOOLEAN, Fetched(c, hasTarget) PROVE DevScalars'
  <2>1. Lowest(FreshProxies) \in Proxies
    BY <1>9, FreshOnes DEF Fetched, MakeProxy
  <2> QED
    BY <1>9, <2>1, Numbers DEF Fetched, MakeProxy, devStates
<1> QED
  BY <1>1, <1>2, <1>3, <1>4, <1>5, <1>6, <1>7, <1>8, <1>9
     DEF CallStep, Restart, DisposeTools

-----------------------------------------------------------------------------

(* Sockets are those of proxies that were made; a proxy without a target   *)
(* has none; the tracked state has a proxy that was made.                  *)
Upstreams ==
    /\ \A p \in Proxies : server[p] = "none" => upstream[p] = "none" /\ p \notin blind
    /\ \A p \in blind : upstream[p] = "none"
    /\ \A c \in Calls : Holding(c) => callProxy[c] \in Proxies /\ server[callProxy[c]] # "none"
    /\ \A c \in Calls : call[c] = "reopening" => callProxy[c] \notin blind
    /\ tracked # 0 => server[proxyOf[tracked]] # "none"

(* What happens by itself keeps that,                                      *)
LEMMA UpstreamsByThemselves == DevScalars /\ Upstreams /\ Callbacks => Upstreams'
<1> SUFFICES ASSUME DevScalars, Upstreams, Callbacks PROVE Upstreams'
  OBVIOUS
<1>0. UNCHANGED <<tracked, proxyOf, server, blind, callProxy, call>>
  BY DEF Callbacks, UpstreamDrops, FrontendConnects, Poll, CheckResolves, PollResolves,
         MetroEnds, devProxies, devCalls
<1>1. \A p \in Proxies : server[p] = "none" \/ p \in blind => upstream'[p] = upstream[p]
  BY DEF Callbacks, UpstreamDrops, FrontendConnects, Poll, CheckResolves, PollResolves,
         MetroEnds, devProxies, Upstreams, DevScalars
<1> QED
  BY <1>0, <1>1 DEF Upstreams, Holding, DevScalars

(* and what a call does.                                                   *)
LEMMA UpstreamsOfCalls ==
    ASSUME DevScalars, Upstreams, NEW c \in Calls, CallStep(c) PROVE Upstreams'
<1> USE DEF At, Holding
<1>1. CASE \/ \E where \in {"stopping", "disposing"} : BeginStop(c, where)
           \/ SelectTarget(c)
  <2>1. UNCHANGED <<tracked, proxyOf, server, blind, callProxy>>
    BY <1>1 DEF BeginStop, SelectTarget
  <2>2. \A p \in Proxies : upstream[p] = "none" => upstream'[p] = "none"
    BY <1>1 DEF BeginStop, SelectTarget, StopProxy, DevScalars
  <2>3. \A d \in Calls : call'[d] \in {"opening", "reopening"} => call'[d] = call[d]
    BY <1>1 DEF BeginStop, SelectTarget, DevScalars
  <2> QED
    BY <2>1, <2>2, <2>3 DEF Upstreams, DevScalars
<1>2. CASE RestartFromNone(c)
  BY <1>2 DEF RestartFromNone, devStates, devProxies, Upstreams, DevScalars
<1>3. CASE StopEnds(c)
  <2>1. UNCHANGED <<upstream, blind, callProxy>> /\ tracked' = 0
    BY <1>3 DEF StopEnds
  <2>2. \A p \in Proxies : server'[p] = "none" => server[p] = "none"
    BY <1>3 DEF StopEnds, Closed, DevScalars
  <2>3. \A d \in Calls : call'[d] \in {"opening", "reopening"} => call'[d] = call[d]
    BY <1>3 DEF StopEnds, DevScalars
  <2> QED
    BY <2>1, <2>2, <2>3 DEF Upstreams, DevScalars
<1>4. CASE Started(c)
  <2>1. UNCHANGED <<server, blind, callProxy>> /\ callProxy[c] \in Proxies
    BY <1>4 DEF Started, Upstreams
  <2>2. \A p \in Proxies : p # callProxy[c] \/ p \in blind => upstream'[p] = upstream[p]
    BY <1>4 DEF Started, DevScalars
  <2>3. \A d \in Calls : call'[d] \in {"opening", "reopening"} => call'[d] = call[d]
    BY <1>4 DEF Started, DevScalars
  <2>4. tracked' \in States /\ proxyOf'[tracked'] = callProxy[c]
    BY <1>4, FreshOnes DEF Started, DevScalars
  <2>5. server[callProxy[c]] # "none"
    BY <1>4 DEF Started, Upstreams
  <2>6. \A p \in Proxies : server[p] = "none" => upstream'[p] = "none" /\ p \notin blind
    BY <2>2, <2>5 DEF Upstreams
  <2>7. \A p \in blind : upstream'[p] = "none"
    BY <2>2 DEF Upstreams, DevScalars
  <2> QED
    BY <2>1, <2>3, <2>4, <2>5, <2>6, <2>7 DEF Upstreams, DevScalars
<1>5. CASE OpeningFails(c)
  <2>1. UNCHANGED <<tracked, proxyOf, server, upstream, blind, callProxy>>
    BY <1>5 DEF OpeningFails, devProxies
  <2>2. \A d \in Calls : call'[d] \in {"opening", "reopening"} => call'[d] = call[d]
    BY <1>5 DEF OpeningFails, DevScalars
  <2> QED
    BY <2>1, <2>2 DEF Upstreams, DevScalars
<1>6. ASSUME NEW p \in Proxies, server[p] = "none", p # proxyOf[tracked] \/ tracked = 0,
             p \notin blind' \/ call'[c] # "reopening",
             server'[p] = "bound", blind' \subseteq blind \cup {p},
             callProxy' = [callProxy EXCEPT ![c] = p],
             \A q \in Proxies : server'[q] = "none" => server[q] = "none",
             UNCHANGED <<tracked, proxyOf, upstream>>,
             \A d \in Calls : d # c => call'[d] = call[d]
      PROVE  Upstreams'
  <2>1. \A q \in Proxies : server'[q] = "none" => upstream'[q] = "none" /\ q \notin blind'
    BY <1>6 DEF Upstreams
  <2>2. \A q \in blind' : upstream'[q] = "none"
    BY <1>6 DEF Upstreams
  <2>3. ASSUME NEW d \in Calls, call'[d] \in {"opening", "reopening"}
        PROVE  /\ callProxy'[d] \in Proxies /\ server'[callProxy'[d]] # "none"
               /\ call'[d] = "reopening" => callProxy'[d] \notin blind'
    <3>1. CASE d = c
      BY <1>6, <2>3, <3>1 DEF DevScalars
    <3>2. CASE d # c
      <4>1. /\ callProxy'[d] = callProxy[d] /\ call'[d] = call[d]
            /\ callProxy[d] \in Proxies /\ server[callProxy[d]] # "none"
        BY <1>6, <2>3, <3>2 DEF DevScalars, Upstreams
      <4> QED
        BY <1>6, <4>1 DEF Upstreams
    <3> QED
      BY <3>1, <3>2
  <2>4. tracked' # 0 => server'[proxyOf'[tracked']] # "none"
    BY <1>6, Numbers DEF Upstreams, DevScalars
  <2> QED
    BY <2>1, <2>2, <2>3, <2>4 DEF Upstreams
<1>7. CASE Swapped(c)
  <2> DEFINE p == Lowest(FreshProxies)
  <2>1. p \in Proxies /\ server[p] = "none"
    BY <1>7, FreshOnes DEF Swapped
  <2>2. p # proxyOf[tracked] \/ tracked = 0
    BY <2>1 DEF Upstreams
  <2>3. UNCHANGED <<tracked, proxyOf, upstream, blind>> /\ p \notin blind
    BY <1>7, <2>1 DEF Swapped, devStates, Upstreams
  <2>4. server'[p] = "bound" /\ callProxy' = [callProxy EXCEPT ![c] = p]
    BY <1>7, <2>1 DEF Swapped, DevScalars
  <2>5. \A q \in Proxies : server'[q] = "none" => server[q] = "none"
    BY <1>7, <2>1 DEF Swapped, DevScalars
  <2>6. \A d \in Calls : d # c => call'[d] = call[d]
    BY <1>7 DEF Swapped, DevScalars
  <2> HIDE DEF p
  <2> QED
    BY <1>6, <2>1, <2>2, <2>3, <2>4, <2>5, <2>6
<1>8. CASE Reopened(c)
  <2>1. UNCHANGED <<tracked, server, blind, callProxy>> /\ callProxy[c] \in Proxies
    BY <1>8 DEF Reopened, Upstreams
  <2>2. /\ callProxy[c] \notin blind /\ server[callProxy[c]] # "none"
    BY <1>8 DEF Reopened, Upstreams
  <2>3. \A p \in Proxies : p # callProxy[c] => upstream'[p] = upstream[p]
    BY <1>8 DEF Reopened, DevScalars
  <2>4. \A d \in Calls : call'[d] \in {"opening", "reopening"} => call'[d] = call[d]
    BY <1>8 DEF Reopened, DevScalars
  <2>5. tracked # 0 => proxyOf'[tracked] \in {proxyOf[tracked], callProxy[c]}
    BY <1>8, Numbers DEF Reopened, DevScalars
  <2> QED
    BY <2>1, <2>2, <2>3, <2>4, <2>5 DEF Upstreams, DevScalars
<1>9. ASSUME NEW hasTarget \in BOOLEAN, Fetched(c, hasTarget) PROVE Upstreams'
  <2> DEFINE p == Lowest(FreshProxies)
  <2>1. p \in Proxies /\ server[p] = "none"
    BY <1>9, FreshOnes DEF Fetched, MakeProxy
  <2>2. p # proxyOf[tracked] \/ tracked = 0
    BY <2>1 DEF Upstreams
  <2>3. UNCHANGED <<tracked, proxyOf, upstream>> /\ blind' \subseteq blind \cup {p}
    BY <1>9 DEF Fetched, MakeProxy, devStates
  <2>4. server'[p] = "bound" /\ callProxy' = [callProxy EXCEPT ![c] = p]
    BY <1>9, <2>1 DEF Fetched, MakeProxy, DevScalars
  <2>5. \A q \in Proxies : server'[q] = "none" => server[q] = "none"
    BY <1>9, <2>1 DEF Fetched, MakeProxy, DevScalars
  <2>6. (\A d \in Calls : d # c => call'[d] = call[d]) /\ call'[c] # "reopening"
    BY <1>9 DEF Fetched, DevScalars
  <2> HIDE DEF p
  <2> QED
    BY <1>6, <2>1, <2>2, <2>3, <2>4, <2>5, <2>6
<1> QED
  BY <1>1, <1>2, <1>3, <1>4, <1>5, <1>7, <1>8, <1>9 DEF CallStep, Restart, DisposeTools

-----------------------------------------------------------------------------

(* A call that has not begun or is over.                                   *)
Rests(c) == call[c] \in {"idle", "done"}

(* The proxy of the tracked state.                                         *)
Ours(p) == tracked # 0 /\ p = proxyOf[tracked]

(* The tracked state is being stopped.                                     *)
Stopped == tracked # 0 /\ life[tracked] = "STOPPING"

(* One call at a time goes on                                              *)
OneCall == \A c, d \in Calls : c = d \/ Rests(c) \/ Rests(d)

(* on the state that was tracked when it began, or when none is; it has    *)
(* closed the old proxy before it makes another.                           *)
CallFits(c) ==
    /\ call[c] \in {"stopping", "disposing", "swapping", "reopening"}
           => tracked # 0 /\ callState[c] = tracked
    /\ call[c] \in {"fetching", "opening"} => tracked = 0
    /\ call[c] = "reopening" => server[proxyOf[tracked]] # "bound"

(* A bound proxy is the tracked state's or the call's.                     *)
BoundAreHeld ==
    \A p \in Proxies : server[p] = "bound" =>
        p \in failed \/ Ours(p) \/ \E c \in Calls : Holding(c) /\ p = callProxy[c]

(* The tracked state is stopped by a call that goes on.                    *)
StopIsCalled == Stopped => \E c \in Calls : call[c] \in {"stopping", "disposing"}

(* All of it                                                               *)
Settled ==
    /\ OneCall /\ BoundAreHeld /\ StopIsCalled /\ ConnectedMeansOpen
    /\ \A c \in Calls : CallFits(c)

(* while no two calls have overlapped.                                     *)
Apart == ~overlapped => Settled

(* "connected" is said of an open upstream.                                *)
Reported ==
    tracked # 0 /\ proxyStatus[tracked] = "connected"
        => upstream[proxyOf[tracked]] = "open" \/ \E p \in failed : upstream[p] = "open"

(* What Settled says of the one call that does not rest.                   *)
OnlyCall(c) ==
    /\ CallFits(c)
    /\ \A p \in Proxies : server[p] = "bound" =>
           p \in failed \/ Ours(p) \/ (Holding(c) /\ p = callProxy[c])
    /\ Stopped => call[c] \in {"stopping", "disposing"}
    /\ Rests(c) => Reported

(* Busy are the calls that do not rest.                                    *)
LEMMA AtRest == DevScalars => Busy = {c \in Calls : ~Rests(c)}
BY DEF Busy, Rests

(* With all others at rest, what is settled is so of the one               *)
LEMMA ToOne ==
    ASSUME DevScalars, ~overlapped, Settled, NEW c \in Calls, \A d \in Calls : d = c \/ Rests(d)
    PROVE  OnlyCall(c)
<1>1. Rests(c) => Busy = {}
  BY AtRest
<1>2. Rests(c) => Reported
  BY <1>1 DEF Settled, ConnectedMeansOpen, Reported
<1> QED
  BY <1>2 DEF Settled, OnlyCall, BoundAreHeld, StopIsCalled, Rests, Holding

(* and what is so of the one is settled.                                   *)
LEMMA FromOne ==
    ASSUME DevScalars', NEW c \in Calls, \A d \in Calls : d = c \/ Rests(d)', OnlyCall(c)'
    PROVE  Settled'
<1>1. (Busy = {})' => Rests(c)'
  BY DEF Busy, Rests, DevScalars
<1>2. ConnectedMeansOpen'
  BY <1>1 DEF ConnectedMeansOpen, OnlyCall, Reported
<1>3. \A d \in Calls : CallFits(d)'
  BY DEF OnlyCall, CallFits, Rests
<1>4. OneCall' /\ BoundAreHeld' /\ StopIsCalled'
  BY DEF OnlyCall, OneCall, BoundAreHeld, StopIsCalled
<1> QED
  BY <1>2, <1>3, <1>4 DEF Settled

(* A call that overlaps with no other begins and goes on while all others  *)
(* rest.                                                                   *)
LEMMA Alone ==
    ASSUME DevScalars, Apart, NEW c \in Calls, CallStep(c), ~overlapped'
    PROVE  /\ ~overlapped /\ Settled
           /\ \A d \in Calls : d = c \/ (Rests(d) /\ call'[d] = call[d])
<1>1. ~overlapped
  BY DEF CallStep, Restart, DisposeTools, BeginStop, RestartFromNone, StopEnds, Started,
         OpeningFails, SelectTarget, Swapped, Reopened, Fetched, Begins
<1>2. \A d \in Calls : d = c \/ call'[d] = call[d]
  BY DEF CallStep, Restart, DisposeTools, BeginStop, RestartFromNone, StopEnds, Started,
         OpeningFails, SelectTarget, Swapped, Reopened, Fetched, At, DevScalars
<1>3. ~Rests(c) \/ Busy = {}
  BY DEF CallStep, Restart, DisposeTools, BeginStop, RestartFromNone, StopEnds, Started,
         OpeningFails, SelectTarget, Swapped, Reopened, Fetched, Begins, Rests
<1> QED
  BY <1>1, <1>2, <1>3, AtRest DEF Apart, Settled, OneCall

(* The beginning of a call keeps what is so of it;                         *)
LEMMA BeginsAlone ==
    ASSUME DevScalars, Upstreams, NEW c \in Calls, OnlyCall(c),
           NEW where \in {"stopping", "disposing"},
           BeginStop(c, where) \/ SelectTarget(c) \/ RestartFromNone(c)
    PROVE  OnlyCall(c)'
<1>1. UNCHANGED <<tracked, proxyOf, server, failed>> /\ call[c] = "idle"
  BY DEF BeginStop, SelectTarget, RestartFromNone, devStates, devProxies, Begins
<1>2. call'[c] \in {where, "swapping", "fetching"}
  BY DEF BeginStop, SelectTarget, RestartFromNone, At, DevScalars
<1>3. CallFits(c)'
  <2>1. CASE RestartFromNone(c)
    BY <2>1 DEF RestartFromNone, devStates, At, CallFits, DevScalars
  <2>2. CASE BeginStop(c, where) \/ SelectTarget(c)
    <3>1. tracked # 0 /\ callState'[c] = tracked /\ call'[c] \in {where, "swapping"}
      BY <2>2 DEF BeginStop, SelectTarget, At, DevScalars
    <3> QED
      BY <1>1, <3>1 DEF CallFits
  <2> QED
    BY <2>1, <2>2
<1>4. Stopped' => call'[c] \in {"stopping", "disposing"}
  BY DEF BeginStop, SelectTarget, RestartFromNone, devStates, At, Stopped, OnlyCall, DevScalars,
         Begins
<1> QED
  BY <1>1, <1>2, <1>3, <1>4 DEF OnlyCall, Ours, Holding, Rests

(* so does the end of a stop,                                              *)
LEMMA StopsAlone ==
    ASSUME DevScalars, NEW c \in Calls, OnlyCall(c), StopEnds(c) PROVE OnlyCall(c)'
<1>1. tracked # 0 /\ callState[c] = tracked /\ proxyOf[tracked] \in Proxies
  BY Numbers DEF StopEnds, OnlyCall, CallFits, DevScalars
<1>2. tracked' = 0 /\ failed' = failed /\ call'[c] \in {"fetching", "done"}
  BY DEF StopEnds, At, DevScalars
<1>3. \A p \in Proxies : server'[p] = "bound" => server[p] = "bound" /\ ~Ours(p)
  BY <1>1 DEF StopEnds, Closed, Ours, DevScalars
<1>4. ~Holding(c)
  BY DEF StopEnds, Holding
<1> QED
  BY <1>2, <1>3, <1>4 DEF OnlyCall, CallFits, Stopped, Reported

(* a proxy that is made,                                                   *)
LEMMA FetchedAlone ==
    ASSUME DevScalars, NEW c \in Calls, OnlyCall(c), NEW hasTarget \in BOOLEAN,
           Fetched(c, hasTarget)
    PROVE  OnlyCall(c)'
<1> DEFINE p == Lowest(FreshProxies)
<1>1. tracked' = 0 /\ tracked = 0 /\ failed' = failed /\ call'[c] = "opening" /\ ~Holding(c)
  BY DEF Fetched, At, DevScalars, OnlyCall, CallFits, devStates, Holding
<1>2. callProxy'[c] = p
  BY DEF Fetched, MakeProxy, DevScalars
<1>3. \A q \in Proxies : q # p => server'[q] = server[q]
  BY DEF Fetched, MakeProxy, DevScalars
<1> QED
  BY <1>1, <1>2, <1>3 DEF OnlyCall, CallFits, Stopped, Rests, Ours, Holding

(* a state that replaces the tracked one,                                  *)
LEMMA StartedAlone ==
    ASSUME DevScalars, Upstreams, NEW c \in Calls, OnlyCall(c), Started(c) PROVE OnlyCall(c)'
<1> DEFINE s == Lowest(FreshStates)
<1>1. s \in States /\ s # 0 /\ callProxy[c] \in Proxies
  BY FreshOnes, Numbers DEF Started, Upstreams, Holding
<1>2. tracked = 0 /\ tracked' = s /\ failed' = failed /\ server' = server /\ call'[c] = "done"
  BY DEF Started, At, DevScalars, OnlyCall, CallFits
<1>3. proxyOf'[s] = callProxy[c]
  BY <1>1 DEF Started, DevScalars
<1>4. life'[s] # "STOPPING"
  BY <1>1 DEF Started, DevScalars
<1>5. proxyStatus'[s] = "connected" => upstream'[callProxy[c]] = "open"
  BY <1>1 DEF Started, DevScalars
<1> HIDE DEF s
<1> QED
  BY <1>1, <1>2, <1>3, <1>4, <1>5 DEF OnlyCall, CallFits, Stopped, Reported, Ours, Holding

(* a start() that is rejected,                                             *)
LEMMA FailsAlone ==
    ASSUME DevScalars, Upstreams, NEW c \in Calls, OnlyCall(c), OpeningFails(c) PROVE OnlyCall(c)'
<1>1. UNCHANGED <<tracked, proxyOf, server, upstream>> /\ call'[c] = "done"
  BY DEF OpeningFails, At, DevScalars, devProxies
<1>2. failed' = failed \cup {callProxy[c]} /\ callProxy[c] \notin blind
  BY DEF OpeningFails
<1>3. ~Stopped
  BY DEF OpeningFails, OnlyCall
<1>4. tracked # 0 => life'[tracked] # "STOPPING" /\ proxyStatus'[tracked] # "connected"
  BY <1>2, <1>3, Numbers DEF OpeningFails, UpstreamClosed, Stopped, DevScalars
<1> QED
  BY <1>1, <1>2, <1>3, <1>4 DEF OnlyCall, CallFits, Stopped, Reported, Ours, Holding

(* a proxy made for another target                                         *)
LEMMA SwappedAlone ==
    ASSUME DevScalars, Upstreams, NEW c \in Calls, OnlyCall(c), Swapped(c) PROVE OnlyCall(c)'
<1> DEFINE p == Lowest(FreshProxies)
<1>1. p \in Proxies /\ server[p] = "none"
  BY FreshOnes DEF Swapped
<1>2. /\ tracked \in States /\ callState[c] = tracked /\ proxyOf[tracked] \in Proxies
      /\ proxyOf[tracked] # p
  BY <1>1, Numbers DEF Swapped, OnlyCall, CallFits, DevScalars, Upstreams
<1>3. /\ UNCHANGED <<tracked, life, proxyOf, failed, callState>> /\ call'[c] = "reopening"
      /\ call[c] = "swapping"
  BY DEF Swapped, At, DevScalars, devStates
<1>4. /\ server'[proxyOf[tracked]] = "closed" /\ callProxy'[c] = p
      /\ \A q \in Proxies : q \notin {p, proxyOf[tracked]} => server'[q] = server[q]
  BY <1>1, <1>2 DEF Swapped, DevScalars
<1> HIDE DEF p
<1>5. ~Stopped
  BY <1>3 DEF OnlyCall
<1> QED
  BY <1>2, <1>3, <1>4, <1>5 DEF OnlyCall, CallFits, Stopped, Reported, Ours, Holding, Rests

(* and the state that is given it.                                         *)
LEMMA ReopenedAlone ==
    ASSUME DevScalars, Upstreams, NEW c \in Calls, OnlyCall(c), Reopened(c) PROVE OnlyCall(c)'
<1>1. /\ tracked \in States /\ callState[c] = tracked /\ callProxy[c] \in Proxies
      /\ server[proxyOf[tracked]] # "bound"
  BY Numbers DEF Reopened, OnlyCall, CallFits, DevScalars, Upstreams, Holding
<1>2. UNCHANGED <<tracked, server, failed>> /\ call'[c] = "done"
  BY DEF Reopened, At, DevScalars
<1>3. /\ proxyOf'[tracked] = callProxy[c] /\ life'[tracked] = "RUNNING"
      /\ upstream'[callProxy[c]] = "open"
  BY <1>1 DEF Reopened, DevScalars
<1> QED
  BY <1>1, <1>2, <1>3, Numbers DEF OnlyCall, CallFits, Stopped, Reported, Ours, Holding

(* So whatever a call does keeps Apart,                                    *)
LEMMA CallsApart ==
    ASSUME DevScalars, Upstreams, Apart, NEW c \in Calls, CallStep(c) PROVE Apart'
<1> SUFFICES ASSUME ~overlapped' PROVE Settled'
  BY DEF Apart
<1>1. OnlyCall(c) /\ \A d \in Calls : d = c \/ Rests(d)'
  BY Alone, ToOne DEF Rests
<1>2. OnlyCall(c)'
  BY <1>1, BeginsAlone, StopsAlone, FetchedAlone, StartedAlone, FailsAlone, SwappedAlone,
     ReopenedAlone DEF CallStep, Restart, DisposeTools
<1>3. DevScalars'
  BY CallTypes DEF Upstreams
<1> QED
  BY <1>1, <1>2, <1>3, FromOne

(* and what happens by itself.                                             *)
LEMMA CallbacksApart ==
    ASSUME DevScalars, Upstreams, Apart, Callbacks PROVE Apart'
<1>0. UNCHANGED <<tracked, proxyOf, targeted, ticking, server, blind, callState, callProxy,
                  call, overlapped, failed>>
  BY DEF Callbacks, UpstreamDrops, FrontendConnects, Poll, CheckResolves, PollResolves,
         MetroEnds, devProxies, devCalls
<1> SUFFICES ASSUME ~overlapped, Settled PROVE Settled'
  BY <1>0 DEF Apart
<1>1. OneCall' /\ BoundAreHeld' /\ \A c \in Calls : CallFits(c)'
  <2>1. OneCall'
    BY <1>0 DEF Settled, OneCall, Rests
  <2>2. BoundAreHeld'
    BY <1>0 DEF Settled, BoundAreHeld, Holding, Ours
  <2>3. \A c \in Calls : CallFits(c)'
    BY <1>0 DEF Settled, CallFits
  <2> QED
    BY <2>1, <2>2, <2>3
<1>2. tracked # 0 => tracked \in States
  BY Numbers DEF DevScalars
<1>3. Stopped' => Stopped
  <2>1. ASSUME NEW p, UpstreamClosed(p) PROVE Stopped' => Stopped
    BY <1>0, <1>2, <2>1 DEF UpstreamClosed, Stopped, DevScalars
  <2>2. ASSUME NEW p \in Proxies, FrontendConnects(p, TRUE) PROVE Stopped' => Stopped
    BY <1>0, <1>2, <2>2 DEF FrontendConnects, Stopped, DevScalars
  <2>3. CASE MetroEnds
    BY <1>0, <1>2, <2>3 DEF MetroEnds, Stopped, DevScalars
  <2>4. CASE UNCHANGED life
    BY <1>0, <2>4 DEF Stopped
  <2> QED
    BY <2>1, <2>2, <2>3, <2>4 DEF Callbacks, UpstreamDrops, FrontendConnects, Poll,
                                  CheckResolves, PollResolves
<1>4. StopIsCalled'
  BY <1>0, <1>3 DEF Settled, StopIsCalled
<1>5. ASSUME Busy = {}, tracked # 0, Reported PROVE Reported'
  <2>1. ~Stopped
    BY <1>5 DEF Settled, StopIsCalled, Busy
  <2>2. ASSUME NEW p \in Proxies, UpstreamDrops(p) PROVE Reported'
    <3>1. p \notin blind
      BY <2>2 DEF UpstreamDrops, Upstreams
    <3> QED
      BY <1>2, <1>5, <2>1, <2>2, <3>1
         DEF UpstreamDrops, UpstreamClosed, Reported, Stopped, DevScalars
  <2>3. ASSUME NEW p \in Proxies, FrontendConnects(p, TRUE) PROVE Reported'
    <3>1. p \in failed \/ p = proxyOf[tracked]
      BY <1>5, <2>3 DEF FrontendConnects, Settled, BoundAreHeld, Ours, Busy, Holding
    <3>2. upstream'[p] = "open"
      BY <2>3 DEF FrontendConnects, DevScalars
    <3> QED
      BY <1>0, <3>1, <3>2 DEF Reported
  <2>4. ASSUME NEW p \in Proxies, FrontendConnects(p, FALSE) PROVE Reported'
    BY <1>0, <1>2, <1>5, <2>1, <2>4
       DEF FrontendConnects, UpstreamClosed, Reported, Stopped, DevScalars
  <2>5. ASSUME UNCHANGED upstream,
               proxyStatus'[tracked] = "connected" => proxyStatus[tracked] = "connected"
        PROVE  Reported'
    BY <1>0, <1>5, <2>5 DEF Reported
  <2>6. ASSUME NEW s \in States, NEW listed \in BOOLEAN,
               Poll(s) \/ CheckResolves(s, listed) \/ PollResolves(s, listed)
        PROVE  Reported'
    BY <1>2, <1>5, <2>5, <2>6 DEF Poll, CheckResolves, PollResolves, devProxies, DevScalars
  <2>7. CASE MetroEnds
    BY <1>2, <1>5, <2>5, <2>7 DEF MetroEnds, devProxies, DevScalars
  <2> QED
    BY <2>2, <2>3, <2>4, <2>6, <2>7 DEF Callbacks
<1>6. ConnectedMeansOpen'
  BY <1>0, <1>5 DEF Settled, ConnectedMeansOpen, Reported, Busy
<1> QED
  BY <1>1, <1>4, <1>6 DEF Settled

(* The inductive invariant of DevTools.                                    *)
DevInv == DevScalars /\ Upstreams /\ Apart

(* It holds after the start() of the boot                                  *)
LEMMA DevInvInit == DevInit => DevInv
<1> SUFFICES ASSUME DevInit PROVE DevInv
  OBVIOUS
<1>1. tracked \in {0, 1} /\ targeted \subseteq {1} /\ (tracked = 0 => targeted = {})
  BY DEF DevInit
<1>2. DevScalars
  <2>1. overlapped \in BOOLEAN
    BY Zenon DEF DevInit
  <2>2. tracked \in 0..MaxStates /\ targeted \subseteq States /\ ticking \subseteq States
    BY <1>1, DevBounds, Numbers DEF DevInit
  <2>3. /\ life \in [States -> {"none", "IDLE", "RUNNING", "RECONNECTING", "STOPPING"}]
        /\ proxyStatus \in [States -> {"no-target", "connected", "disconnected", "preempted"}]
        /\ proxyOf \in [States -> Proxies]
    BY Numbers DEF DevInit
  <2>4. /\ server \in [Proxies -> {"none", "bound", "closed"}]
        /\ upstream \in [Proxies -> {"none", "open", "terminated", "closed"}]
        /\ blind \subseteq Proxies /\ failed \subseteq Proxies
        /\ checks \subseteq States /\ polls \subseteq States
    BY <1>1, Numbers DEF DevInit
  <2>5. /\ call \in [Calls -> {"idle", "stopping", "disposing", "fetching", "opening",
                              "swapping", "reopening", "done"}]
        /\ callState \in [Calls -> 0..MaxStates] /\ callProxy \in [Calls -> 0..MaxProxies]
    BY DevBounds DEF DevInit
  <2> QED
    BY <2>1, <2>2, <2>3, <2>4, <2>5 DEF DevScalars
<1>3. Upstreams
  BY <1>1, Numbers DEF DevInit, Upstreams, Holding
<1>4. OneCall /\ StopIsCalled /\ \A c \in Calls : CallFits(c)
  <2>1. \A c \in Calls : call[c] = "idle"
    BY DEF DevInit
  <2>2. ~Stopped
    BY <1>1, Numbers DEF DevInit, Stopped
  <2> QED
    BY <2>1, <2>2 DEF OneCall, Rests, StopIsCalled, CallFits
<1>5. BoundAreHeld /\ ConnectedMeansOpen
  BY <1>1, Numbers DEF DevInit, BoundAreHeld, Ours, ConnectedMeansOpen
<1> QED
  BY <1>2, <1>3, <1>4, <1>5 DEF DevInv, Apart, Settled

(* and after every step.                                                   *)
LEMMA DevInvNext == DevInv /\ [DevNext]_devVars => DevInv'
<1>1. DevInv /\ Callbacks => DevInv'
  BY CallbackTypes, UpstreamsByThemselves, CallbacksApart DEF DevInv
<1>2. ASSUME DevInv, NEW c \in Calls, CallStep(c) PROVE DevInv'
  <2>1. DevScalars'
    BY <1>2, CallTypes DEF DevInv, Upstreams
  <2> QED
    BY <1>2, <2>1, UpstreamsOfCalls, CallsApart DEF DevInv
<1>3. ASSUME DevInv, UNCHANGED devVars PROVE DevInv'
  <2>1. DevScalars' /\ Upstreams'
    BY <1>3 DEF DevInv, devVars, devStates, devProxies, devCalls, DevScalars, Upstreams, Holding
  <2>2. Apart'
    BY <1>3 DEF DevInv, devVars, devStates, devProxies, devCalls, Apart, Settled, OneCall,
                BoundAreHeld, StopIsCalled, Stopped, ConnectedMeansOpen, CallFits, Rests, Ours,
                Holding, Busy
  <2> QED
    BY <2>1, <2>2 DEF DevInv
<1> QED
  BY <1>1, <1>2, <1>3, DevSteps

(* A proxy that is bound is the tracked state's or a call's, and           *)
(* "connected" is said of an open upstream: it is otherwise only after a   *)
(* start() that was rejected or after two calls that overlapped            *)
(* (devtools.ts:179-183, 276-291, 305-310).                                *)
THEOREM ProxiesTold == DevSpec => [](DevTypeOK /\ ProxiesAreTheirs)
<1>1. ASSUME DevInv PROVE DevTypeOK /\ ProxiesAreTheirs
  <2>1. ASSUME ~overlapped, NEW p \in Proxies, server[p] = "bound"
        PROVE  \/ p \in failed
               \/ tracked # 0 /\ proxyOf[tracked] = p
               \/ \E c \in Busy :
                     p \in {callProxy[c]} \cup {proxyOf[s] : s \in {callState[c]} \ {0}}
    <3>1. \A c \in Calls : Holding(c) => c \in Busy
      BY DEF Holding, Busy
    <3> QED
      BY <1>1, <2>1, <3>1 DEF DevInv, Apart, Settled, BoundAreHeld, Ours
  <2>2. ConnectedMeansOpen
    BY <1>1 DEF DevInv, Apart, Settled, ConnectedMeansOpen
  <2> QED
    BY <1>1, <2>1, <2>2, DevTypesAre DEF DevInv, ProxiesAreTheirs, ProxiesAreTracked
<1> QED
  BY <1>1, DevInvInit, DevInvNext, PTL DEF DevSpec

-----------------------------------------------------------------------------
(* Of the entries that were looked at, the admitted ones are registered,   *)
(* unless the script was changed during the boot.                          *)
WalkedStand ==
    stage \in {"walking", "up"} /\ (loaded.inline \/ steady) =>
        \A t \in loaded.hooks \ toWalk :
            assertOverrideOptIn(t) => \E r \in catalog : r.slot = t

(* During a boot that found the script it is there,                        *)
ScriptIsThere == stage \in {"loading", "walking"} /\ steady => scriptFile # NoFile

(* a registered file that is still there reads as it did then, unless it   *)
(* was saved;                                                              *)
Unsaved ==
    /\ scriptFile.inode = 0 => scriptFile = NoFile
    /\ \A r \in catalog : r.file.inode = 0 => r.file = NoFile
    /\ \A r \in catalog :
          r.file.inode = scriptFile.inode => r.file = scriptFile \/ r.file.inode \in overwritten

(* and what was run is registered.                                         *)
RanIsRegistered(x, r) ==
    /\ r.slot = x.slot /\ ~r.orphaned /\ r.file.inode = x.file.inode
    /\ r.file = x.file \/ x.file.inode \in overwritten
RanAreRegistered == \A x \in ran : \E r \in catalog : RanIsRegistered(x, r)

(* The inductive invariant of HookCatalog.                                 *)
HooksInv ==
    /\ WalkedStand /\ ScriptIsThere /\ Unsaved /\ RanAreRegistered
    /\ stage = "up" => toWalk = {}

(* It holds when the processes start                                       *)
LEMMA HooksInvInit == HookCatalogInit => HooksInv
BY DEF HookCatalogInit, HooksInv, WalkedStand, ScriptIsThere, Unsaved, RanAreRegistered, NoFile

(* and after every step, whatever the user edits and when. A script that   *)
(* is saved is overwritten for whoever registered its inode.               *)
LEMMA SaveKeeps ==
    ASSUME HooksInv, NEW file, file.inode = 0 => file = NoFile,
           file.inode # 0 => file.inode \in Inodes, Saves(file)
    PROVE  HooksInv'
<1>1. /\ UNCHANGED <<stage, loaded, toWalk, catalog, ran>>
      /\ scriptFile' = file /\ overwritten \subseteq overwritten'
      /\ steady' => steady /\ stage \notin {"loading", "walking"}
  BY DEF Saves, Edit, sessionVars
<1>2. ASSUME NEW r \in catalog, r.file.inode = file.inode
      PROVE  r.file = file \/ r.file.inode \in overwritten'
  <2>1. CASE file.inode = 0
    BY <1>2, <2>1 DEF HooksInv, Unsaved
  <2>2. CASE file.inode # 0
    BY <1>2, <2>2 DEF Saves, Registered
  <2> QED
    BY <2>1, <2>2
<1>3. Unsaved'
  BY <1>1, <1>2 DEF HooksInv, Unsaved
<1>4. RanAreRegistered'
  BY <1>1 DEF HooksInv, RanAreRegistered, RanIsRegistered
<1>5. WalkedStand' /\ ScriptIsThere' /\ (stage' = "up" => toWalk' = {})
  BY <1>1 DEF HooksInv, WalkedStand, ScriptIsThere, assertOverrideOptIn
<1> QED
  BY <1>3, <1>4, <1>5 DEF HooksInv

(* An entry is registered with the file that is there.                     *)
LEMMA WalkKeeps ==
    ASSUME HooksInv, NEW t \in Targets, WalkEntry(t)
    PROVE  HooksInv'
<1> DEFINE made == [slot |-> t, file |-> IF loaded.inline THEN NoFile ELSE scriptFile,
                    orphaned |-> t \notin providers]
<1>1. /\ UNCHANGED <<stage, loaded, steady, overwritten, scriptFile, ran>> /\ stage = "walking"
      /\ toWalk' = toWalk \ {t} /\ catalog \subseteq catalog'
      /\ catalog' \subseteq catalog \cup {made}
  BY DEF WalkEntry, addRegistration, sinceBoot
<1>2. ASSUME loaded.inline \/ steady, assertOverrideOptIn(t)
      PROVE  \E r \in catalog' : r.slot = t
  <2>1. resolveHookScript
    BY <1>1, <1>2 DEF HooksInv, ScriptIsThere, resolveHookScript
  <2>2. made \in catalog' /\ made.slot = t
    BY <1>2, <2>1 DEF WalkEntry, addRegistration
  <2> QED
    BY <2>2
<1>3. WalkedStand'
  BY <1>1, <1>2 DEF HooksInv, WalkedStand, assertOverrideOptIn
<1>4. made.file = NoFile \/ made.file = scriptFile
  OBVIOUS
<1> HIDE DEF made
<1>5. Unsaved'
  <2>1. ASSUME NEW r \in catalog' PROVE r \in catalog \/ r.file = NoFile \/ r.file = scriptFile
    BY <1>1, <1>4, <2>1
  <2>2. NoFile.inode = 0
    BY DEF NoFile
  <2> QED
    BY <1>1, <2>1, <2>2 DEF HooksInv, Unsaved
<1>6. RanAreRegistered'
  BY <1>1 DEF HooksInv, RanAreRegistered, RanIsRegistered
<1>7. ScriptIsThere' /\ stage' # "up"
  BY <1>1 DEF HooksInv, ScriptIsThere
<1> QED
  BY <1>3, <1>5, <1>6, <1>7 DEF HooksInv

(* What is fired is registered, and reads as registered unless it was      *)
(* saved.                                                                  *)
LEMMA FireKeeps ==
    ASSUME HooksInv, NEW t, FireSlot(t), UNCHANGED <<catalog, overwritten>>
    PROVE  RanAreRegistered'
<1>1. ASSUME NEW r \in Fired(t), SameFile(r)
      PROVE  RanIsRegistered([slot |-> t, file |-> ReadNow(r)], r) /\ r \in catalog
  <2>1. r \in catalog /\ r.slot = t /\ ~r.orphaned
    BY DEF Fired
  <2>2. CASE r.file = NoFile
    BY <2>1, <2>2 DEF ReadNow, RanIsRegistered
  <2>3. CASE r.file # NoFile
    <3>1. r.file.inode = scriptFile.inode
      BY <1>1, <2>1, <2>3 DEF SameFile, HooksInv, Unsaved
    <3>2. r.file = scriptFile \/ r.file.inode \in overwritten
      BY <2>1, <3>1 DEF HooksInv, Unsaved
    <3> QED
      BY <2>1, <2>3, <3>1, <3>2 DEF ReadNow, RanIsRegistered
  <2> QED
    BY <2>2, <2>3, <2>1
<1>2. ASSUME NEW x \in ran' PROVE \E r \in catalog : RanIsRegistered(x, r)
  <2>1. CASE x \in ran
    BY <2>1 DEF HooksInv, RanAreRegistered
  <2>2. CASE \E r \in Fired(t) : SameFile(r) /\ x = [slot |-> t, file |-> ReadNow(r)]
    BY <1>1, <2>2
  <2> QED
    BY <2>1, <2>2 DEF FireSlot
<1> QED
  BY <1>2 DEF RanAreRegistered, RanIsRegistered

LEMMA HooksInvNext == HooksInv /\ [HookCatalogNext]_hookCatalogVars => HooksInv'
<1> SUFFICES ASSUME HooksInv, [HookCatalogNext]_hookCatalogVars PROVE HooksInv'
  OBVIOUS
<1> USE DEF HooksInv, WalkedStand, ScriptIsThere, Unsaved, RanAreRegistered, RanIsRegistered,
            assertOverrideOptIn, sinceBoot
<1>1. CASE EditsConfig \/ InstallsModule
  BY <1>1 DEF EditsConfig, InstallsModule, Edit, sessionVars
<1>2. CASE SavesScript
  <2> HIDE DEF HooksInv
  <2>1. PICK file : /\ Saves(file)
                    /\ file.inode = 0 => file = NoFile
                    /\ file.inode # 0 => file.inode \in Inodes
    <3>1. CASE Saves(NoFile)
      BY <3>1 DEF NoFile
    <3>2. CASE \E n \in Inodes : Saves([inode |-> n, text |-> counts.edits + 2])
      <4>1. 0 \notin Inodes
        BY EditsAssumption DEF Inodes
      <4> QED
        BY <3>2, <4>1
    <3> QED
      BY <1>2, <3>1, <3>2 DEF SavesScript
  <2> QED
    BY <2>1, SaveKeeps
<1>3. CASE DaemonStarts \/ SessionEnds \/ validateHookConfig
  BY <1>3 DEF DaemonStarts, SessionEnds, validateHookConfig, sessionVars
<1>4. CASE BootDeclares
  BY <1>4 DEF BootDeclares
<1>5. CASE LoadsConfig \/ LoadTimesOut
  <2>1. UNCHANGED <<scriptFile, catalog, ran, steady, overwritten>> /\ stage = "loading"
    BY <1>5 DEF LoadsConfig, LoadTimesOut
  <2>2. stage' = "walking" /\ toWalk' = loaded'.hooks
    BY <1>5 DEF LoadsConfig, LoadTimesOut, Walks
  <2> QED
    BY <2>1, <2>2
<1>6. CASE InitFires
  <2>1. RanAreRegistered'
    BY <1>6, FireKeeps DEF InitFires
  <2> QED
    BY <1>6, <2>1 DEF InitFires
<1>7. ASSUME NEW t \in Targets, HookFires(t) PROVE HooksInv'
  <2>1. RanAreRegistered'
    BY <1>7, FireKeeps DEF HookFires, sessionVars
  <2> QED
    BY <1>7, <2>1 DEF HookFires, sessionVars
<1>8. ASSUME NEW p \in HookProcesses, ProcessEnds(p) PROVE HooksInv'
  BY <1>8 DEF ProcessEnds
<1>9. CASE UNCHANGED hookCatalogVars
  BY <1>9 DEF hookCatalogVars, sessionVars
<1> QED
  BY <1>1, <1>2, <1>3, <1>4, <1>5, <1>6, <1>7, <1>8, <1>9, WalkKeeps DEF HookCatalogNext

(* A session runs what its boot registered, all that was admitted and      *)
(* nothing else, and a script as it was registered unless that very file   *)
(* was saved since, for any slots and any number of edits.                 *)
THEOREM RegisteredRuns == HookCatalogSpec => []HooksAreTheBoots
<1>1. HooksInv => HooksAreTheBoots
  BY DEF HooksInv, HooksAreTheBoots, OtherEntriesStand, OnlyRegisteredRuns, WalkedStand,
         RanAreRegistered, RanIsRegistered
<1> QED
  BY <1>1, HooksInvInit, HooksInvNext, PTL DEF HookCatalogSpec
===============================================================================

-------------------------- MODULE Subprocesses_proofs ---------------------------
(***************************************************************************)
(* Proofs about what the daemon runs as subprocesses.                      *)
(*                                                                         *)
(* HookRunner, for any number of fires, any slots of hooks and any cap:    *)
(* hard hooks stop a fire, and what is kept of the runs in memory and on   *)
(* disk is true of them.  A fire does not pass over a registration before  *)
(* it has an outcome, an outcome is final, and a sentinel is that of a     *)
(* subprocess (PassedOver, Subprocesses, Locked).                          *)
(*                                                                         *)
(* ModuleHost, for any requests and any number of spawns: who holds a      *)
(* module is counted, and it is lost only by an overlap.  The entry in the *)
(* map is the tip of its line of respawns (Shape, Chains); the tip counts  *)
(* who holds any instance of the line, also while the map has another      *)
(* entry or none (Counted), which is what a respawn hands over.  Without   *)
(* an overlap the map has whatever runs (Apart).                           *)
(* So each step without one is a step of ModuleService: what ends is the   *)
(* entry, and what comes replaces nothing or what has crashed.             *)
(***************************************************************************)
EXTENDS MCSubprocesses, FiniteSetTheorems, WellFoundedInduction, TLAPS

PassedOver ==
    \A f \in Fires : \A r \in Regs(f) :
        r < reg[f] => Slot[f][r].kind = "orphaned" \/ outcome[<<f, r>>] # "none"

(* Only a subprocess has a sentinel, and only scripts and overrides are    *)
(* subprocesses.                                                           *)
Subprocesses ==
    \A h \in Hooks :
        /\ child[h] = "none" => lock[h] = "none"
        /\ child[h] # "none" => Slot[h[1]][h[2]].kind \in {"script", "override"}

(* Until a sweep, a subprocess whose run goes on has its sentinel.         *)
Locked ==
    owner # "swept" =>
        \A h \in Hooks : child[h] = "alive" /\ outcome[h] = "none" /\ h \notin unlocked
                            => lock[h] = "written"

(* The inductive invariant.                                                *)
RunnerInv ==
    /\ RunnerTypeOK
    /\ PassedOver /\ Subprocesses /\ Locked
    /\ HardHookStops
    /\ InflightIsFires /\ NoLockOutlivesRun /\ SweepReaps

-----------------------------------------------------------------------------
(* A slot is a sequence of registrations.                                  *)
LEMMA SlotIsSequence ==
    ASSUME NEW f \in Fires
    PROVE  Len(Slot[f]) \in Nat \ {0} /\ Regs(f) = 1..Len(Slot[f])
BY SlotAssumption DEF Regs

(* The hook that a fire is at is one of its slot.                          *)
LEMMA HookOfFire ==
    /\ \A f \in Fires : \A r \in Regs(f) : <<f, r>> \in Hooks
    /\ \A h \in Hooks : h[1] \in Fires /\ h[2] \in Regs(h[1]) /\ h = <<h[1], h[2]>>
BY DEF Hooks

(* How the counter follows the fires that dispatch.                        *)
Dispatching == {f \in Fires : fire[f] = "running"}

(* Finitely many fires run at once.                                        *)
LEMMA DispatchingFinite ==
    /\ IsFiniteSet(Dispatching) /\ Cardinality(Dispatching) \in Nat
    /\ \A f \in Fires : fire[f] = "running" => Cardinality(Dispatching) > 0
<1>1. IsFiniteSet(Dispatching)
  BY FiresAssumption, FS_Subset DEF Dispatching
<1>2. Cardinality(Dispatching) \in Nat
  BY <1>1, FS_CardinalityType
<1>3. \A f \in Fires : fire[f] = "running" => Cardinality(Dispatching) # 0
  BY <1>1, FS_EmptySet DEF Dispatching
<1> QED
  BY <1>1, <1>2, <1>3

(* A fire that begins to run is one more.                                  *)
LEMMA OneMore ==
    ASSUME NEW f \in Fires, RunnerInv, fire[f] # "running", End(f, "running")
    PROVE  Cardinality(Dispatching)' = Cardinality(Dispatching) + 1
<1>1. Dispatching' = Dispatching \cup {f} /\ f \notin Dispatching
  BY DEF Dispatching, End, RunnerInv, RunnerTypeOK
<1> QED
  BY <1>1, DispatchingFinite, FS_AddElement

(* A fire that ends is one less.                                           *)
LEMMA OneLess ==
    ASSUME NEW f \in Fires, RunnerInv, fire[f] = "running", NEW s, s # "running", End(f, s)
    PROVE  Cardinality(Dispatching)' = Cardinality(Dispatching) - 1
<1>1. Dispatching' = Dispatching \ {f} /\ f \in Dispatching
  BY DEF Dispatching, End, RunnerInv, RunnerTypeOK
<1> QED
  BY <1>1, DispatchingFinite, FS_RemoveElement

(* The invariant holds before anything is fired.                           *)
LEMMA RunnerStartsSo == RunnerInit => RunnerInv
<1> SUFFICES ASSUME RunnerInit PROVE RunnerInv
  OBVIOUS
<1>1. RunnerTypeOK
  BY SlotIsSequence, CapAssumption DEF RunnerInit, RunnerTypeOK, Failures
<1>2. PassedOver
  BY SlotIsSequence DEF RunnerInit, PassedOver
<1>3. InflightIsFires
  BY FS_EmptySet DEF RunnerInit, InflightIsFires
<1>4. Subprocesses /\ Locked /\ HardHookStops /\ NoLockOutlivesRun /\ SweepReaps
  BY DEF RunnerInit, Subprocesses, Locked, HardHookStops, NoLockOutlivesRun, SweepReaps
<1> QED
  BY <1>1, <1>2, <1>3, <1>4 DEF RunnerInv

-----------------------------------------------------------------------------
(* What becomes of fires does not touch the runs of their hooks.           *)
LEMMA HooksUntouched ==
    ASSUME RunnerInv, UNCHANGED <<owner, hook>>
    PROVE  Subprocesses' /\ Locked' /\ NoLockOutlivesRun' /\ SweepReaps'
BY DEF hook, RunnerInv, Subprocesses, Locked, NoLockOutlivesRun, SweepReaps

(* What a fire does between its hooks keeps the invariant.                 *)
LEMMA FireKeeps ==
    ASSUME RunnerInv, NEW f \in Fires,
           FireFull(f) \/ FireStarts(f) \/ Advance(f) \/ AuditThrows(f) \/ FireEnds(f)
    PROVE  RunnerInv'
<1>1. UNCHANGED <<owner, hook>>
  BY DEF FireFull, FireStarts, Advance, AuditThrows, FireEnds
<1>2. Subprocesses' /\ Locked' /\ NoLockOutlivesRun' /\ SweepReaps'
  BY <1>1, HooksUntouched
<1>3. UNCHANGED outcome
  BY <1>1 DEF hook
<1>4. CASE FireFull(f)
  <2>1. \E s \in {"thrown", "full"} : fire' = [fire EXCEPT ![f] = s]
    BY <1>4 DEF FireFull, End
  <2>2. fire[f] = "idle" /\ UNCHANGED <<inflight, reg>>
    BY <1>4 DEF FireFull
  <2>3. RunnerTypeOK'
    BY <1>1, <2>1, <2>2 DEF hook, RunnerInv, RunnerTypeOK
  <2>4. PassedOver'
    BY <1>3, <2>2 DEF RunnerInv, PassedOver
  <2>5. HardHookStops'
    BY <1>3, <2>1 DEF RunnerInv, RunnerTypeOK, HardHookStops
  <2>6. InflightIsFires'
    BY <2>1, <2>2 DEF RunnerInv, RunnerTypeOK, InflightIsFires
  <2> QED
    BY <1>2, <2>3, <2>4, <2>5, <2>6 DEF RunnerInv
<1>5. CASE FireStarts(f)
  <2>1. /\ fire[f] = "idle" /\ fire' = [fire EXCEPT ![f] = "running"] /\ End(f, "running")
        /\ inflight < Cap /\ inflight' = inflight + 1 /\ UNCHANGED reg
    BY <1>5 DEF FireStarts, End
  <2>2. RunnerTypeOK'
    BY <1>1, <2>1, CapAssumption DEF hook, RunnerInv, RunnerTypeOK
  <2>3. PassedOver'
    BY <1>3, <2>1 DEF RunnerInv, PassedOver
  <2>4. HardHookStops'
    BY <1>3, <2>1 DEF RunnerInv, RunnerTypeOK, HardHookStops
  <2>5. InflightIsFires'
    BY <2>1, OneMore DEF RunnerInv, InflightIsFires, Dispatching
  <2> QED
    BY <1>2, <2>2, <2>3, <2>4, <2>5 DEF RunnerInv
<1>6. CASE Advance(f)
  <2>1. /\ reg[f] \in Regs(f)
        /\ Slot[f][reg[f]].kind = "orphaned" \/ outcome[<<f, reg[f]>>] # "none"
        /\ reg' = [reg EXCEPT ![f] = reg[f] + 1]
        /\ UNCHANGED <<inflight, fire>>
    BY <1>6 DEF Advance
  <2>2. \A g \in Fires : reg'[g] = IF g = f THEN reg[f] + 1 ELSE reg[g]
    BY <2>1 DEF RunnerInv, RunnerTypeOK
  <2>3. RunnerTypeOK'
    <3>1. \A g \in Fires : reg'[g] \in 1..(Len(Slot[g]) + 1)
      BY <2>1, <2>2, SlotIsSequence DEF RunnerInv, RunnerTypeOK
    <3>2. reg' \in [Fires -> Nat]
      BY <2>1, <2>2, <3>1, SlotIsSequence DEF RunnerInv, RunnerTypeOK
    <3> QED
      BY <1>1, <2>1, <3>1, <3>2 DEF hook, RunnerInv, RunnerTypeOK
  <2>4. PassedOver'
    <3> SUFFICES ASSUME NEW g \in Fires, NEW r \in Regs(g), r < reg'[g]
                 PROVE  Slot[g][r].kind = "orphaned" \/ outcome[<<g, r>>] # "none"
      BY <1>3 DEF PassedOver
    <3>1. CASE r < reg[g]
      BY <3>1 DEF RunnerInv, PassedOver
    <3>2. CASE ~(r < reg[g])
      <4>1. reg[g] \in Nat /\ r \in Nat
        BY SlotIsSequence DEF RunnerInv, RunnerTypeOK
      <4>2. g = f /\ r = reg[f]
        BY <2>2, <3>2, <4>1
      <4> QED
        BY <2>1, <4>2
    <3> QED
      BY <3>1, <3>2
  <2>5. HardHookStops' /\ InflightIsFires'
    BY <1>3, <2>1 DEF RunnerInv, HardHookStops, InflightIsFires
  <2> QED
    BY <1>2, <2>3, <2>4, <2>5 DEF RunnerInv
<1>7. CASE AuditThrows(f) \/ FireEnds(f)
  <2>1. /\ fire[f] = "running" /\ inflight' = inflight - 1 /\ UNCHANGED reg
        /\ \E s \in {"thrown", "ok", "failed"} : End(f, s)
    BY <1>7 DEF AuditThrows, FireEnds, Running
  <2>2. inflight > 0
    BY <2>1, DispatchingFinite DEF RunnerInv, InflightIsFires, Dispatching
  <2>3. RunnerTypeOK'
    BY <1>1, <2>1, <2>2, CapAssumption DEF hook, End, RunnerInv, RunnerTypeOK
  <2>4. PassedOver'
    BY <1>3, <2>1 DEF RunnerInv, PassedOver
  <2>5. InflightIsFires'
    BY <2>1, OneLess DEF RunnerInv, InflightIsFires, Dispatching
  <2>6. HardHookStops'
    <3> SUFFICES ASSUME fire'[f] \in {"ok", "failed"}, NEW r \in Regs(f),
                        Slot[f][r].hard, Slot[f][r].kind # "orphaned"
                 PROVE  outcome[<<f, r>>] = "ok"
      BY <1>3, <2>1 DEF End, RunnerInv, RunnerTypeOK, HardHookStops
    <3>1. FireEnds(f)
      BY <1>7 DEF AuditThrows, End, RunnerInv, RunnerTypeOK
    <3>2. reg[f] \notin Regs(f) /\ reg[f] \in 1..(Len(Slot[f]) + 1)
      BY <3>1 DEF FireEnds, RunnerInv, RunnerTypeOK
    <3>3. r < reg[f]
      BY <3>2, SlotIsSequence
    <3>4. outcome[<<f, r>>] # "none"
      BY <3>3 DEF RunnerInv, PassedOver
    <3>5. ~Failed(f, r)
      BY <3>1 DEF FireEnds, End, RunnerInv, RunnerTypeOK
    <3>6. <<f, r>> \in Hooks
      BY HookOfFire
    <3> QED
      BY <3>4, <3>5, <3>6 DEF Failed, Failures, RunnerInv, RunnerTypeOK
  <2> QED
    BY <1>2, <2>3, <2>4, <2>5, <2>6 DEF RunnerInv
<1> QED
  BY <1>4, <1>5, <1>6, <1>7

-----------------------------------------------------------------------------
(* An outcome is final: what the runs of hooks come to takes nothing back  *)
(* that a fire has passed over or ended by.                                *)
LEMMA FiresUntouched ==
    ASSUME RunnerInv, UNCHANGED <<inflight, fire, reg>>,
           \A h \in Hooks : outcome[h] # "none" => outcome'[h] = outcome[h]
    PROVE  PassedOver' /\ HardHookStops' /\ InflightIsFires'
<1>1. PassedOver'
  BY HookOfFire DEF RunnerInv, PassedOver
<1>2. HardHookStops'
  BY HookOfFire DEF RunnerInv, HardHookStops
<1>3. InflightIsFires'
  BY DEF RunnerInv, InflightIsFires
<1> QED
  BY <1>1, <1>2, <1>3

(* A hook begins: a function settles, or a subprocess is spawned or not.   *)
LEMMA BeginKeeps ==
    ASSUME RunnerInv, NEW f \in Fires,
           \/ \E o \in {"ok", "failed"} : FnSettles(f, o)
           \/ SpawnFails(f) \/ SpawnHook(f) \/ SpawnUnread(f) \/ SpawnThenCrash(f)
    PROVE  RunnerInv'
<1> DEFINE h == <<f, reg[f]>>
<1>1. h \in Hooks /\ owner = "up" /\ outcome[h] = "none" /\ child[h] = "none" /\ lock[h] = "none"
  <2>1. CASE \E o \in {"ok", "failed"} : FnSettles(f, o)
    <3>1. h \in Hooks /\ owner = "up" /\ outcome[h] = "none" /\ Slot[f][reg[f]].kind = "fn"
      BY <2>1, HookOfFire DEF FnSettles, AtKind, Running
    <3>2. child[h] = "none"
      BY <3>1 DEF RunnerInv, Subprocesses
    <3> QED
      BY <3>1, <3>2 DEF RunnerInv, Subprocesses
  <2>2. CASE SpawnFails(f) \/ SpawnHook(f) \/ SpawnUnread(f) \/ SpawnThenCrash(f)
    <3>1. \E x \in Hooks : ToSpawn(f, x)
      BY <2>2 DEF SpawnFails, SpawnHook, SpawnUnread, SpawnThenCrash
    <3>2. /\ h \in Hooks /\ owner = "up" /\ outcome[h] = "none" /\ child[h] = "none"
      BY <3>1 DEF ToSpawn, AtKind, Running
    <3> QED
      BY <3>2 DEF RunnerInv, Subprocesses
  <2> QED
    BY <2>1, <2>2
<1>2. CASE (\E o \in {"ok", "failed"} : FnSettles(f, o)) \/ SpawnFails(f)
  <2>1. /\ \E o \in {"ok", "failed"} : outcome' = [outcome EXCEPT ![h] = o]
        /\ UNCHANGED <<owner, inflight, fire, reg, child, got, lock, unlocked>>
    BY <1>2 DEF FnSettles, SpawnFails, ToSpawn
  <2>2. PassedOver' /\ HardHookStops' /\ InflightIsFires'
    BY <1>1, <2>1, FiresUntouched DEF RunnerInv, RunnerTypeOK
  <2>3. RunnerTypeOK'
    BY <1>1, <2>1 DEF RunnerInv, RunnerTypeOK, Failures
  <2>4. Subprocesses' /\ Locked' /\ NoLockOutlivesRun' /\ SweepReaps'
    <3>1. Subprocesses'
      BY <1>1, <2>1 DEF RunnerInv, RunnerTypeOK, Subprocesses
    <3>2. Locked'
      BY <1>1, <2>1 DEF RunnerInv, RunnerTypeOK, Locked
    <3>3. NoLockOutlivesRun'
      BY <1>1, <2>1 DEF RunnerInv, RunnerTypeOK, NoLockOutlivesRun
    <3>4. SweepReaps'
      BY <1>1, <2>1 DEF RunnerInv, RunnerTypeOK, SweepReaps
    <3> QED
      BY <3>1, <3>2, <3>3, <3>4
  <2> QED
    BY <2>2, <2>3, <2>4 DEF RunnerInv
<1>3. CASE SpawnUnread(f)
  <2>1. /\ outcome' = [outcome EXCEPT ![h] = "failed"]
        /\ child' = [child EXCEPT ![h] = "alive"]
        /\ Slot[f][reg[f]].kind \in {"script", "override"}
        /\ UNCHANGED <<owner, inflight, fire, reg, got, lock, unlocked>>
    BY <1>3 DEF SpawnUnread, ToSpawn, AtKind
  <2>2. PassedOver' /\ HardHookStops' /\ InflightIsFires'
    BY <1>1, <2>1, FiresUntouched DEF RunnerInv, RunnerTypeOK
  <2>3. RunnerTypeOK'
    BY <1>1, <2>1 DEF RunnerInv, RunnerTypeOK, Failures
  <2>4. Subprocesses' /\ Locked' /\ NoLockOutlivesRun' /\ SweepReaps'
    <3>1. Subprocesses'
      BY <1>1, <2>1 DEF RunnerInv, RunnerTypeOK, Subprocesses
    <3>2. Locked'
      BY <1>1, <2>1 DEF RunnerInv, RunnerTypeOK, Locked
    <3>3. NoLockOutlivesRun'
      BY <1>1, <2>1 DEF RunnerInv, RunnerTypeOK, NoLockOutlivesRun
    <3>4. SweepReaps'
      BY <1>1, <2>1 DEF RunnerInv, RunnerTypeOK, SweepReaps
    <3> QED
      BY <3>1, <3>2, <3>3, <3>4
  <2> QED
    BY <2>2, <2>3, <2>4 DEF RunnerInv
<1>4. CASE SpawnHook(f) \/ SpawnThenCrash(f)
  <2>1. PICK l \in {"none", "empty", "written"} :
             /\ child' = [child EXCEPT ![h] = "alive"]
             /\ lock' = [lock EXCEPT ![h] = l]
             /\ \/ l = "written" /\ unlocked' = unlocked
                \/ unlocked' = unlocked \cup {h}
             /\ owner' \in {"up", "dead"}
             /\ Slot[f][reg[f]].kind \in {"script", "override"}
             /\ UNCHANGED <<inflight, fire, reg, outcome, got>>
    BY <1>1, <1>4 DEF SpawnHook, SpawnThenCrash, ToSpawn, AtKind
  <2>2. PassedOver' /\ HardHookStops' /\ InflightIsFires'
    BY <2>1, FiresUntouched
  <2>3. RunnerTypeOK'
    BY <1>1, <2>1 DEF RunnerInv, RunnerTypeOK
  <2>4. Subprocesses' /\ Locked' /\ SweepReaps'
    BY <1>1, <2>1 DEF RunnerInv, RunnerTypeOK, Subprocesses, Locked, SweepReaps
  <2>5. NoLockOutlivesRun'
    BY <1>1, <2>1 DEF RunnerInv, RunnerTypeOK, NoLockOutlivesRun
  <2> QED
    BY <2>2, <2>3, <2>4, <2>5 DEF RunnerInv
<1> QED
  BY <1>2, <1>3, <1>4

(* finish(), whoever calls it.                                             *)
LEMMA FinishKeeps ==
    ASSUME RunnerInv, NEW h \in Hooks, NEW o \in {"ok", "failed", "timeout"}, Finish(h, o),
           UNCHANGED <<owner, inflight, fire, reg, child, unlocked>>
    PROVE  RunnerInv'
<1>1. /\ outcome[h] = "none"
      /\ outcome' = [outcome EXCEPT ![h] = o]
      /\ lock' = [lock EXCEPT ![h] = "none"]
      /\ got' = [got EXCEPT ![h] = "nothing"]
  BY DEF Finish, Unresolved
<1>2. PassedOver' /\ HardHookStops' /\ InflightIsFires'
  BY <1>1, FiresUntouched DEF RunnerInv, RunnerTypeOK
<1>3. RunnerTypeOK'
  BY <1>1 DEF RunnerInv, RunnerTypeOK, Failures
<1>4. Subprocesses' /\ Locked' /\ NoLockOutlivesRun' /\ SweepReaps'
  <2>1. Subprocesses'
    BY <1>1 DEF RunnerInv, RunnerTypeOK, Subprocesses
  <2>2. Locked'
    BY <1>1 DEF RunnerInv, RunnerTypeOK, Locked
  <2>3. NoLockOutlivesRun'
    BY <1>1 DEF RunnerInv, RunnerTypeOK, NoLockOutlivesRun
  <2>4. SweepReaps'
    BY <1>1 DEF RunnerInv, RunnerTypeOK, SweepReaps
  <2> QED
    BY <2>1, <2>2, <2>3, <2>4
<1> QED
  BY <1>2, <1>3, <1>4 DEF RunnerInv

(* What happens to the subprocess of a hook keeps the invariant.           *)
LEMMA RunKeeps ==
    ASSUME RunnerInv, NEW h \in Hooks,
           \/ \E g \in {"some", "result"} : Read(h, g)
           \/ \E code \in {"zero", "nonzero"} : Exit(h, code)
           \/ KillTimer(h)
    PROVE  RunnerInv'
<1>1. /\ got' \in [Hooks -> {"nothing", "some", "result"}]
      /\ child' \in [Hooks -> {"none", "alive", "zero", "nonzero"}]
      /\ \A x \in Hooks : /\ child'[x] = "none" <=> child[x] = "none"
                          /\ child'[x] = "alive" => child[x] = "alive"
      /\ UNCHANGED <<owner, inflight, fire, reg, outcome, lock, unlocked>>
  <2>0. /\ got \in [Hooks -> {"nothing", "some", "result"}]
        /\ child \in [Hooks -> {"none", "alive", "zero", "nonzero"}]
    BY DEF RunnerInv, RunnerTypeOK
  <2>1. CASE \E g \in {"some", "result"} : Read(h, g)
    BY <2>0, <2>1 DEF Read
  <2>2. CASE \E code \in {"zero", "nonzero"} : Exit(h, code)
    BY <2>0, <2>2 DEF Exit
  <2>3. CASE KillTimer(h)
    BY <2>0, <2>3 DEF KillTimer
  <2> QED
    BY <2>1, <2>2, <2>3
<1>2. PassedOver' /\ HardHookStops' /\ InflightIsFires'
  BY <1>1, FiresUntouched
<1>3. RunnerTypeOK'
  BY <1>1 DEF RunnerInv, RunnerTypeOK
<1>4. Subprocesses' /\ Locked' /\ NoLockOutlivesRun' /\ SweepReaps'
  <2>1. Subprocesses'
    BY <1>1 DEF RunnerInv, RunnerTypeOK, Subprocesses
  <2>2. Locked'
    BY <1>1 DEF RunnerInv, RunnerTypeOK, Locked
  <2>3. NoLockOutlivesRun'
    BY <1>1 DEF RunnerInv, RunnerTypeOK, NoLockOutlivesRun
  <2>4. SweepReaps'
    BY <1>1 DEF RunnerInv, RunnerTypeOK, SweepReaps
  <2> QED
    BY <2>1, <2>2, <2>3, <2>4
<1> QED
  BY <1>2, <1>3, <1>4 DEF RunnerInv

(* The death of the daemon keeps the invariant.                            *)
LEMMA DieKeeps == RunnerInv /\ DaemonDies => RunnerInv'
<1> SUFFICES ASSUME RunnerInv, DaemonDies PROVE RunnerInv'
  OBVIOUS
<1>1. owner = "up" /\ owner' = "dead" /\ UNCHANGED <<inflight, fire, reg, child, outcome, got, lock, unlocked>>
  BY DEF DaemonDies, hook
<1> QED
  BY <1>1, FiresUntouched
     DEF RunnerInv, RunnerTypeOK, Subprocesses, Locked, NoLockOutlivesRun, SweepReaps

(* The sweep finds the sentinel of whatever still runs on.                 *)
LEMMA SweepKeeps == RunnerInv /\ Sweep => RunnerInv'
<1> SUFFICES ASSUME RunnerInv, Sweep PROVE RunnerInv'
  OBVIOUS
<1>1. /\ owner = "dead" /\ owner' = "swept"
      /\ child' = [h \in Hooks |-> IF lock[h] = "written" /\ child[h] = "alive"
                                   THEN "nonzero" ELSE child[h]]
      /\ lock' = [h \in Hooks |-> "none"]
      /\ UNCHANGED <<inflight, fire, reg, outcome, got, unlocked>>
  BY DEF Sweep
<1>2. PassedOver' /\ HardHookStops' /\ InflightIsFires'
  BY <1>1, FiresUntouched
<1>3. RunnerTypeOK'
  BY <1>1 DEF RunnerInv, RunnerTypeOK
<1>4. Subprocesses' /\ Locked' /\ NoLockOutlivesRun'
  BY <1>1 DEF RunnerInv, RunnerTypeOK, Subprocesses, Locked, NoLockOutlivesRun
<1>5. SweepReaps'
  BY <1>1 DEF RunnerInv, Locked, SweepReaps
<1> QED
  BY <1>2, <1>3, <1>4, <1>5 DEF RunnerInv

-----------------------------------------------------------------------------
(* Every step keeps the invariant.                                         *)
LEMMA RunnerNextInv == RunnerInv /\ [RunnerNext]_runnerVars => RunnerInv'
<1> SUFFICES ASSUME RunnerInv, [RunnerNext]_runnerVars PROVE RunnerInv'
  OBVIOUS
<1>1. ASSUME NEW f \in Fires,
             FireFull(f) \/ FireStarts(f) \/ Advance(f) \/ AuditThrows(f) \/ FireEnds(f)
      PROVE  RunnerInv'
  BY <1>1, FireKeeps
<1>2. ASSUME NEW f \in Fires,
             \/ \E o \in {"ok", "failed"} : FnSettles(f, o)
             \/ SpawnFails(f) \/ SpawnHook(f) \/ SpawnUnread(f) \/ SpawnThenCrash(f)
      PROVE  RunnerInv'
  BY <1>2, BeginKeeps
<1>3. ASSUME NEW h \in Hooks, ReadFatal(h) \/ ExitHeard(h) \/ Timeout(h) PROVE RunnerInv'
  <2>1. /\ \E o \in {"ok", "failed", "timeout"} : Finish(h, o)
        /\ UNCHANGED <<owner, inflight, fire, reg, child, unlocked>>
    BY <1>3 DEF ReadFatal, ExitHeard, Timeout
  <2> QED
    BY <2>1, FinishKeeps
<1>4. ASSUME NEW h \in Hooks,
             \/ \E g \in {"some", "result"} : Read(h, g)
             \/ \E code \in {"zero", "nonzero"} : Exit(h, code)
             \/ KillTimer(h)
      PROVE  RunnerInv'
  BY <1>4, RunKeeps
<1>5. CASE DaemonDies
  BY <1>5, DieKeeps
<1>6. CASE Sweep
  BY <1>6, SweepKeeps
<1>7. CASE UNCHANGED runnerVars
  <2>1. UNCHANGED <<owner, inflight, fire, reg, child, outcome, got, lock, unlocked>>
    BY <1>7 DEF runnerVars, hook
  <2> QED
    BY <2>1, FiresUntouched
       DEF RunnerInv, RunnerTypeOK, Subprocesses, Locked, NoLockOutlivesRun, SweepReaps
<1> QED
  BY <1>1, <1>2, <1>3, <1>4, <1>5, <1>6, <1>7 DEF RunnerNext

(* A fire that returns has run every hard hook of its slot to success      *)
(* (hooks/manager.ts:122-166), for any slots, fires and cap.               *)
THEOREM HardHooksStop == RunnerSpec => []HardHookStops
<1>1. RunnerInv => HardHookStops
  BY DEF RunnerInv
<1> QED
  BY RunnerStartsSo, RunnerNextInv, <1>1, PTL DEF RunnerSpec

(* The cap never wears out, no sentinel outlives its run while the daemon  *)
(* lives, and a sweep leaves no subprocess whose sentinel was written      *)
(* (dispatcher.ts:97-137, hook-orphan-sweep.ts).                           *)
THEOREM AccountsKept == RunnerSpec => []AccountsAreTrue
<1>1. RunnerInv => AccountsAreTrue
  BY DEF RunnerInv, AccountsAreTrue
<1> QED
  BY RunnerStartsSo, RunnerNextInv, <1>1, PTL DEF RunnerSpec

-----------------------------------------------------------------------------
(* The map has had the entry of n: its handshake ended well, or a respawn  *)
(* has replaced it.  The last one of a line that was entered is its tip.   *)
Entered(n) == state[n] \in {"active", "stopping", "idle"} \/ \E m \in Spawns : origin[m] = n
Tip(e) == Entered(e) /\ \A n \in Spawns : origin[n] = e => ~Entered(n)

(* Instances are born in order.                                            *)
Births == \A n \in Spawns : state[n] = "unborn" =>
            /\ proc[n] = "unborn" /\ origin[n] = 0
            /\ \A m \in Spawns : m > n => state[m] = "unborn"

(* Only what has crashed is replaced, by one later instance.               *)
Origins ==
    /\ \A n \in Spawns : origin[n] \in Spawns => origin[n] < n /\ state[origin[n]] = "crashed"
    /\ \A n, m \in Spawns : origin[n] \in Spawns /\ origin[n] = origin[m] => n = m
    /\ \A n \in Spawns : state[n] = "crashed" => proc[n] = "gone"

(* What never entered the map has no timer, and no stop waits for it.      *)
Untouched == \A n \in Spawns : ~Entered(n) => handle[n] = 0 /\ n \notin timers /\ ~Stopping(n)

(* A stop that waits has taken its instance out of "active".               *)
Halting == \A n \in Spawns : Stopping(n) => state[n] # "active"

(* What a request holds entered the map.                                   *)
Held == \A c \in Callers : caller[c] = "holding" => holds[c] \in Spawns /\ Entered(holds[c])

(* The map has the tip of a line.                                          *)
Mapped == entry # 0 => Tip(entry)

(* What a key, its instances and its timers look like.                     *)
Shape == Births /\ Origins /\ Untouched /\ Halting /\ Held /\ Mapped

(* A line has one tip: the last entered.  The handle an entry was given is *)
(* that of an earlier entry of its line, or its own.                       *)
Chains ==
    /\ \A n \in Spawns : LineOf(n) # n => Entered(LineOf(n))
    /\ \A m, n \in Spawns : Entered(m) /\ Entered(n) /\ LineOf(m) = LineOf(n) /\ m < n => ~Tip(m)
    /\ \A n \in Spawns : handle[n] # 0 => LineOf(handle[n]) = LineOf(n) /\ Entered(handle[n])

(* Who holds an instance of a line is counted by its tip, whether the map  *)
(* has that or a respawn is on the way; an idle timer of the line runs for a *)
(* tip that nobody holds.                                                  *)
Counted ==
    \A e \in Spawns : Tip(e) =>
        /\ \A c \in Callers : caller[c] = "holding" /\ LineOf(e) = LineOf(holds[c]) => c \in consumers[e]
        /\ handle[e] \in timers => consumers[e] = {}

(* Without overlaps, one handshake at a time, for the entry in the map or  *)
(* for none,                                                               *)
Coming ==
    /\ \A n \in Spawns : state[n] = "handshaking" =>
         IF entry = 0 THEN origin[n] \in Callers ELSE origin[n] = entry
    /\ \A m, n \in Spawns : state[m] = "handshaking" /\ state[n] = "handshaking" => m = n

(* stops are of the entry in the map, which is not replaced meanwhile, and *)
(* of one that has exited there is one,                                    *)
Going ==
    /\ \A e \in Spawns : Stopping(e) => e = entry /\ ~Respawning(e)
    /\ \A e \in Spawns, v, w \in Stoppers :
         ~Alive(e) /\ <<e, v>> \in stops /\ <<e, w>> \in stops => v = w

(* an idle timer is that of the entry in the map, which is alive,          *)
Ticking == \A e \in timers : e = entry /\ state[e] = "active" /\ handle[e] = e

(* and what runs is in the map.                                            *)
RunningIsMapped == \A n \in Spawns : Alive(n) /\ state[n] # "handshaking" => n = entry

Lone == Coming /\ Going /\ Ticking /\ RunningIsMapped

(* Until something began while something else was under way.               *)
Apart == overlaps = {} => Lone

(* A set of numbers has a least one.                                       *)
LEMMA LeastNatural ==
    ASSUME NEW T \in SUBSET Nat, T # {}
    PROVE  \E x \in T : \A y \in T : x <= y
<1>1. IsWellFoundedOn(OpToRel(<, Nat), Nat)
  BY NatLessThanWellFounded
<1>2. PICK x \in T : \A y \in T : <<y, x>> \notin OpToRel(<, Nat)
  BY <1>1, WFMin
<1>3. \A y \in T : ~(y < x)
  BY <1>2 DEF OpToRel
<1> QED
  BY <1>3

(* The recursive function of LineOf exists, whatever the origins: a least  *)
(* number of instances without it would have it.                           *)
LEMMA LinesExist ==
    ASSUME NEW o
    PROVE  \E g : g = [m \in Spawns |-> IF o[m] \in 1..(m - 1) THEN g[o[m]] ELSE m]
<1> DEFINE Line(k, g) == g = [m \in 1..k |-> IF o[m] \in 1..(m - 1) THEN g[o[m]] ELSE m]
           Bad == {k \in Nat : \A g : ~Line(k, g)}
<1>1. ASSUME Bad # {} PROVE FALSE
  <2>1. PICK k \in Bad : \A j \in Bad : k <= j
    BY <1>1, LeastNatural
  <2>2. k \in Nat /\ k # 0
    <3>1. Line(0, [m \in {} |-> 0])
      OBVIOUS
    <3> QED
      BY <3>1
  <2>3. k - 1 \in Nat /\ k - 1 \notin Bad
    BY <2>1, <2>2
  <2>4. PICK g : Line(k - 1, g)
    BY <2>3
  <2> DEFINE h == [m \in 1..k |-> IF m # k THEN g[m]
                                  ELSE IF o[k] \in 1..(k - 1) THEN g[o[k]] ELSE k]
  <2>5. \A m \in 1..(k - 1) : h[m] = g[m]
    BY <2>2
  <2>6. \A m \in 1..k : h[m] = IF o[m] \in 1..(m - 1) THEN h[o[m]] ELSE m
    <3>1. ASSUME NEW m \in 1..k, m # k PROVE h[m] = IF o[m] \in 1..(m - 1) THEN h[o[m]] ELSE m
      <4>1. m \in 1..(k - 1) /\ 1..(m - 1) \subseteq 1..(k - 1)
        BY <2>2, <3>1
      <4>2. g[m] = IF o[m] \in 1..(m - 1) THEN g[o[m]] ELSE m
        BY <2>4, <4>1
      <4> QED
        BY <2>5, <4>1, <4>2
    <3>2. h[k] = IF o[k] \in 1..(k - 1) THEN h[o[k]] ELSE k
      BY <2>2, <2>5
    <3> QED
      BY <3>1, <3>2
  <2>7. Line(k, h)
    <3> DEFINE r == [m \in 1..k |-> IF o[m] \in 1..(m - 1) THEN h[o[m]] ELSE m]
    <3>1. \A m \in 1..k : h[m] = r[m]
      BY <2>6
    <3> QED
      BY <3>1
  <2>8. k \notin Bad
    <3> HIDE DEF h, Line
    <3> QED
      BY <2>7
  <2> QED
    BY <2>1, <2>8
<1>2. MaxSpawns \in Nat /\ MaxSpawns \notin Bad
  BY <1>1, SpawnsAssumption
<1> QED
  BY <1>2 DEF Spawns

(* No instance is numbered 0.                                              *)
LEMMA NoZero == 0 \notin Spawns /\ Spawns \subseteq Nat
BY SpawnsAssumption DEF Spawns

(* The lines of any origins.                                               *)
LineFrom(o) == CHOOSE g : g = [m \in Spawns |-> IF o[m] \in 1..(m - 1) THEN g[o[m]] ELSE m]

(* They are what the definition says.                                      *)
LEMMA LineSteps ==
    ASSUME NEW o
    PROVE  \A n \in Spawns : LineFrom(o)[n] = IF o[n] \in 1..(n - 1) THEN LineFrom(o)[o[n]] ELSE n
<1>2. LineFrom(o) = [m \in Spawns |-> IF o[m] \in 1..(m - 1) THEN LineFrom(o)[o[m]] ELSE m]
  BY LinesExist, Zenon DEF LineFrom
<1> DEFINE r == [m \in Spawns |-> IF o[m] \in 1..(m - 1) THEN LineFrom(o)[o[m]] ELSE m]
<1>3. LineFrom(o) = r
  BY <1>2
<1>4. \A n \in Spawns : r[n] = IF o[n] \in 1..(n - 1) THEN LineFrom(o)[o[n]] ELSE n
  OBVIOUS
<1> HIDE DEF r
<1> QED
  BY <1>3, <1>4

(* Now and in the next state.                                              *)
LEMMA LineIsFrom == /\ \A n : LineOf(n) = LineFrom(origin)[n]
                    /\ \A n : LineOf(n)' = LineFrom(origin')[n]
BY DEF LineOf, LineFrom

(* A new instance that nobody comes from leaves the lines of all others.   *)
LEMMA LineKeeps ==
    ASSUME NEW o, NEW p, NEW n \in Spawns,
           \A m \in Spawns \ {n} : o[m] = p[m] /\ o[m] # n
    PROVE  \A m \in Spawns \ {n} : LineFrom(o)[m] = LineFrom(p)[m]
<1> DEFINE Bad == {m \in Spawns \ {n} : LineFrom(o)[m] # LineFrom(p)[m]}
<1>1. ASSUME Bad # {} PROVE FALSE
  <2>0. Bad \subseteq Nat
    BY SpawnsAssumption DEF Spawns
  <2>1. PICK m \in Bad : \A j \in Bad : m <= j
    <3> HIDE DEF Bad
    <3> QED
      BY <1>1, <2>0, LeastNatural
  <2>2. m \in Spawns /\ m # n /\ o[m] = p[m] /\ o[m] # n
    OBVIOUS
  <2>3. CASE o[m] \in 1..(m - 1)
    <3>1. o[m] \in Spawns /\ o[m] \notin Bad
      BY <2>1, <2>2, <2>3, SpawnsAssumption DEF Spawns
    <3>2. LineFrom(o)[o[m]] = LineFrom(p)[o[m]]
      BY <2>2, <3>1
    <3> QED
      BY <2>1, <2>2, <2>3, <3>2, LineSteps
  <2>4. CASE o[m] \notin 1..(m - 1)
    BY <2>1, <2>2, <2>4, LineSteps
  <2> QED
    BY <2>3, <2>4
<1> QED
  BY <1>1

(* The same of a step.                                                     *)
LEMMA LineStays ==
    ASSUME NEW n \in Spawns, \A m \in Spawns \ {n} : origin'[m] = origin[m] /\ origin'[m] # n
    PROVE  \A m \in Spawns \ {n} : LineOf(m)' = LineOf(m)
<1>1. \A o, p : (\A m \in Spawns \ {n} : o[m] = p[m] /\ o[m] # n)
                   => \A m \in Spawns \ {n} : LineFrom(o)[m] = LineFrom(p)[m]
  BY LineKeeps
<1>2. \A m \in Spawns \ {n} : LineFrom(origin')[m] = LineFrom(origin)[m]
  BY <1>1
<1> QED
  BY <1>2, LineIsFrom

(* The first of a line is an instance, and no later one.                   *)
LEMMA LineRange ==
    ASSUME NEW o
    PROVE  \A m \in Spawns : LineFrom(o)[m] \in Spawns /\ LineFrom(o)[m] <= m
<1> DEFINE Bad == {m \in Spawns : ~(LineFrom(o)[m] \in Spawns /\ LineFrom(o)[m] <= m)}
<1>1. ASSUME Bad # {} PROVE FALSE
  <2>0. Bad \subseteq Nat
    BY SpawnsAssumption DEF Spawns
  <2>1. PICK m \in Bad : \A j \in Bad : m <= j
    <3> HIDE DEF Bad
    <3> QED
      BY <1>1, <2>0, LeastNatural
  <2>2. CASE o[m] \in 1..(m - 1)
    <3>1. o[m] \in Spawns /\ o[m] \notin Bad
      BY <2>1, <2>2, SpawnsAssumption DEF Spawns
    <3> QED
      BY <2>1, <2>2, <3>1, LineSteps, SpawnsAssumption DEF Spawns
  <2>3. CASE o[m] \notin 1..(m - 1)
    BY <2>1, <2>3, LineSteps, SpawnsAssumption DEF Spawns
  <2> QED
    BY <2>2, <2>3
<1> QED
  BY <1>1
-----------------------------------------------------------------------------
(* Of an instance whose handshake ended well and that has not crashed.     *)
Resting == {"active", "stopping", "idle"}

(* A step that neither spawns nor ends a handshake leaves lines and tips.  *)
LEMMA LinesSame ==
    ASSUME origin' = origin, \A n \in Spawns : state'[n] \in Resting <=> state[n] \in Resting
    PROVE  \A n \in Spawns : (Entered(n)' <=> Entered(n)) /\ (Tip(n)' <=> Tip(n)) /\ LineOf(n)' = LineOf(n)
BY LineIsFrom DEF Entered, Tip, Resting

(* The end of a handshake makes its instance the tip of its line.          *)
LEMMA Activation ==
    ASSUME ManagerTypeOK, Shape, NEW n \in Spawns, Activate(n)
    PROVE  /\ ~Entered(n) /\ Entered(n)' /\ Tip(n)'
           /\ \A m \in Spawns : LineOf(m)' = LineOf(m)
           /\ \A m \in Spawns \ {n} : (Entered(m)' <=> Entered(m)) /\ (Tip(m)' <=> Tip(m) /\ origin[n] # m)
           /\ \A m \in Spawns : origin[m] # n
<1>1. \A m \in Spawns : origin[m] # n
  BY DEF Shape, Origins, Activate, ManagerTypeOK
<1>2. origin' = origin /\ state' = [state EXCEPT ![n] = "active"] /\ state[n] = "handshaking"
  BY DEF Activate
<1>3. state'[n] = "active" /\ \A m \in Spawns \ {n} : state'[m] = state[m]
  BY <1>2 DEF ManagerTypeOK
<1>4. ~Entered(n) /\ Entered(n)' /\ \A m \in Spawns \ {n} : (Entered(m)' <=> Entered(m))
  BY <1>1, <1>2, <1>3 DEF Entered
<1> QED
  BY <1>1, <1>2, <1>4, LineIsFrom DEF Tip

(* A spawn changes no tip: what is new has not entered.                    *)
LEMMA Spawning ==
    ASSUME ManagerTypeOK, Shape, NEW n \in Spawns, Fresh(n),
           NEW from \in Callers \cup Spawns, origin' = [origin EXCEPT ![n] = from],
           from \in Spawns => state[from] = "active",
           state'[n] \notin Resting,
           \A m \in Spawns \ {n} : state'[m] \in Resting <=> state[m] \in Resting /\ m # from
    PROVE  /\ n # from
           /\ \A m \in Spawns : (Entered(m)' <=> Entered(m)) /\ (Tip(m)' <=> Tip(m))
           /\ \A m \in Spawns \ {n} : LineOf(m)' = LineOf(m)
           /\ LineOf(n)' = IF from \in Spawns THEN LineOf(from) ELSE n
           /\ ~Entered(n)
<1>1. state[n] = "unborn" /\ from # n /\ origin[n] = 0
  BY DEF Fresh, Shape, Births
<1>2. \A m \in Spawns : origin[m] # n
  BY <1>1 DEF Shape, Origins
<1>3. from \in Spawns => from < n
  BY <1>1, SpawnsAssumption DEF Shape, Births, Spawns
<1>4. origin'[n] = from /\ \A m \in Spawns \ {n} : origin'[m] = origin[m] /\ origin'[m] # n
  BY <1>2 DEF ManagerTypeOK
<1>5. \A m \in Spawns \ {n} : LineOf(m)' = LineOf(m)
  <2>1. \A m \in Spawns \ {n} : origin'[m] = origin[m] /\ origin'[m] # n
    BY <1>4
  <2> QED
    BY <2>1, LineStays
<1>6. LineOf(n)' = IF from \in Spawns THEN LineOf(from) ELSE n
  <2>1. from \in Spawns <=> from \in 1..(n - 1)
    BY <1>3, CallersAssumption, SpawnsAssumption DEF Spawns
  <2>2. LineOf(n)' = IF from \in Spawns THEN LineFrom(origin')[from] ELSE n
    <3>1. LineFrom(origin')[n] =
            IF origin'[n] \in 1..(n - 1) THEN LineFrom(origin')[origin'[n]] ELSE n
      BY LineSteps, Zenon
    <3> QED
      BY <1>4, <2>1, <3>1, LineIsFrom, Zenon
  <2> QED
    BY <1>1, <1>5, <2>2, LineIsFrom
<1>7. ~Entered(n) /\ ~Entered(n)'
  BY <1>1, <1>2, <1>4 DEF Entered, Resting
<1>8. \A m \in Spawns \ {n} : (Entered(m)' <=> Entered(m))
  <2>1. ASSUME NEW m \in Spawns \ {n}, m # from PROVE Entered(m)' <=> Entered(m)
    <3>1. (\E k \in Spawns : origin'[k] = m) <=> (\E k \in Spawns : origin[k] = m)
      BY <1>1, <1>4, <2>1 DEF Spawns
    <3> QED
      BY <2>1, <3>1 DEF Entered, Resting
  <2>2. from \in Spawns => Entered(from) /\ Entered(from)'
    BY <1>4 DEF Entered, Resting
  <2> QED
    BY <2>1, <2>2
<1>9. \A m \in Spawns : Tip(m)' <=> Tip(m)
  <2> SUFFICES ASSUME NEW m \in Spawns PROVE Tip(m)' <=> Tip(m)
    OBVIOUS
  <2>1. (\A k \in Spawns : origin'[k] = m => ~Entered(k)') <=> (\A k \in Spawns : origin[k] = m => ~Entered(k))
    BY <1>1, <1>4, <1>7, <1>8
  <2> QED
    BY <1>7, <1>8, <2>1 DEF Tip
<1> QED
  BY <1>1, <1>5, <1>6, <1>7, <1>8, <1>9

-----------------------------------------------------------------------------
(* What a request, a timer or the end of a wait does to the map's entries, *)
(* short of a spawn and of the end of a handshake.                         *)
Minor ==
    \/ \E c \in Callers :
         \/ AcquireExisting(c) \/ AcquireThrows(c)
         \/ ReleaseNothing(c) \/ ReleaseShared(c)
         \/ ReleaseLastGlobal(c) \/ ReleaseLast(c)
         \/ \E s \in {"restarting", "shutting"} : Shutdown(c, s)
    \/ \E n \in Spawns :
         \/ Answer(n) \/ ExitUnheard(n) \/ HandshakeFails(n)
         \/ IdleTimeout(n) \/ StopEnds(n)
         \/ \E w \in Stoppers : GraceEnds(n, w)
    \/ ShutdownAll

(* What a minor step does to the instances.                                *)
LEMMA MinorKeeps ==
    ASSUME ManagerTypeOK, Minor
    PROVE  /\ origin' = origin
           /\ \A n \in Spawns : \/ state'[n] = state[n]
                                \/ state[n] = "active" /\ state'[n] = "stopping"
                                \/ state[n] = "stopping" /\ state'[n] = "idle"
                                \/ state[n] = "handshaking" /\ state'[n] = "crashed" /\ proc'[n] = "gone"
           /\ \A n \in Spawns : \/ proc'[n] = proc[n]
                                \/ Alive(n) /\ proc'[n] \in {"ready", "exited", "gone"}
                                \/ state[n] = "handshaking" /\ proc'[n] = "gone"
           /\ entry' \in {entry, 0}
<1> USE DEF ManagerTypeOK, Alive
<1>1. ASSUME NEW c \in Callers,
             \/ AcquireExisting(c) \/ AcquireThrows(c) \/ ReleaseNothing(c) \/ ReleaseShared(c)
             \/ ReleaseLastGlobal(c) \/ ReleaseLast(c)
             \/ \E s \in {"restarting", "shutting"} : Shutdown(c, s)
      PROVE  /\ UNCHANGED <<origin, proc, entry>>
             /\ \A n \in Spawns : \/ state'[n] = state[n]
                                  \/ state[n] = "active" /\ state'[n] = "stopping"
  BY <1>1 DEF AcquireExisting, AcquireThrows, ReleaseNothing, ReleaseShared, ReleaseLastGlobal,
              ReleaseLast, Shutdown, StopEntry, subprocess
<1>2. ASSUME NEW e \in Spawns, IdleTimeout(e) \/ ShutdownAll
      PROVE  /\ UNCHANGED <<origin, proc, entry>>
             /\ \A n \in Spawns : \/ state'[n] = state[n]
                                  \/ state[n] = "active" /\ state'[n] = "stopping"
  BY <1>2 DEF IdleTimeout, ShutdownAll, StopEntry
<1>3. ASSUME NEW e \in Spawns, StopEnds(e) \/ \E w \in Stoppers : GraceEnds(e, w)
      PROVE  /\ origin' = origin /\ entry' = 0
             /\ \A n \in Spawns : \/ state'[n] = state[n]
                                  \/ state[n] = "stopping" /\ state'[n] = "idle"
             /\ \A n \in Spawns : proc'[n] = proc[n] \/ (Alive(n) /\ proc'[n] = "gone")
  BY <1>3 DEF StopEnds, GraceEnds, Stopped
<1>4. ASSUME NEW e \in Spawns, Answer(e) \/ ExitUnheard(e) \/ HandshakeFails(e)
      PROVE  /\ origin' = origin /\ entry' = entry
             /\ \A n \in Spawns : \/ state'[n] = state[n]
                                  \/ state[n] = "handshaking" /\ state'[n] = "crashed" /\ proc'[n] = "gone"
             /\ \A n \in Spawns : \/ proc'[n] = proc[n]
                                  \/ Alive(n) /\ proc'[n] \in {"ready", "exited", "gone"}
                                  \/ state[n] = "handshaking" /\ proc'[n] = "gone"
  BY <1>4 DEF Answer, ExitUnheard, HandshakeFails, Alive
<1>5. 1 \in Spawns
  BY SpawnsAssumption DEF Spawns
<1> QED
  BY <1>1, <1>2, <1>3, <1>4, <1>5 DEF Minor

(* The kinds of steps.                                                     *)
LEMMA ByKind ==
    ManagerNext <=> \/ Minor
                    \/ \E c \in Callers : AcquireSpawns(c)
                    \/ \E n \in Spawns : Acquired(n) \/ Respawned(n)
                    \/ \E m \in Spawns : ModuleCrashes(m)
BY DEF ManagerNext, Minor

(* An overlap that is noted stays.                                         *)
LEMMA NotedIn ==
    ASSUME NEW cond, NEW what \in Overlaps, overlaps \subseteq Overlaps, Noted(cond, what)
    PROVE  /\ overlaps' \subseteq Overlaps /\ overlaps \subseteq overlaps'
           /\ cond => what \in overlaps'
BY Zenon DEF Noted

(* What a stop changes keeps its types, and its overlaps are noted.        *)
LEMMA StoppingTypes ==
    ASSUME ManagerTypeOK, NEW e \in Spawns, NEW w \in Stoppers, StopEntry(e, w)
    PROVE  /\ state' \in [Spawns -> {"unborn", "handshaking", "active", "stopping",
                                     "idle", "crashed"}]
           /\ handle' \in [Spawns -> Spawns \cup {0}]
           /\ timers' \subseteq Spawns
           /\ stops' \subseteq Spawns \X Stoppers
           /\ overlaps' \subseteq Overlaps /\ overlaps \subseteq overlaps'
           /\ Respawning(e) => "stop during respawn" \in overlaps'
           /\ Stopping(e) /\ ~Alive(e) => "two stops of a dead entry" \in overlaps'
<1> USE DEF ManagerTypeOK
<1>1. /\ state' \in [Spawns -> {"unborn", "handshaking", "active", "stopping",
                                "idle", "crashed"}]
      /\ handle' \in [Spawns -> Spawns \cup {0}]
  BY DEF StopEntry
<1>2. timers' \subseteq Spawns /\ stops' \subseteq Spawns \X Stoppers
  <2>1. <<e, w>> \in Spawns \X Stoppers
    OBVIOUS
  <2> QED
    BY <2>1 DEF StopEntry
<1>3. {"stop during respawn", "two stops of a dead entry"} \subseteq Overlaps
  BY DEF Overlaps
<1>4. /\ overlaps' \subseteq Overlaps /\ overlaps \subseteq overlaps'
      /\ Respawning(e) => "stop during respawn" \in overlaps'
      /\ Stopping(e) /\ ~Alive(e) => "two stops of a dead entry" \in overlaps'
  <2> DEFINE P == Respawning(e)
             Q == Stopping(e) /\ ~Alive(e)
             A == {o \in {"stop during respawn"} : P}
             B == {o \in {"two stops of a dead entry"} : Q}
  <2>1. overlaps' = overlaps \cup A \cup B
    BY DEF StopEntry
  <2>2. A \subseteq Overlaps /\ (P => "stop during respawn" \in A)
    BY <1>3
  <2>3. B \subseteq Overlaps /\ (Q => "two stops of a dead entry" \in B)
    BY <1>3
  <2>4. overlaps \subseteq Overlaps
    OBVIOUS
  <2> HIDE DEF A, B
  <2> QED
    BY <2>1, <2>2, <2>3, <2>4
<1> QED
  BY <1>1, <1>2, <1>4

(* Every step keeps the types.                                             *)
LEMMA ManagerTypes == ManagerTypeOK /\ ManagerNext => ManagerTypeOK'
<1> SUFFICES ASSUME ManagerTypeOK, ManagerNext PROVE ManagerTypeOK'
  OBVIOUS
<1> USE DEF ManagerTypeOK
<1>1. ASSUME NEW c \in Callers, AcquireExisting(c) \/ AcquireThrows(c)
      PROVE  ManagerTypeOK'
  <2>1. CASE AcquireExisting(c)
    BY <2>1 DEF AcquireExisting, Reuse, Status, subprocess
  <2>2. CASE AcquireThrows(c)
    BY <2>2 DEF AcquireThrows, Status, subprocess, refs
  <2> QED
    BY <1>1, <2>1, <2>2
<1>2. ASSUME NEW c \in Callers, AcquireSpawns(c)
      PROVE  ManagerTypeOK'
  <2>1. overlaps' \subseteq Overlaps
    BY <1>2, NotedIn DEF AcquireSpawns, Overlaps
  <2>2. PICK n \in Spawns : /\ state' = [state EXCEPT ![n] = "handshaking"]
                            /\ proc' = [proc EXCEPT ![n] = "booting"]
                            /\ origin' = [origin EXCEPT ![n] = c]
    BY <1>2 DEF AcquireSpawns
  <2> QED
    BY <1>2, <2>1, <2>2 DEF AcquireSpawns, Status, refs
<1>3. ASSUME NEW c \in Callers, ReleaseNothing(c) \/ ReleaseShared(c)
      PROVE  ManagerTypeOK'
  <2>1. CASE ReleaseNothing(c)
    BY <2>1 DEF ReleaseNothing, Status, subprocess, refs
  <2>2. CASE ReleaseShared(c)
    BY <2>2 DEF ReleaseShared, Status, subprocess
  <2> QED
    BY <1>3, <2>1, <2>2
<1>4. ASSUME NEW c \in Callers, ReleaseLastGlobal(c)
      PROVE  ManagerTypeOK'
  <2>1. overlaps' \subseteq Overlaps
    BY <1>4, NotedIn DEF ReleaseLastGlobal, Overlaps
  <2> QED
    BY <1>4, <2>1 DEF ReleaseLastGlobal, Status, subprocess
<1>5. ASSUME NEW c \in Callers, ReleaseLast(c) \/ \E s \in {"restarting", "shutting"} : Shutdown(c, s)
      PROVE  ManagerTypeOK'
  <2>1. entry \in Spawns /\ c \in Stoppers /\ StopEntry(entry, c)
    BY <1>5 DEF ReleaseLast, Shutdown, Stoppers
  <2>2. CASE ReleaseLast(c)
    BY <2>1, <2>2, StoppingTypes DEF ReleaseLast, Status
  <2>3. ASSUME NEW s \in {"restarting", "shutting"}, Shutdown(c, s) PROVE ManagerTypeOK'
    BY <2>1, <2>3, StoppingTypes DEF Shutdown, Status
  <2> QED
    BY <1>5, <2>2, <2>3
<1>6. CASE ShutdownAll
  <2>1. CASE entry = 0
    BY <1>6, <2>1 DEF ShutdownAll
  <2>2. CASE entry # 0
    <3>1. entry \in Spawns /\ "all" \in Stoppers /\ StopEntry(entry, "all")
      BY <1>6, <2>2 DEF ShutdownAll, Stoppers
    <3> QED
      BY <1>6, <3>1, StoppingTypes DEF ShutdownAll
  <2> QED
    BY <2>1, <2>2
<1>7. ASSUME NEW n \in Spawns, IdleTimeout(n)
      PROVE  ManagerTypeOK'
  <2>1. "idle" \in Stoppers
    BY DEF Stoppers
  <2> QED
    BY <1>7, <2>1, StoppingTypes DEF IdleTimeout
<1>8. ASSUME NEW n \in Spawns, Answer(n) \/ ExitUnheard(n) \/ HandshakeFails(n)
      PROVE  ManagerTypeOK'
  BY <1>8 DEF Answer, ExitUnheard, HandshakeFails, refs
<1>9. ASSUME NEW n \in Spawns, Acquired(n) \/ Respawned(n)
      PROVE  ManagerTypeOK'
  <2>1. CASE Acquired(n)
    BY <2>1 DEF Acquired, Activate, Status
  <2>2. CASE Respawned(n)
    BY <2>2 DEF Respawned, Activate, Status
  <2> QED
    BY <1>9, <2>1, <2>2
<1>10. ASSUME NEW m \in Spawns, ModuleCrashes(m)
      PROVE  ManagerTypeOK'
  <2>1. overlaps' \subseteq Overlaps
    BY <1>10, NotedIn DEF ModuleCrashes, Overlaps
  <2>2. PICK n \in Spawns, thrown \in BOOLEAN :
           /\ state' = [state EXCEPT ![m] = "crashed",
                                     ![n] = IF thrown THEN "crashed" ELSE "handshaking"]
           /\ proc' = [proc EXCEPT ![m] = "gone",
                                   ![n] = IF thrown THEN "gone" ELSE "booting"]
           /\ origin' = [origin EXCEPT ![n] = m]
    BY <1>10, Zenon DEF ModuleCrashes
  <2>3. /\ state' \in [Spawns -> {"unborn", "handshaking", "active", "stopping",
                                  "idle", "crashed"}]
        /\ proc' \in [Spawns -> {"unborn", "booting", "ready", "exited", "gone"}]
        /\ origin' \in [Spawns -> Callers \cup Spawns \cup {0}]
    BY <2>2
  <2> QED
    BY <1>10, <2>1, <2>3 DEF ModuleCrashes, refs
<1>11. ASSUME NEW n \in Spawns, StopEnds(n) \/ \E w \in Stoppers : GraceEnds(n, w)
      PROVE  ManagerTypeOK'
  <2>1. ASSUME NEW ws, Stopped(n, ws)
        PROVE  /\ state' \in [Spawns -> {"unborn", "handshaking", "active", "stopping",
                                          "idle", "crashed"}]
               /\ entry' = 0 /\ stops' \subseteq Spawns \X Stoppers
               /\ caller' \in [Callers -> {"idle", "restarting", "shutting", "acquiring",
                                            "spawning", "holding", "releasing", "done"}]
    BY <2>1 DEF Stopped
  <2>2. CASE StopEnds(n)
    <3>1. Stopped(n, Stoppers) /\ proc' = [proc EXCEPT ![n] = "gone"]
          /\ UNCHANGED <<global, origin, refs, holds, closing, overlaps>>
      BY <2>2 DEF StopEnds
    <3> QED
      BY <2>1, <3>1 DEF refs
  <2>3. ASSUME NEW w \in Stoppers, GraceEnds(n, w) PROVE ManagerTypeOK'
    <3>1. Stopped(n, {w}) /\ UNCHANGED <<global, proc, origin, refs, holds, closing, overlaps>>
      BY <2>3 DEF GraceEnds
    <3> QED
      BY <2>1, <3>1 DEF refs
  <2> QED
    BY <1>11, <2>2, <2>3
<1> QED
  BY <1>1, <1>2, <1>3, <1>4, <1>5, <1>6, <1>7, <1>8, <1>9, <1>10, <1>11 DEF ManagerNext

(* What a minor step does to the references, the timers and the stops.     *)
RefsMove ==
    /\ \A n \in Spawns : Stopping(n)' =>
         \/ Stopping(n)
         \/ (n = entry \/ n \in timers) /\ state'[n] # "active"
    /\ timers' \subseteq timers \cup ({entry} \ {0})
    /\ \A n \in Spawns : \/ handle'[n] \in {handle[n], 0}
                         \/ n = entry /\ handle'[n] = n
    /\ \A c \in Callers : caller'[c] = "holding" =>
         \/ caller[c] = "holding" /\ holds'[c] = holds[c]
         \/ entry # 0 /\ holds'[c] = entry /\ c \in consumers'[entry]
    /\ \A c \in Callers, n \in Spawns :
         c \in consumers[n] /\ caller'[c] = "holding" => c \in consumers'[n]
    /\ \A n \in Spawns : handle'[n] \in timers' =>
         \/ handle[n] \in timers /\ consumers'[n] \subseteq consumers[n]
         \/ consumers'[n] = {}
         \/ handle[n] = entry /\ entry # 0 /\ n # entry

(* A stop moves references and timers as a minor step does.                *)
LEMMA StoppingRefs ==
    ASSUME ManagerTypeOK, NEW e \in Spawns, NEW w \in Stoppers, StopEntry(e, w),
           e = entry \/ e \in timers,
           \A d \in Callers : caller'[d] = "holding" => caller[d] = "holding" /\ holds'[d] = holds[d],
           \A n \in Spawns : consumers'[n] \subseteq consumers[n],
           \A n \in Spawns, d \in Callers :
              d \in consumers[n] /\ caller'[d] = "holding" => d \in consumers'[n]
    PROVE  RefsMove
<1> USE DEF ManagerTypeOK
<1>1. state'[e] # "active"
  BY DEF StopEntry
<1>2. \A n \in Spawns : Stopping(n)' => Stopping(n) \/ n = e
  BY DEF StopEntry, Stopping
<1>3. /\ timers' \subseteq timers
      /\ \A n \in Spawns : handle'[n] \in {handle[n], 0}
  BY DEF StopEntry
<1>4. \A n \in Spawns : handle'[n] \in timers' => handle[n] \in timers
  <2>1. 0 \notin timers
    BY SpawnsAssumption DEF Spawns
  <2> QED
    BY <1>3, <2>1
<1> QED
  BY <1>1, <1>2, <1>3, <1>4 DEF RefsMove

(* So does a step that leaves stops and handles.                           *)
LEMMA QuietRefs ==
    ASSUME ManagerTypeOK, stops' = stops, timers' \subseteq timers, handle' = handle,
           \A d \in Callers : caller'[d] = "holding" => caller[d] = "holding" /\ holds'[d] = holds[d],
           \A n \in Spawns : consumers'[n] \subseteq consumers[n],
           \A n \in Spawns, d \in Callers :
              d \in consumers[n] /\ caller'[d] = "holding" => d \in consumers'[n]
    PROVE  RefsMove
BY DEF RefsMove, ManagerTypeOK, Stopping

(* So does every minor step.                                               *)
LEMMA MinorRefs == ManagerTypeOK /\ Minor => RefsMove
<1> SUFFICES ASSUME ManagerTypeOK, Minor PROVE RefsMove
  OBVIOUS
<1> USE DEF ManagerTypeOK
<1>2. ASSUME NEW c \in Callers, AcquireExisting(c)
      PROVE  RefsMove
  <2>1. entry \in Spawns /\ 0 \notin timers
    BY <1>2, SpawnsAssumption DEF AcquireExisting, Spawns
  <2>3. /\ timers' \subseteq timers /\ stops' = stops
        /\ handle'[entry] = 0 /\ consumers'[entry] = consumers[entry] \cup {c}
        /\ \A n \in Spawns \ {entry} : handle'[n] = handle[n] /\ consumers'[n] = consumers[n]
    BY <1>2, <2>1 DEF AcquireExisting, Reuse
  <2>4. \A d \in Callers : caller'[d] = "holding" =>
                  \/ caller[d] = "holding" /\ holds'[d] = holds[d]
                  \/ d = c /\ holds'[d] = entry
    BY <1>2 DEF AcquireExisting, Status
  <2>5. stops' = stops
    BY <1>2 DEF AcquireExisting
  <2>6. entry # 0
    BY <1>2 DEF AcquireExisting
  <2> QED
    BY <2>1, <2>3, <2>4, <2>5, <2>6 DEF RefsMove, Stopping
<1>3. ASSUME NEW c \in Callers, AcquireThrows(c) \/ ReleaseNothing(c)
      PROVE  RefsMove
  <2>1. /\ UNCHANGED <<refs, stops>>
        /\ \A d \in Callers : caller'[d] = "holding" => caller[d] = "holding" /\ holds'[d] = holds[d]
    BY <1>3 DEF AcquireThrows, ReleaseNothing, Status
  <2> QED
    BY <2>1, QuietRefs DEF refs
<1>4. ASSUME NEW c \in Callers, ReleaseShared(c) \/ ReleaseLastGlobal(c) \/ ReleaseLast(c)
      PROVE  /\ \A d \in Callers : caller'[d] = "holding" =>
                  caller[d] = "holding" /\ holds'[d] = holds[d] /\ d # c
             /\ \A n \in Spawns, d \in Callers : d \in consumers[n] /\ d # c => d \in consumers'[n]
             /\ \A n \in Spawns : consumers'[n] \subseteq consumers[n]
             /\ entry \in Spawns
  <2>1. entry \in Spawns
    BY <1>4 DEF ReleaseShared, ReleaseLastGlobal, ReleaseLast
  <2>2. CASE ReleaseShared(c)
    BY <2>1, <2>2 DEF ReleaseShared, Status
  <2>3. CASE ReleaseLastGlobal(c)
    BY <2>1, <2>3 DEF ReleaseLastGlobal, Status
  <2>4. CASE ReleaseLast(c)
    BY <2>1, <2>4 DEF ReleaseLast, Status
  <2> QED
    BY <1>4, <2>1, <2>2, <2>3, <2>4
<1>5. ASSUME NEW c \in Callers, ReleaseLastGlobal(c)
      PROVE  RefsMove
  <2>1. /\ stops' = stops /\ timers' \subseteq timers \cup {entry} /\ entry \in Spawns
        /\ handle'[entry] = entry /\ consumers'[entry] = {}
        /\ \A n \in Spawns \ {entry} : handle'[n] = handle[n]
        /\ entry # 0
    BY <1>5 DEF ReleaseLastGlobal
  <2> QED
    BY <1>4, <1>5, <2>1 DEF RefsMove, Stopping
<1>6. ASSUME NEW c \in Callers, ReleaseShared(c)
      PROVE  RefsMove
  <2>1. stops' = stops /\ timers' = timers /\ handle' = handle
    BY <1>6 DEF ReleaseShared
  <2> QED
    BY <1>4, <1>6, <2>1, QuietRefs
<1>7. ASSUME NEW c \in Callers, ReleaseLast(c)
      PROVE  RefsMove
  <2>1. c \in Stoppers /\ StopEntry(entry, c)
    BY <1>7 DEF ReleaseLast, Stoppers
  <2> QED
    BY <1>4, <1>7, <2>1, StoppingRefs
<1>8. ASSUME NEW c \in Callers, NEW s \in {"restarting", "shutting"}, Shutdown(c, s)
      PROVE  RefsMove
  <2>1. /\ c \in Stoppers /\ StopEntry(entry, c) /\ entry \in Spawns
        /\ consumers' = consumers /\ holds' = holds
    BY <1>8 DEF Shutdown, Stoppers
  <2>2. \A d \in Callers : caller'[d] = "holding" => caller[d] = "holding"
    BY <1>8 DEF Shutdown, Status
  <2> QED
    BY <2>1, <2>2, StoppingRefs
<1>9. ASSUME NEW e \in Spawns, IdleTimeout(e)
      PROVE  RefsMove
  <2>1. /\ "idle" \in Stoppers /\ StopEntry(e, "idle") /\ e \in timers
        /\ UNCHANGED <<consumers, caller, holds>>
    BY <1>9 DEF IdleTimeout, Stoppers
  <2> QED
    BY <2>1, StoppingRefs
<1>10. CASE ShutdownAll
  <2>1. CASE entry = 0
    BY <1>10, <2>1, QuietRefs DEF ShutdownAll
  <2>2. CASE entry # 0
    <3>1. /\ "all" \in Stoppers /\ StopEntry(entry, "all") /\ entry \in Spawns
          /\ UNCHANGED <<consumers, caller, holds>>
      BY <1>10, <2>2 DEF ShutdownAll, Stoppers
    <3> QED
      BY <3>1, StoppingRefs
  <2> QED
    BY <2>1, <2>2
<1>11. ASSUME NEW n \in Spawns, Answer(n) \/ ExitUnheard(n) \/ HandshakeFails(n)
      PROVE  RefsMove
  <2>1. /\ UNCHANGED <<refs, stops, holds>>
        /\ \A d \in Callers : caller'[d] = "holding" => caller[d] = "holding"
    BY <1>11 DEF Answer, ExitUnheard, HandshakeFails
  <2> QED
    BY <2>1, QuietRefs DEF refs
<1>12. ASSUME NEW e \in Spawns, StopEnds(e) \/ \E w \in Stoppers : GraceEnds(e, w)
      PROVE  RefsMove
  <2>1. /\ UNCHANGED <<refs, holds>> /\ stops' \subseteq stops
        /\ \A d \in Callers : caller'[d] = "holding" => caller[d] = "holding"
    BY <1>12 DEF StopEnds, GraceEnds, Stopped
  <2> QED
    BY <2>1 DEF RefsMove, refs, Stopping
<1> QED
  BY <1>2, <1>3, <1>5, <1>6, <1>7, <1>8, <1>9, <1>10, <1>11, <1>12 DEF Minor

-----------------------------------------------------------------------------
(* A minor step leaves lines and tips.                                     *)
LEMMA MinorSame ==
    ASSUME ManagerTypeOK, Minor
    PROVE  \A n \in Spawns : (Entered(n)' <=> Entered(n)) /\ (Tip(n)' <=> Tip(n)) /\ LineOf(n)' = LineOf(n)
<1>1. origin' = origin /\ \A n \in Spawns : state'[n] \in Resting <=> state[n] \in Resting
  BY MinorKeeps DEF Resting
<1> QED
  BY <1>1, LinesSame

(* Every step keeps the shape.                                             *)
LEMMA ShapeKept == ManagerTypeOK /\ Shape /\ ManagerNext => Shape'
<1> SUFFICES ASSUME ManagerTypeOK, Shape, ManagerNext PROVE Shape'
  OBVIOUS
<1>t. ManagerTypeOK'
  BY ManagerTypes
<1>1. CASE Minor
  <2>1. /\ origin' = origin
        /\ \A n \in Spawns : \/ state'[n] = state[n]
                             \/ state[n] = "active" /\ state'[n] = "stopping"
                             \/ state[n] = "stopping" /\ state'[n] = "idle"
                             \/ state[n] = "handshaking" /\ state'[n] = "crashed" /\ proc'[n] = "gone"
        /\ \A n \in Spawns : \/ proc'[n] = proc[n]
                             \/ Alive(n) /\ proc'[n] \in {"ready", "exited", "gone"}
                             \/ state[n] = "handshaking" /\ proc'[n] = "gone"
        /\ entry' \in {entry, 0}
    BY <1>1, MinorKeeps
  <2>2. RefsMove
    BY <1>1, MinorRefs
  <2>3. \A n \in Spawns : (Entered(n)' <=> Entered(n)) /\ (Tip(n)' <=> Tip(n))
    <3>1. \A n \in Spawns : state'[n] \in Resting <=> state[n] \in Resting
      BY <2>1 DEF Resting
    <3> QED
      BY <2>1, <3>1, LinesSame
  <2>4. Births'
    BY <2>1 DEF Shape, Births, Alive
  <2>5. Origins'
    BY <2>1 DEF Shape, Births, Origins, Alive
  <2>6. Untouched'
    BY <2>2, <2>3, NoZero DEF Shape, RefsMove, Untouched, Mapped, Tip
  <2>7. Halting'
    BY <2>1, <2>2 DEF Shape, RefsMove, Halting
  <2>8. Held'
    BY <2>2, <2>3 DEF Shape, RefsMove, Held, Mapped, Tip, ManagerTypeOK
  <2>9. Mapped'
    BY <2>1, <2>3 DEF Shape, Mapped, ManagerTypeOK
  <2> QED
    BY <2>4, <2>5, <2>6, <2>7, <2>8, <2>9 DEF Shape
<1>2. ASSUME NEW c \in Callers, AcquireSpawns(c) PROVE Shape'
  <2>1. PICK n \in Spawns : /\ Fresh(n)
                            /\ state' = [state EXCEPT ![n] = "handshaking"]
                            /\ proc' = [proc EXCEPT ![n] = "booting"]
                            /\ origin' = [origin EXCEPT ![n] = c]
    BY <1>2 DEF AcquireSpawns
  <2>2. /\ UNCHANGED <<entry, consumers, handle, timers, stops, holds>>
        /\ \A d \in Callers : caller'[d] = "holding" => caller[d] = "holding"
    BY <1>2 DEF AcquireSpawns, refs, Status, ManagerTypeOK
  <2>3. /\ state[n] = "unborn" /\ state'[n] = "handshaking" /\ proc'[n] = "booting" /\ origin'[n] = c
        /\ \A m \in Spawns \ {n} : state'[m] = state[m] /\ proc'[m] = proc[m] /\ origin'[m] = origin[m]
        /\ \A m \in 1..(n - 1) : state[m] # "unborn"
    BY <2>1 DEF ManagerTypeOK, Fresh
  <2>4. c \notin Spawns
    BY CallersAssumption, NoZero
  <2>5. /\ \A m \in Spawns : (Entered(m)' <=> Entered(m)) /\ (Tip(m)' <=> Tip(m))
        /\ ~Entered(n)
    <3>1. state'[n] \notin Resting /\ \A m \in Spawns \ {n} : state'[m] \in Resting <=> state[m] \in Resting /\ m # c
      BY <2>3, <2>4 DEF Resting
    <3> QED
      BY <2>1, <2>4, <3>1, Spawning
  <2>6. Births'
    BY <2>3, SpawnsAssumption DEF Shape, Births, Spawns
  <2>7. Origins'
    BY <2>3, <2>4 DEF Shape, Births, Origins
  <2>8. Untouched' /\ Held' /\ Mapped'
    BY <2>2, <2>5 DEF Shape, Untouched, Held, Mapped, Stopping, ManagerTypeOK
  <2>9. Halting'
    BY <2>2, <2>3 DEF Shape, Halting, Stopping
  <2> QED
    BY <2>6, <2>7, <2>8, <2>9 DEF Shape
<1>3. ASSUME NEW n \in Spawns, Acquired(n) \/ Respawned(n) PROVE Shape'
  <2>1. Activate(n)
    BY <1>3 DEF Acquired, Respawned
  <2>2. /\ ~Entered(n) /\ Entered(n)' /\ Tip(n)'
        /\ \A m \in Spawns : Entered(m) => Entered(m)'
        /\ \A m \in Spawns : origin[m] # n
    BY <2>1, Activation
  <2>3. /\ UNCHANGED <<proc, origin, timers, stops>> /\ entry' = n
        /\ state[n] = "handshaking" /\ state'[n] = "active" 
        /\ \A m \in Spawns \ {n} : state'[m] = state[m]
    BY <2>1 DEF Activate, ManagerTypeOK
  <2>4. /\ \A m \in Spawns \ {n} : handle'[m] = handle[m]
        /\ \A d \in Callers : caller'[d] = "holding" =>
             \/ caller[d] = "holding" /\ holds'[d] = holds[d]
             \/ holds'[d] = n
    <3>1. CASE Acquired(n)
      BY <3>1 DEF Acquired, Status, ManagerTypeOK
    <3>2. CASE Respawned(n)
      BY <3>2 DEF Respawned, ManagerTypeOK
    <3> QED
      BY <1>3, <3>1, <3>2
  <2>5. Births' /\ Origins'
    BY <2>2, <2>3 DEF Shape, Births, Origins
  <2>6. Untouched'
    BY <2>2, <2>3, <2>4 DEF Shape, Untouched, Stopping
  <2>7. Halting'
    BY <2>2, <2>3 DEF Shape, Halting, Untouched, Stopping
  <2>8. Held' /\ Mapped'
    BY <2>2, <2>3, <2>4 DEF Shape, Held, Mapped
  <2> QED
    BY <2>5, <2>6, <2>7, <2>8 DEF Shape
<1>4. ASSUME NEW m \in Spawns, ModuleCrashes(m) PROVE Shape'
  <2>1. PICK n \in Spawns, thrown \in BOOLEAN :
           /\ Fresh(n)
           /\ state' = [state EXCEPT ![m] = "crashed",
                                     ![n] = IF thrown THEN "crashed" ELSE "handshaking"]
           /\ proc' = [proc EXCEPT ![m] = "gone",
                                   ![n] = IF thrown THEN "gone" ELSE "booting"]
           /\ origin' = [origin EXCEPT ![n] = m]
    BY <1>4, Zenon DEF ModuleCrashes
  <2>2. state[m] = "active" /\ UNCHANGED <<entry, consumers, handle, timers, stops, holds, caller>>
    BY <1>4 DEF ModuleCrashes, OnCrashed, refs
  <2>3. /\ n # m /\ state[n] = "unborn" /\ state'[m] = "crashed" /\ proc'[m] = "gone" /\ origin'[n] = m
        /\ state'[n] \in {"crashed", "handshaking"} /\ proc'[n] \in {"gone", "booting"}
        /\ state'[n] = "crashed" => proc'[n] = "gone"
        /\ \A k \in Spawns \ {n} : origin'[k] = origin[k]
        /\ \A k \in Spawns \ {n, m} : state'[k] = state[k] /\ proc'[k] = proc[k]
        /\ \A k \in 1..(n - 1) : state[k] # "unborn"
    BY <2>1, <2>2 DEF ManagerTypeOK, Fresh
  <2>5. /\ \A k \in Spawns : (Entered(k)' <=> Entered(k)) /\ (Tip(k)' <=> Tip(k))
        /\ ~Entered(n)
    <3>1. state'[n] \notin Resting /\ \A k \in Spawns \ {n} : state'[k] \in Resting <=> state[k] \in Resting /\ k # m
      BY <2>3 DEF Resting
    <3>2. Fresh(n) /\ origin' = [origin EXCEPT ![n] = m] /\ m \in Callers \cup Spawns
      BY <2>1
    <3>3. m \in Spawns => state[m] = "active"
      BY <2>2
    <3> QED
      BY <3>1, <3>2, <3>3, Spawning
  <2>6. Births'
    BY <2>2, <2>3, SpawnsAssumption DEF Shape, Births, Spawns
  <2>7. m < n
    BY <2>2, <2>3, NoZero DEF Shape, Births
  <2>8. Origins'
    <3>1. \A k \in Spawns : origin[k] # m /\ origin[k] # n
      BY <2>2, <2>3 DEF Shape, Origins
    <3>2. \A k \in Spawns : state[k] = "crashed" => state'[k] = "crashed"
      BY <2>2, <2>3
    <3>3. \A k \in Spawns : origin'[k] \in Spawns => origin'[k] < k /\ state'[origin'[k]] = "crashed"
      BY <2>3, <2>7, <3>2 DEF Shape, Origins
    <3>4. \A k, l \in Spawns : origin'[k] \in Spawns /\ origin'[k] = origin'[l] => k = l
      BY <2>3, <3>1 DEF Shape, Origins
    <3>5. \A k \in Spawns : state'[k] = "crashed" => proc'[k] = "gone"
      BY <2>3 DEF Shape, Origins
    <3> QED
      BY <3>3, <3>4, <3>5 DEF Origins
  <2>9. Untouched' /\ Held' /\ Mapped'
    BY <2>2, <2>5 DEF Shape, Untouched, Held, Mapped, Stopping, ManagerTypeOK
  <2>10. Halting'
    BY <2>2, <2>3 DEF Shape, Halting, Stopping
  <2> QED
    BY <2>6, <2>8, <2>9, <2>10 DEF Shape
<1> QED
  BY <1>1, <1>2, <1>3, <1>4, ByKind

(* A step that spawns n, for a caller or in place of an active instance.   *)
Spawned(n, from) ==
    /\ Fresh(n) /\ origin' = [origin EXCEPT ![n] = from]
    /\ from \in Spawns => state[from] = "active"
    /\ state'[n] \notin Resting
    /\ \A m \in Spawns \ {n} : state'[m] \in Resting <=> state[m] \in Resting /\ m # from
    /\ UNCHANGED <<entry, consumers, handle, timers, stops, holds>>
    /\ \A d \in Callers : caller'[d] = "holding" => caller[d] = "holding"

(* An acquire() of an empty key and a crash spawn.                         *)
LEMMA SpawnSteps ==
    ASSUME ManagerTypeOK, Shape,
           (\E c \in Callers : AcquireSpawns(c)) \/ (\E m \in Spawns : ModuleCrashes(m))
    PROVE  \E n \in Spawns, from \in Callers \cup Spawns : Spawned(n, from)
<1>1. ASSUME NEW c \in Callers, AcquireSpawns(c)
      PROVE  \E n \in Spawns : Spawned(n, c)
  <2>1. PICK n \in Spawns : /\ Fresh(n)
                            /\ state' = [state EXCEPT ![n] = "handshaking"]
                            /\ origin' = [origin EXCEPT ![n] = c]
    BY <1>1 DEF AcquireSpawns
  <2>2. /\ UNCHANGED <<entry, consumers, handle, timers, stops, holds>>
        /\ \A d \in Callers : caller'[d] = "holding" => caller[d] = "holding"
    BY <1>1 DEF AcquireSpawns, refs, Status, ManagerTypeOK
  <2>3. /\ state'[n] = "handshaking"
        /\ \A m \in Spawns \ {n} : state'[m] = state[m]
        /\ c \notin Spawns
    BY <2>1, CallersAssumption, NoZero DEF ManagerTypeOK
  <2> QED
    BY <2>1, <2>2, <2>3 DEF Spawned, Resting
<1>2. ASSUME NEW m \in Spawns, ModuleCrashes(m)
      PROVE  \E n \in Spawns : Spawned(n, m)
  <2>1. PICK n \in Spawns, thrown \in BOOLEAN :
           /\ Fresh(n)
           /\ state' = [state EXCEPT ![m] = "crashed",
                                     ![n] = IF thrown THEN "crashed" ELSE "handshaking"]
           /\ origin' = [origin EXCEPT ![n] = m]
    BY <1>2, Zenon DEF ModuleCrashes
  <2>2. state[m] = "active" /\ UNCHANGED <<entry, consumers, handle, timers, stops, holds, caller>>
    BY <1>2 DEF ModuleCrashes, OnCrashed, refs
  <2>3. /\ n # m /\ state'[m] = "crashed"
        /\ state'[n] \in {"crashed", "handshaking"}
        /\ \A k \in Spawns \ {n, m} : state'[k] = state[k]
    BY <2>1, <2>2 DEF ManagerTypeOK, Fresh
  <2>4. \A k \in Spawns \ {n} : state'[k] \in Resting <=> state[k] \in Resting /\ k # m
    BY <2>3 DEF Resting
  <2>5. state'[n] \notin Resting
    BY <2>3 DEF Resting
  <2> QED
    BY <2>1, <2>2, <2>4, <2>5 DEF Spawned
<1> QED
  BY <1>1, <1>2

(* Of an instance whose handshake ends in a respawn: the one it replaces   *)
(* was the last of its line.                                               *)
LEMMA Replaced ==
    ASSUME ManagerTypeOK, Shape, NEW n \in Spawns, Activate(n), origin[n] \in Spawns
    PROVE  Tip(origin[n]) /\ LineOf(n) = LineOf(origin[n]) /\ origin[n] < n
<1>1. origin[n] < n /\ ~Entered(n)
  BY Activation DEF Shape, Origins
<1>2. Tip(origin[n])
  BY <1>1 DEF Tip, Entered, Shape, Origins
<1>3. origin[n] \in 1..(n - 1)
  BY <1>1, SpawnsAssumption DEF Spawns
<1>4. LineFrom(origin)[n] = IF origin[n] \in 1..(n - 1) THEN LineFrom(origin)[origin[n]] ELSE n
  BY LineSteps, Zenon
<1> QED
  BY <1>1, <1>2, <1>3, <1>4, LineIsFrom, Zenon

(* What replaces nothing begins a line.                                    *)
LEMMA FirstOfLine ==
    ASSUME NEW n \in Spawns, origin[n] \notin Spawns
    PROVE  LineOf(n) = n
<1>1. origin[n] \notin 1..(n - 1)
  BY SpawnsAssumption DEF Spawns
<1>2. LineFrom(origin)[n] = IF origin[n] \in 1..(n - 1) THEN LineFrom(origin)[origin[n]] ELSE n
  BY LineSteps, Zenon
<1> QED
  BY <1>1, <1>2, LineIsFrom, Zenon

(* Lines are named by instances.                                           *)
LEMMA LinesAreSpawns == \A n \in Spawns : LineOf(n) \in Spawns
BY LineRange, LineIsFrom

(* Every step keeps a line to one tip.                                     *)
LEMMA ChainsKept == ManagerTypeOK /\ Shape /\ Chains /\ ManagerNext => Chains'
<1> SUFFICES ASSUME ManagerTypeOK, Shape, Chains, ManagerNext PROVE Chains'
  OBVIOUS
<1>1. CASE Minor
  <2>1. \A n \in Spawns : (Entered(n)' <=> Entered(n)) /\ (Tip(n)' <=> Tip(n)) /\ LineOf(n)' = LineOf(n)
    BY <1>1, MinorSame
  <2>2. RefsMove
    BY <1>1, MinorRefs
  <2>3. \A n \in Spawns : handle[n] \in Spawns \cup {0} /\ LineOf(n) \in Spawns
    BY LinesAreSpawns DEF ManagerTypeOK
  <2>4. \A n \in Spawns : n = entry => Entered(n)
    BY NoZero DEF Shape, Mapped, Tip
  <2>5. (\A n \in Spawns : LineOf(n) # n => Entered(LineOf(n)))'
    BY <2>1, <2>3 DEF Chains
  <2> QED
    BY <2>1, <2>2, <2>3, <2>4, <2>5 DEF Chains, RefsMove
<1>2. ASSUME NEW n \in Spawns, NEW from \in Callers \cup Spawns, Spawned(n, from)
      PROVE  Chains'
  <2>1. /\ \A m \in Spawns : (Entered(m)' <=> Entered(m)) /\ (Tip(m)' <=> Tip(m))
        /\ \A m \in Spawns \ {n} : LineOf(m)' = LineOf(m)
        /\ LineOf(n)' = IF from \in Spawns THEN LineOf(from) ELSE n
        /\ ~Entered(n)
    BY <1>2, Spawning DEF Spawned
  <2>2. handle' = handle /\ handle[n] = 0
    BY <1>2, <2>1 DEF Spawned, Shape, Untouched
  <2>3. \A m \in Spawns : LineOf(m) \in Spawns
    BY LinesAreSpawns
  <2>4. from \in Spawns => Entered(from)
    BY <1>2 DEF Spawned, Entered
  <2>5. from \in Spawns => Entered(LineOf(from))
    BY <2>4 DEF Chains
  <2>6. (\A m \in Spawns : LineOf(m) # m => Entered(LineOf(m)))'
    BY <2>1, <2>3, <2>5 DEF Chains
  <2>7. \A k, m \in Spawns : Entered(k)' /\ Entered(m)' /\ LineOf(k)' = LineOf(m)' /\ k < m => ~Tip(k)'
    BY <2>1 DEF Chains
  <2>8. \A m \in Spawns : handle[m] # 0 => m # n /\ handle[m] # n /\ handle[m] \in Spawns
    BY <2>1, <2>2 DEF Chains, ManagerTypeOK
  <2>9. (\A m \in Spawns : handle[m] # 0 => LineOf(handle[m]) = LineOf(m) /\ Entered(handle[m]))'
    BY <2>1, <2>2, <2>8 DEF Chains
  <2> QED
    BY <2>6, <2>7, <2>9 DEF Chains
<1>3. ASSUME NEW n \in Spawns, Activate(n) 
      PROVE  /\ (\A m \in Spawns : LineOf(m) # m => Entered(LineOf(m)))'
             /\ \A k, m \in Spawns \ {n} :
                  Entered(k)' /\ Entered(m)' /\ LineOf(k)' = LineOf(m)' /\ k < m => ~Tip(k)'
  <2>1. /\ Entered(n)' /\ \A m \in Spawns : LineOf(m)' = LineOf(m)
        /\ \A m \in Spawns \ {n} : (Entered(m)' <=> Entered(m)) /\ (Tip(m)' <=> Tip(m) /\ origin[n] # m)
    BY <1>3, Activation
  <2>2. \A m \in Spawns : LineOf(m) \in Spawns
    BY LinesAreSpawns
  <2>3. (\A m \in Spawns : LineOf(m) # m => Entered(LineOf(m)))'
    BY <2>1, <2>2 DEF Chains
  <2>4. \A k, m \in Spawns \ {n} :
          Entered(k)' /\ Entered(m)' /\ LineOf(k)' = LineOf(m)' /\ k < m => ~Tip(k)'
    BY <2>1 DEF Chains
  <2> QED
    BY <2>3, <2>4
<1>4. ASSUME NEW n \in Spawns, Acquired(n)
      PROVE  Chains'
  <2>1. Activate(n) /\ origin[n] \notin Spawns /\ \A m \in Spawns \ {n} : handle'[m] = handle[m]
    BY <1>4, CallersAssumption, NoZero DEF Acquired
  <2>2. /\ ~Entered(n) /\ \A m \in Spawns : LineOf(m)' = LineOf(m)
        /\ \A m \in Spawns \ {n} : (Entered(m)' <=> Entered(m)) 
    BY <2>1, Activation
  <2>3. LineOf(n) = n /\ \A m \in Spawns \ {n} : LineOf(m) # n
    BY <2>1, <2>2, FirstOfLine DEF Chains
  <2>4. \A k, m \in Spawns :
          Entered(k)' /\ Entered(m)' /\ LineOf(k)' = LineOf(m)' /\ k < m => ~Tip(k)'
    BY <1>3, <2>1, <2>2, <2>3, NoZero
  <2>5. handle' = handle /\ handle[n] = 0
    BY <1>4, <2>2 DEF Acquired, Shape, Untouched
  <2>6. \A m \in Spawns : handle[m] # 0 => m # n /\ handle[m] # n /\ handle[m] \in Spawns
    BY <2>2, <2>5 DEF Chains, ManagerTypeOK
  <2>7. (\A m \in Spawns : handle[m] # 0 => LineOf(handle[m]) = LineOf(m) /\ Entered(handle[m]))'
    BY <2>2, <2>5, <2>6 DEF Chains
  <2> QED
    BY <1>3, <2>1, <2>4, <2>7 DEF Chains
<1>5. ASSUME NEW n \in Spawns, Respawned(n)
      PROVE  Chains'
  <2> DEFINE p == origin[n]
  <2>1. Activate(n) /\ p \in Spawns
    BY <1>5 DEF Respawned
  <2>2. /\ ~Entered(n) /\ \A m \in Spawns : LineOf(m)' = LineOf(m)
        /\ Entered(n)'
        /\ \A m \in Spawns \ {n} : (Entered(m)' <=> Entered(m)) /\ (Tip(m)' <=> Tip(m) /\ p # m)
    BY <2>1, Activation
  <2>3. Tip(p) /\ LineOf(n) = LineOf(p) /\ p < n /\ Entered(p)
    BY <2>1, Replaced DEF Tip
  <2> HIDE DEF p
  <2>4. ASSUME NEW k \in Spawns, k < n, Entered(k)', LineOf(k)' = LineOf(n)'
        PROVE  ~Tip(k)'
    <3>1. k # n /\ Entered(k) /\ LineOf(k) = LineOf(p)
      BY <2>2, <2>3, <2>4, NoZero
    <3>2. k < p => ~Tip(k)
      BY <2>1, <2>3, <3>1 DEF Chains
    <3>3. ~(p < k)
      BY <2>1, <2>3, <3>1 DEF Chains
    <3> QED
      BY <2>1, <2>2, <3>1, <3>2, <3>3, NoZero
  <2>5. ASSUME NEW k \in Spawns, n < k, Entered(k)', LineOf(k)' = LineOf(n)'
        PROVE  FALSE
    <3>1. k # n /\ Entered(k) /\ LineOf(k) = LineOf(p) /\ p < k
      BY <2>1, <2>2, <2>3, <2>5, NoZero
    <3> QED
      BY <2>1, <2>3, <3>1 DEF Chains
  <2>6. \A k, m \in Spawns :
          Entered(k)' /\ Entered(m)' /\ LineOf(k)' = LineOf(m)' /\ k < m => ~Tip(k)'
    BY <1>3, <2>1, <2>4, <2>5, NoZero
  <2>7. \A m \in Spawns : handle'[m] = IF m = n THEN handle[p] ELSE handle[m]
    BY <1>5 DEF Respawned, ManagerTypeOK, p
  <2>8. \A m \in Spawns : handle[m] # 0 => handle[m] # n /\ handle[m] \in Spawns
    BY <2>2 DEF Chains, ManagerTypeOK
  <2>9. (\A m \in Spawns : handle[m] # 0 => LineOf(handle[m]) = LineOf(m) /\ Entered(handle[m]))'
    <3>1. ASSUME NEW m \in Spawns, handle'[m] # 0
          PROVE  /\ handle'[m] \in Spawns /\ handle'[m] # n
                 /\ LineOf(handle'[m]) = LineOf(m) /\ Entered(handle'[m])
      BY <2>1, <2>3, <2>7, <2>8, <3>1 DEF Chains
    <3> QED
      BY <2>2, <3>1
  <2> QED
    BY <1>3, <2>1, <2>6, <2>9 DEF Chains
<1> QED
  BY <1>1, <1>2, <1>4, <1>5, ByKind, SpawnSteps

(* Every step keeps the holders of a line counted by its tip.              *)
LEMMA CountedKept == ManagerTypeOK /\ Shape /\ Chains /\ Counted /\ ManagerNext => Counted'
<1> SUFFICES ASSUME ManagerTypeOK, Shape, Chains, Counted, ManagerNext PROVE Counted'
  OBVIOUS
<1> DEFINE Holding(e) == \A c \in Callers :
             caller[c] = "holding" /\ LineOf(e) = LineOf(holds[c]) => c \in consumers[e]
           Unused(e) == handle[e] \in timers => consumers[e] = {}
<1>0. \A e \in Spawns : Tip(e) => Holding(e) /\ Unused(e)
  BY DEF Counted
<1>h. \A c \in Callers : caller[c] = "holding" => holds[c] \in Spawns /\ Entered(holds[c])
  BY DEF Shape, Held
<1>u. \A d, e \in Spawns : Tip(d) /\ Tip(e) /\ LineOf(d) = LineOf(e) => d = e
  BY NoZero DEF Chains, Tip
<1>1. ASSUME Minor, NEW e \in Spawns, Tip(e)' PROVE Holding(e)' /\ Unused(e)'
  <2>1. \A n \in Spawns : (Entered(n)' <=> Entered(n)) /\ (Tip(n)' <=> Tip(n)) /\ LineOf(n)' = LineOf(n)
    BY <1>1, MinorSame
  <2>2. RefsMove
    BY <1>1, MinorRefs
  <2>3. Tip(e) /\ (entry # 0 => entry \in Spawns /\ Tip(entry))
    BY <1>1, <2>1 DEF Shape, Mapped, ManagerTypeOK
  <2>4. ASSUME NEW c \in Callers, caller'[c] = "holding", LineOf(e)' = LineOf(holds[c])'
        PROVE  c \in consumers'[e]
    <3>1. CASE caller[c] = "holding" /\ holds'[c] = holds[c]
      <4>1. holds[c] \in Spawns
        BY <1>h, <3>1
      <4>2. LineOf(e) = LineOf(holds[c])
        BY <2>1, <2>4, <3>1, <4>1
      <4>3. c \in consumers[e]
        BY <1>0, <2>3, <3>1, <4>2
      <4> QED
        BY <2>2, <2>4, <4>3 DEF RefsMove
    <3>2. CASE entry # 0 /\ holds'[c] = entry /\ c \in consumers'[entry]
      <4>1. LineOf(e) = LineOf(entry)
        BY <2>1, <2>3, <2>4, <3>2
      <4>2. e = entry
        BY <1>u, <2>3, <3>2, <4>1
      <4> QED
        BY <3>2, <4>2
    <3> QED
      BY <2>2, <2>4, <3>1, <3>2 DEF RefsMove
  <2>5. ASSUME handle'[e] \in timers' PROVE consumers'[e] = {}
    <3>1. CASE handle[e] \in timers /\ consumers'[e] \subseteq consumers[e]
      BY <1>0, <2>3, <3>1
    <3>2. CASE handle[e] = entry /\ entry # 0 /\ e # entry
      BY <1>u, <2>3, <3>2 DEF Chains
    <3> QED
      BY <2>2, <2>5, <3>1, <3>2 DEF RefsMove
  <2> QED
    BY <2>4, <2>5
<1>2. ASSUME NEW n \in Spawns, NEW from \in Callers \cup Spawns, Spawned(n, from),
             NEW e \in Spawns, Tip(e)'
      PROVE  Holding(e)' /\ Unused(e)'
  <2>1. /\ Tip(e) /\ Entered(e)
        /\ \A m \in Spawns \ {n} : LineOf(m)' = LineOf(m)
        /\ ~Entered(n)
    <3>1. /\ \A m \in Spawns : (Tip(m)' <=> Tip(m))
          /\ \A m \in Spawns \ {n} : LineOf(m)' = LineOf(m)
          /\ ~Entered(n)
      BY <1>2, Spawning DEF Spawned
    <3> QED
      BY <1>2, <3>1 DEF Tip
  <2>2. /\ UNCHANGED <<consumers, handle, timers, holds>>
        /\ \A d \in Callers : caller'[d] = "holding" => caller[d] = "holding"
    BY <1>2 DEF Spawned
  <2>3. Unused(e)'
    BY <1>0, <2>1, <2>2
  <2>4. ASSUME NEW c \in Callers, caller'[c] = "holding", LineOf(e)' = LineOf(holds[c])'
        PROVE  c \in consumers'[e]
    <3>1. caller[c] = "holding" /\ holds[c] \in Spawns \ {n} /\ e \in Spawns \ {n} /\ holds'[c] = holds[c]
      BY <1>h, <2>1, <2>2, <2>4
    <3>2. LineOf(e) = LineOf(holds[c])
      BY <2>1, <2>4, <3>1
    <3> QED
      BY <1>0, <2>1, <2>2, <3>1, <3>2
  <2> QED
    BY <2>3, <2>4
<1>3. ASSUME NEW n \in Spawns, Acquired(n), NEW e \in Spawns, Tip(e)'
      PROVE  Holding(e)' /\ Unused(e)'
  <2>1. Activate(n) /\ origin[n] \notin Spawns
    BY <1>3, CallersAssumption, NoZero DEF Acquired
  <2>2. /\ ~Entered(n) /\ \A m \in Spawns : LineOf(m)' = LineOf(m)
        /\ e # n => Tip(e)
    BY <1>3, <2>1, Activation
  <2>3. LineOf(n) = n /\ \A m \in Spawns \ {n} : LineOf(m) # n
    BY <2>1, <2>2, FirstOfLine DEF Chains
  <2>4. PICK c \in Callers : /\ consumers' = [consumers EXCEPT ![n] = {c}]
                             /\ caller' = [caller EXCEPT ![c] = "holding"]
                             /\ holds' = [holds EXCEPT ![c] = n]
    BY <1>3 DEF Acquired, Status
  <2>5. handle' = handle /\ timers' = timers /\ handle[n] = 0 /\ 0 \notin timers
    BY <1>3, <2>2, NoZero DEF Acquired, Activate, Shape, Untouched, ManagerTypeOK
  <2>6. /\ c \in consumers'[n]
        /\ \A m \in Spawns \ {n} : consumers'[m] = consumers[m]
        /\ caller'[c] = "holding" /\ holds'[c] = n
        /\ \A d \in Callers \ {c} : caller'[d] = caller[d] /\ holds'[d] = holds[d]
    BY <2>4 DEF ManagerTypeOK
  <2>7. Unused(e)'
    BY <1>0, <2>2, <2>5, <2>6
  <2>8. ASSUME NEW d \in Callers, caller'[d] = "holding", LineOf(e)' = LineOf(holds[d])'
        PROVE  d \in consumers'[e]
    <3>1. CASE d = c
      <4>1. LineOf(e) = n
        BY <2>2, <2>3, <2>6, <2>8, <3>1
      <4>2. e = n
        BY <2>3, <4>1
      <4> QED
        BY <2>6, <3>1, <4>2
    <3>2. CASE d # c
      <4>1. holds[d] \in Spawns \ {n} /\ caller[d] = "holding" /\ holds'[d] = holds[d]
        BY <1>h, <2>2, <2>6, <2>8, <3>2
      <4>2. LineOf(e) = LineOf(holds[d])
        BY <2>2, <2>8, <4>1
      <4>3. e # n
        BY <2>3, <4>1, <4>2
      <4> QED
        BY <1>0, <2>2, <2>6, <4>1, <4>2, <4>3
    <3> QED
      BY <3>1, <3>2
  <2> QED
    BY <2>7, <2>8
<1>4. ASSUME NEW n \in Spawns, Respawned(n), NEW e \in Spawns, Tip(e)'
      PROVE  Holding(e)' /\ Unused(e)'
  <2> DEFINE p == origin[n]
  <2>1. Activate(n) /\ p \in Spawns
    BY <1>4 DEF Respawned
  <2>2. /\ \A m \in Spawns : LineOf(m)' = LineOf(m)
        /\ e # n => Tip(e)
    BY <1>4, <2>1, Activation
  <2>3. Tip(p) /\ LineOf(n) = LineOf(p)
    BY <2>1, Replaced
  <2>4. /\ consumers'[n] = consumers[p] /\ handle'[n] = handle[p]
        /\ \A m \in Spawns \ {n} : consumers'[m] = consumers[m] /\ handle'[m] = handle[m]
        /\ UNCHANGED <<timers, caller, holds>>
    BY <1>4 DEF Respawned, Activate, ManagerTypeOK
  <2> HIDE DEF p
  <2>5. Unused(e)'
    BY <1>0, <2>1, <2>2, <2>3, <2>4
  <2>6. ASSUME NEW d \in Callers, caller'[d] = "holding", LineOf(e)' = LineOf(holds[d])'
        PROVE  d \in consumers'[e]
    <3>1. caller[d] = "holding" /\ holds'[d] = holds[d] /\ holds[d] \in Spawns
      BY <1>h, <2>4, <2>6
    <3>2. LineOf(e) = LineOf(holds[d])
      BY <2>2, <2>6, <3>1
    <3> QED
      BY <1>0, <2>1, <2>2, <2>3, <2>4, <3>1, <3>2
  <2> QED
    BY <2>5, <2>6
<1>5. \A e \in Spawns : Tip(e)' => Holding(e)' /\ Unused(e)'
  <2> HIDE DEF Holding, Unused
  <2> QED
    BY <1>1, <1>2, <1>3, <1>4, ByKind, SpawnSteps
<1> QED
  BY <1>5 DEF Counted

-----------------------------------------------------------------------------
(* A stop that overlaps with nothing keeps the parts of a key apart.       *)
LEMMA LoneStopping ==
    ASSUME ManagerTypeOK, Shape, Lone, overlaps' = {},
           NEW e \in Spawns, NEW w \in Stoppers, StopEntry(e, w), e = entry \/ e \in timers,
           UNCHANGED <<proc, origin, entry>>
    PROVE  Lone'
<1>1. e = entry /\ ~Respawning(e) /\ (Stopping(e) => Alive(e))
  <2>1. e = entry
    BY DEF Lone, Ticking
  <2>2. /\ Respawning(e) => "stop during respawn" \in overlaps'
        /\ Stopping(e) /\ ~Alive(e) => "two stops of a dead entry" \in overlaps'
    BY StoppingTypes
  <2> QED
    BY <2>1, <2>2
<1>2. /\ \A n \in Spawns : state'[n] = "handshaking" <=> state[n] = "handshaking"
      /\ timers' \subseteq timers \ {handle[e], e}
      /\ stops' = stops \cup {<<e, w>>}
  BY DEF StopEntry, ManagerTypeOK
<1>3. Coming'
  BY <1>2 DEF Lone, Coming
<1>4. timers' = {}
  BY <1>1, <1>2 DEF Lone, Ticking
<1>5. \A d \in Spawns, v \in Stoppers : <<d, v>> \in stops' => <<d, v>> \in stops \/ (d = e /\ v = w)
  BY <1>2
<1>6. \A d \in Spawns : Respawning(d)' <=> Respawning(d)
  BY <1>2 DEF Respawning
<1>7. \A d \in Spawns : Stopping(d)' => Stopping(d) \/ d = e
  BY <1>5 DEF Stopping
<1>8. \A d \in Spawns : Stopping(d)' => d = entry' /\ ~Respawning(d)'
  BY <1>1, <1>6, <1>7 DEF Lone, Going
<1>9. \A d \in Spawns, u, v \in Stoppers :
        ~Alive(d)' /\ <<d, u>> \in stops' /\ <<d, v>> \in stops' => u = v
  BY <1>1, <1>5 DEF Lone, Going, Alive, Stopping
<1>10. RunningIsMapped'
  BY <1>2 DEF Lone, RunningIsMapped, Alive
<1> QED
  BY <1>3, <1>4, <1>8, <1>9, <1>10 DEF Lone, Going, Ticking

(* So does what touches neither instances, timers nor stops.               *)
LEMMA LoneQuiet ==
    ASSUME Lone, UNCHANGED <<state, proc, origin, entry, handle, timers, stops>>
    PROVE  Lone'
BY DEF Lone, Coming, Going, Ticking, RunningIsMapped, Stopping, Respawning, Alive

(* So does a minor step that is no overlap.                                *)
LEMMA LoneMinor ==
    ASSUME ManagerTypeOK, Shape, Lone, overlaps' = {}, Minor
    PROVE  Lone'
<1> USE DEF ManagerTypeOK
<1>1. ASSUME NEW c \in Callers, AcquireThrows(c) \/ ReleaseNothing(c) \/ ReleaseShared(c)
      PROVE  Lone'
  <2>1. UNCHANGED <<state, proc, origin, entry, handle, timers, stops>>
    BY <1>1 DEF AcquireThrows, ReleaseNothing, ReleaseShared, subprocess, refs
  <2> QED
    BY <2>1, LoneQuiet
<1>2. ASSUME NEW c \in Callers, AcquireExisting(c)
      PROVE  Lone'
  <2>1. UNCHANGED <<state, proc, origin, entry, stops>> /\ timers' = timers \ {handle[entry]}
    BY <1>2 DEF AcquireExisting, Reuse, subprocess
  <2>2. timers' = {}
    BY <2>1 DEF Lone, Ticking
  <2> QED
    BY <2>1, <2>2 DEF Lone, Coming, Going, Ticking, RunningIsMapped, Stopping, Respawning, Alive
<1>3. ASSUME NEW c \in Callers, ReleaseLastGlobal(c)
      PROVE  Lone'
  <2>1. /\ UNCHANGED <<state, proc, origin, entry, stops>> /\ entry \in Spawns
        /\ timers' = (timers \ {handle[entry]}) \cup {entry} /\ handle'[entry] = entry
    BY <1>3 DEF ReleaseLastGlobal, subprocess
  <2>2. state[entry] = "active"
    <3>1. "armed on a dead entry" \in Overlaps
      BY DEF Overlaps
    <3>2. state[entry] # "active" => "armed on a dead entry" \in overlaps'
      BY <1>3, <3>1, NotedIn DEF ReleaseLastGlobal
    <3> QED
      BY <3>2
  <2>3. timers' = {entry}
    BY <2>1 DEF Lone, Ticking
  <2>4. Ticking'
    BY <2>1, <2>2, <2>3 DEF Ticking
  <2> QED
    BY <2>1, <2>4 DEF Lone, Coming, Going, RunningIsMapped, Stopping, Respawning, Alive
<1>4. ASSUME NEW c \in Callers, ReleaseLast(c) \/ \E s \in {"restarting", "shutting"} : Shutdown(c, s)
      PROVE  Lone'
  <2>1. entry \in Spawns /\ c \in Stoppers /\ StopEntry(entry, c) /\ UNCHANGED <<proc, origin, entry>>
    BY <1>4 DEF ReleaseLast, Shutdown, Stoppers
  <2> QED
    BY <2>1, LoneStopping
<1>5. ASSUME NEW e \in Spawns, IdleTimeout(e)
      PROVE  Lone'
  <2>1. "idle" \in Stoppers /\ StopEntry(e, "idle") /\ e \in timers /\ UNCHANGED <<proc, origin, entry>>
    BY <1>5 DEF IdleTimeout, Stoppers
  <2> QED
    BY <2>1, LoneStopping
<1>6. CASE ShutdownAll
  <2>1. CASE entry = 0
    BY <1>6, <2>1, LoneQuiet DEF ShutdownAll
  <2>2. CASE entry # 0
    <3>1. /\ "all" \in Stoppers /\ StopEntry(entry, "all") /\ entry \in Spawns
          /\ UNCHANGED <<proc, origin, entry>>
      BY <1>6, <2>2 DEF ShutdownAll, Stoppers
    <3> QED
      BY <3>1, LoneStopping
  <2> QED
    BY <2>1, <2>2
<1>7. ASSUME NEW n \in Spawns, Answer(n) \/ ExitUnheard(n) \/ HandshakeFails(n)
      PROVE  Lone'
  <2>1. /\ UNCHANGED <<origin, entry, handle, timers, stops>>
        /\ \A m \in Spawns : /\ state'[m] = "handshaking" => state[m] = "handshaking"
                             /\ state[m] # "handshaking" => state'[m] = state[m]
                             /\ Alive(m)' => Alive(m)
                             /\ Alive(m) => Alive(m)' \/ state[m] = "handshaking"
    BY <1>7 DEF Answer, ExitUnheard, HandshakeFails, refs, Alive
  <2>2. \A m \in Spawns : state[m] = "handshaking" => ~Stopping(m)
    BY DEF Shape, Untouched, Entered, Origins
  <2>3. \A m \in Spawns : state'[m] # "handshaking" /\ Alive(m)' => state[m] # "handshaking"
    BY <1>7 DEF Answer, ExitUnheard, HandshakeFails, Alive
  <2>4. \A m \in Spawns : Stopping(m)' = Stopping(m) /\ (Respawning(m)' => Respawning(m))
    BY <2>1 DEF Stopping, Respawning
  <2>5. Coming'
    BY <2>1 DEF Lone, Coming
  <2>6. Going'
    BY <2>1, <2>2, <2>4 DEF Lone, Going, Stopping
  <2>7. Ticking'
    BY <2>1 DEF Lone, Ticking
  <2>8. RunningIsMapped'
    BY <2>1, <2>3 DEF Lone, RunningIsMapped
  <2> QED
    BY <2>5, <2>6, <2>7, <2>8 DEF Lone
<1>8. ASSUME NEW e \in Spawns, NEW ws \in SUBSET Stoppers, Stopped(e, ws), Stopping(e),
             UNCHANGED <<origin, refs>>,
             \A m \in Spawns \ {e} : proc'[m] = proc[m],
             ~Alive(e)', \A w \in Stoppers : <<e, w>> \in stops => w \in ws
      PROVE  Lone'
  <2>1. e = entry /\ ~Respawning(e) /\ entry' = 0 /\ stops' = stops \ ({e} \X ws)
    BY <1>8 DEF Lone, Going, Stopped
  <2>2. \A m \in Spawns : state[m] # "handshaking"
    BY <2>1, NoZero DEF Lone, Coming, Respawning
  <2>3. \A m \in Spawns : state'[m] # "handshaking"
    BY <1>8, <2>2 DEF Stopped
  <2>4. \A d \in Spawns, w \in Stoppers : <<d, w>> \notin stops'
    BY <1>8, <2>1 DEF Lone, Going, Stopping
  <2>5. timers' = {}
    BY <1>8, <2>1 DEF Shape, Halting, Lone, Ticking, refs
  <2>6. \A m \in Spawns : ~Alive(m)'
    BY <1>8, <2>1, <2>2 DEF Lone, RunningIsMapped, Alive
  <2> QED
    BY <2>3, <2>4, <2>5, <2>6 DEF Lone, Coming, Going, Ticking, RunningIsMapped, Stopping
<1>9. ASSUME NEW e \in Spawns, StopEnds(e) \/ \E w \in Stoppers : GraceEnds(e, w)
      PROVE  Lone'
  <2>1. CASE StopEnds(e)
    <3>1. /\ Stopped(e, Stoppers) /\ Stopping(e) /\ UNCHANGED <<origin, refs>> /\ ~Alive(e)'
          /\ \A m \in Spawns \ {e} : proc'[m] = proc[m]
      BY <2>1 DEF StopEnds, Alive
    <3> QED
      BY <1>8, <3>1
  <2>2. ASSUME NEW w \in Stoppers, GraceEnds(e, w)
        PROVE  Lone'
    <3>1. /\ Stopped(e, {w}) /\ Stopping(e) /\ UNCHANGED <<origin, refs>> /\ ~Alive(e)' /\ ~Alive(e)
          /\ \A m \in Spawns \ {e} : proc'[m] = proc[m] 
          /\ <<e, w>> \in stops
      BY <2>2 DEF GraceEnds, Alive, Stopping
    <3>2. \A v \in Stoppers : <<e, v>> \in stops => v \in {w}
      BY <3>1 DEF Lone, Going
    <3> QED
      BY <1>8, <3>1, <3>2
  <2> QED
    BY <1>9, <2>1, <2>2
<1> QED
  BY <1>1, <1>2, <1>3, <1>4, <1>5, <1>6, <1>7, <1>9 DEF Minor

(* The history of overlaps grows.                                          *)
LEMMA OverlapsGrow == ManagerTypeOK /\ ManagerNext => overlaps \subseteq overlaps'
<1> SUFFICES ASSUME ManagerTypeOK, ManagerNext PROVE overlaps \subseteq overlaps'
  OBVIOUS
<1>1. ASSUME NEW cond, NEW what, Noted(cond, what) PROVE overlaps \subseteq overlaps'
  BY <1>1 DEF Noted
<1>2. ASSUME NEW e, NEW w, StopEntry(e, w) PROVE overlaps \subseteq overlaps'
  BY <1>2 DEF StopEntry
<1>3. ASSUME NEW c \in Callers, AcquireExisting(c) \/ AcquireThrows(c) \/ ReleaseNothing(c) \/ ReleaseShared(c)
      PROVE overlaps \subseteq overlaps'
  BY <1>3 DEF AcquireExisting, AcquireThrows, ReleaseNothing, ReleaseShared
<1>4. ASSUME NEW c \in Callers, AcquireSpawns(c) \/ ReleaseLastGlobal(c)
      PROVE overlaps \subseteq overlaps'
  BY <1>1, <1>4 DEF AcquireSpawns, ReleaseLastGlobal
<1>5. ASSUME NEW c \in Callers, ReleaseLast(c) \/ \E s \in {"restarting", "shutting"} : Shutdown(c, s)
      PROVE overlaps \subseteq overlaps'
  BY <1>2, <1>5 DEF ReleaseLast, Shutdown
<1>6. ASSUME NEW n \in Spawns, Answer(n) \/ ExitUnheard(n) \/ HandshakeFails(n) \/ Acquired(n) \/ Respawned(n)
      PROVE overlaps \subseteq overlaps'
  BY <1>6 DEF Answer, ExitUnheard, HandshakeFails, Acquired, Respawned, Activate
<1>7. ASSUME NEW n \in Spawns, ModuleCrashes(n) PROVE overlaps \subseteq overlaps'
  BY <1>1, <1>7 DEF ModuleCrashes
<1>8. ASSUME NEW n \in Spawns, IdleTimeout(n) PROVE overlaps \subseteq overlaps'
  BY <1>2, <1>8 DEF IdleTimeout
<1>9. ASSUME NEW n \in Spawns, StopEnds(n) \/ \E w \in Stoppers : GraceEnds(n, w)
      PROVE overlaps \subseteq overlaps'
  BY <1>9 DEF StopEnds, GraceEnds
<1>10. ASSUME ShutdownAll PROVE overlaps \subseteq overlaps'
  BY <1>2, <1>10 DEF ShutdownAll
<1> QED
  BY <1>3, <1>4, <1>5, <1>6, <1>7, <1>8, <1>9, <1>10 DEF ManagerNext

(* So does every step that is no overlap.                                  *)
LEMMA ApartKept == ManagerTypeOK /\ Shape /\ Apart /\ ManagerNext => Apart'
<1> SUFFICES ASSUME ManagerTypeOK, Shape, Apart, ManagerNext, overlaps' = {} PROVE Lone'
  BY DEF Apart
<1>l. Lone
  BY OverlapsGrow DEF Apart
<1>1. CASE Minor
  BY <1>1, <1>l, LoneMinor
<1>2. ASSUME NEW c \in Callers, AcquireSpawns(c) PROVE Lone'
  <2>1. PICK n \in Spawns : /\ Fresh(n)
                            /\ state' = [state EXCEPT ![n] = "handshaking"]
                            /\ proc' = [proc EXCEPT ![n] = "booting"]
                            /\ origin' = [origin EXCEPT ![n] = c]
    BY <1>2 DEF AcquireSpawns
  <2>2. /\ entry = 0 /\ UNCHANGED <<entry, handle, timers, stops>>
    BY <1>2 DEF AcquireSpawns, refs
  <2>3. \A m \in Spawns : state[m] # "handshaking"
    <3>1. "two acquires" \in Overlaps /\ overlaps \subseteq Overlaps
      BY DEF Overlaps, ManagerTypeOK
    <3>2. (\E m \in Spawns : state[m] = "handshaking") => "two acquires" \in overlaps'
      BY <1>2, <3>1, NotedIn DEF AcquireSpawns
    <3> QED
      BY <3>2
  <2>4. /\ state'[n] = "handshaking" /\ origin'[n] = c
        /\ \A m \in Spawns \ {n} : state'[m] = state[m] /\ proc'[m] = proc[m]
    BY <2>1 DEF ManagerTypeOK
  <2>5. timers' = {} /\ \A e \in Spawns : ~Stopping(e)
    BY <1>l, <2>2, NoZero DEF Lone, Going, Ticking, ManagerTypeOK
  <2>6. Going'
    BY <2>2, <2>5 DEF Going, Stopping
  <2>7. RunningIsMapped'
    BY <1>l, <2>2, <2>4 DEF Lone, RunningIsMapped, Alive
  <2> QED
    BY <2>2, <2>3, <2>4, <2>5, <2>6, <2>7 DEF Lone, Coming, Ticking
<1>3. ASSUME NEW n \in Spawns, Acquired(n) \/ Respawned(n) PROVE Lone'
  <2>1. Activate(n) /\ (origin[n] \in Callers \/ origin[n] \in Spawns)
    BY <1>3 DEF Acquired, Respawned
  <2>2. /\ UNCHANGED <<proc, origin, timers, stops>> /\ entry' = n
        /\ state[n] = "handshaking" /\ state'[n] = "active" 
        /\ \A m \in Spawns \ {n} : state'[m] = state[m]
    BY <2>1 DEF Activate, ManagerTypeOK
  <2>3. entry # 0 => entry = origin[n] /\ state[entry] = "crashed" /\ proc[entry] = "gone"
    BY <1>l, <2>2 DEF Lone, Coming, Shape, Origins, ManagerTypeOK
  <2>4. \A e \in Spawns : ~Stopping(e)
    BY <1>l, <2>2, <2>3, NoZero DEF Lone, Going, Respawning
  <2>5. timers = {}
    BY <1>l, <2>3, NoZero DEF Lone, Ticking, ManagerTypeOK
  <2>6. \A m \in Spawns \ {n} : state[m] # "handshaking" /\ ~Alive(m)
    BY <1>l, <2>2, <2>3, NoZero DEF Lone, Coming, RunningIsMapped, Alive
  <2>7. Coming'
    BY <2>2, <2>6 DEF Coming
  <2>8. Going'
    BY <2>2, <2>4 DEF Going, Stopping
  <2>9. RunningIsMapped'
    BY <2>2, <2>6 DEF RunningIsMapped, Alive
  <2> QED
    BY <2>2, <2>5, <2>7, <2>8, <2>9 DEF Lone, Ticking
<1>4. ASSUME NEW m \in Spawns, ModuleCrashes(m) PROVE Lone'
  <2>1. PICK n \in Spawns, thrown \in BOOLEAN :
           /\ Fresh(n)
           /\ state' = [state EXCEPT ![m] = "crashed",
                                     ![n] = IF thrown THEN "crashed" ELSE "handshaking"]
           /\ proc' = [proc EXCEPT ![m] = "gone",
                                   ![n] = IF thrown THEN "gone" ELSE "booting"]
           /\ origin' = [origin EXCEPT ![n] = m]
    BY <1>4, Zenon DEF ModuleCrashes
  <2>2. /\ state[m] = "active" /\ proc[m] = "ready"
        /\ UNCHANGED <<entry, handle, timers, stops>>
    BY <1>4 DEF ModuleCrashes, OnCrashed, refs
  <2>3. /\ n # m /\ state'[m] = "crashed" /\ proc'[m] = "gone" /\ origin'[n] = m
        /\ state'[n] = "crashed" => proc'[n] = "gone"
        /\ state'[n] \in {"crashed", "handshaking"}
        /\ \A k \in Spawns \ {n, m} : state'[k] = state[k] /\ proc'[k] = proc[k]
    BY <2>1, <2>2 DEF ManagerTypeOK, Fresh
  <2>4. m = entry
    BY <1>l, <2>2 DEF Lone, RunningIsMapped, Alive
  <2>5. \A k \in Spawns : state[k] # "handshaking"
    BY <1>l, <2>2, <2>4, NoZero DEF Lone, Coming, Shape, Origins
  <2>6. \A e \in Spawns : ~Stopping(e)
    BY <1>l, <2>2, <2>4 DEF Lone, Going, Shape, Halting
  <2>7. timers = {}
    <3>1. "crash while idle" \in Overlaps /\ overlaps \subseteq Overlaps
      BY DEF Overlaps, ManagerTypeOK
    <3>2. handle[m] \in timers => "crash while idle" \in overlaps'
      BY <1>4, <3>1, NotedIn DEF ModuleCrashes
    <3> QED
      BY <1>l, <2>4, <3>2 DEF Lone, Ticking
  <2>8. Coming'
    BY <2>2, <2>3, <2>4, <2>5, NoZero DEF Coming
  <2>9. Going'
    BY <2>2, <2>6 DEF Going, Stopping
  <2>10. RunningIsMapped'
    BY <1>l, <2>2, <2>3, <2>4 DEF Lone, RunningIsMapped, Alive
  <2> QED
    BY <2>2, <2>7, <2>8, <2>9, <2>10 DEF Lone, Ticking
<1> QED
  BY <1>1, <1>2, <1>3, <1>4, ByKind

-----------------------------------------------------------------------------
(* The inductive invariant.                                                *)
ManagerInv == ManagerTypeOK /\ Shape /\ Chains /\ Counted /\ Apart

(* It holds of an empty key.                                               *)
LEMMA ManagerStarts == ManagerInit => ManagerInv
<1> SUFFICES ASSUME ManagerInit PROVE ManagerInv
  OBVIOUS
<1>1. ManagerTypeOK
  BY SpawnsAssumption DEF ManagerInit, ManagerTypeOK, Overlaps
<1>2. \A n \in Spawns : ~Entered(n) /\ ~Tip(n) /\ LineOf(n) = n /\ ~Stopping(n)
  BY FirstOfLine, NoZero DEF ManagerInit, Entered, Tip, Stopping
<1>3. Shape
  BY <1>2, NoZero DEF ManagerInit, Shape, Births, Origins, Untouched, Halting, Held, Mapped
<1>4. Chains /\ Counted
  BY <1>2 DEF ManagerInit, Chains, Counted
<1>5. Lone
  BY <1>2 DEF ManagerInit, Lone, Coming, Going, Ticking, RunningIsMapped, Alive, Stopping
<1> QED
  BY <1>1, <1>3, <1>4, <1>5 DEF ManagerInv, Apart

(* It holds where nothing changes.                                         *)
LEMMA ManagerStutters == ManagerInv /\ UNCHANGED managerVars => ManagerInv'
<1> SUFFICES ASSUME ManagerInv, UNCHANGED managerVars PROVE ManagerInv'
  OBVIOUS
<1> USE DEF managerVars, subprocess, refs
<1>1. ManagerTypeOK'
  BY DEF ManagerInv, ManagerTypeOK
<1>2. \A n \in Spawns : (Entered(n)' <=> Entered(n)) /\ (Tip(n)' <=> Tip(n)) /\ LineOf(n)' = LineOf(n)
  BY LinesSame
<1>3. Shape'
  BY <1>2 DEF ManagerInv, ManagerTypeOK, Shape, Births, Origins, Untouched, Halting, Held, Mapped, Stopping
<1>4. Chains'
  BY <1>2, LinesAreSpawns DEF ManagerInv, Chains, ManagerTypeOK
<1>5. Counted'
  BY <1>2 DEF ManagerInv, Counted, Shape, Held
<1>6. Apart'
  BY LoneQuiet DEF ManagerInv, Apart
<1> QED
  BY <1>1, <1>3, <1>4, <1>5, <1>6 DEF ManagerInv

(* Every step keeps it.                                                    *)
LEMMA ManagerInductive == ManagerInv /\ [ManagerNext]_managerVars => ManagerInv'
BY ManagerTypes, ShapeKept, ChainsKept, CountedKept, ApartKept, ManagerStutters DEF ManagerInv

(* So it always holds.                                                     *)
LEMMA ManagerAlways == ManagerSafety => []ManagerInv
BY ManagerStarts, ManagerInductive, PTL DEF ManagerSafety

(* What the invariant says of holders and of what runs.                    *)
LEMMA KeptByInv == ManagerInv => HoldersKeepModule /\ LostOnlyByOverlap
<1> SUFFICES ASSUME ManagerInv PROVE HoldersKeepModule /\ LostOnlyByOverlap
  OBVIOUS
<1>1. entry # 0 => entry \in Spawns /\ Tip(entry)
  BY DEF ManagerInv, ManagerTypeOK, Shape, Mapped
<1>2. HoldersKeepModule
  BY <1>1 DEF ManagerInv, Counted, HoldersKeepModule, IdleTimerMeansUnused, HolderIsCounted
<1>3. LostOnlyByOverlap
  BY DEF ManagerInv, Apart, Lone, RunningIsMapped, LostOnlyByOverlap, Orphan
<1> QED
  BY <1>2, <1>3

(* The types of a key of the module host.                                  *)
THEOREM HostTypes == ManagerSafety => []ManagerTypeOK
<1>1. ManagerInv => ManagerTypeOK
  BY DEF ManagerInv
<1> QED
  BY ManagerAlways, <1>1, PTL

(* Who holds a module is counted by the entry in the map across any number *)
(* of crashes and respawns, and what runs outside the map was lost by one  *)
(* of the five overlaps (manager.ts:255, 565).                             *)
THEOREM ModulesKept == ManagerSafety => []ModulesAreKept
<1>1. ManagerInv => ModulesAreKept
  BY KeptByInv DEF ModulesAreKept
<1> QED
  BY ManagerAlways, <1>1, PTL

(* What is stopped on purpose is not taken for crashed and respawned, in   *)
(* whatever order its stops, its exit and its timers come                  *)
(* (manager.ts, stopEntry and the onCrashed listener).                     *)
THEOREM StopsAreNotCrashes == ManagerSafety => StoppedIsNotRespawned
<1>1. ManagerInv /\ [ManagerNext]_managerVars =>
        [\A e, n \in Spawns :
           Stopping(e) /\ Alive(e) /\ origin[n] # e => origin'[n] # e]_managerVars
  <2> SUFFICES ASSUME ManagerInv, ManagerNext, NEW e \in Spawns, NEW n \in Spawns,
                      Stopping(e), origin[n] # e
               PROVE  origin'[n] # e
    BY DEF ManagerInv
  <2>1. state[e] # "active" /\ ManagerTypeOK
    BY DEF ManagerInv, Shape, Halting
  <2>2. CASE Minor
    BY <2>1, <2>2, MinorKeeps
  <2>3. ASSUME NEW k \in Spawns, NEW from \in Callers \cup Spawns, Spawned(k, from)
        PROVE  origin'[n] # e
    BY <2>1, <2>3, CallersAssumption, NoZero DEF Spawned, ManagerTypeOK
  <2>4. ASSUME NEW k \in Spawns, Activate(k) PROVE origin'[n] # e
    BY <2>4 DEF Activate
  <2> QED
    BY <2>2, <2>3, <2>4, ByKind, SpawnSteps DEF ManagerInv, Acquired, Respawned
<1> QED
  BY <1>1, ManagerAlways, PTL DEF ManagerSafety, StoppedIsNotRespawned

-----------------------------------------------------------------------------
(* What has not answered yet is in its handshake.                          *)
Booted == \A n \in Spawns : proc[n] = "booting" => state[n] = "handshaking"

(* It stays so.                                                            *)
LEMMA BootedKept == ManagerTypeOK /\ Booted /\ ManagerNext => Booted'
<1> SUFFICES ASSUME ManagerTypeOK, Booted, ManagerNext PROVE Booted'
  OBVIOUS
<1> USE DEF Booted
<1>1. CASE Minor
  BY <1>1, MinorKeeps
<1>2. ASSUME NEW c \in Callers, AcquireSpawns(c) PROVE Booted'
  BY <1>2 DEF AcquireSpawns, ManagerTypeOK
<1>3. ASSUME NEW n \in Spawns, Acquired(n) \/ Respawned(n) PROVE Booted'
  BY <1>3 DEF Acquired, Respawned, Activate, ManagerTypeOK
<1>4. ASSUME NEW m \in Spawns, ModuleCrashes(m) PROVE Booted'
  <2>1. PICK n \in Spawns, thrown \in BOOLEAN :
           /\ state' = [state EXCEPT ![m] = "crashed",
                                     ![n] = IF thrown THEN "crashed" ELSE "handshaking"]
           /\ proc' = [proc EXCEPT ![m] = "gone",
                                   ![n] = IF thrown THEN "gone" ELSE "booting"]
    BY <1>4, Zenon DEF ModuleCrashes
  <2> QED
    BY <2>1 DEF ManagerTypeOK
<1> QED
  BY <1>1, <1>2, <1>3, <1>4, ByKind

(* A key without an entry is out of service; a stop is one of the entry's, *)
(* and asked for if anybody asked.                                         *)
LEMMA OutIs ==
    ASSUME ManagerTypeOK
    PROVE  /\ entry = 0 => ~Runs /\ UsedBy = {} /\ EndsBecause = "no"
           /\ entry # 0 => /\ Runs <=> proc[entry] = "ready"
                           /\ UsedBy = consumers[entry] /\ UsedBy \subseteq Callers
           /\ AskedFor(entry) => Stopping(entry)
           /\ EndsBecause = "no" <=> ~Stopping(entry)
           /\ EndsBecause \in {"no", "asked", "unused"}
           /\ entry \in Spawns \cup {0}
<1>1. entry = 0 => ~Stopping(entry)
  BY NoZero DEF ManagerTypeOK, Stopping
<1>2. AskedFor(entry) => Stopping(entry)
  BY DEF AskedFor, Stopping, Stoppers
<1> QED
  BY <1>1, <1>2 DEF ManagerTypeOK, Runs, UsedBy, EndsBecause

(* What the users see of the next state.                                   *)
LEMMA OutIsThen ==
    ASSUME ManagerTypeOK'
    PROVE  /\ entry' = 0 => ~Runs' /\ UsedBy' = {} /\ EndsBecause' = "no"
           /\ entry' # 0 => /\ Runs' <=> proc'[entry'] = "ready"
                            /\ UsedBy' = consumers'[entry']
           /\ EndsBecause' = IF ~Stopping(entry)' THEN "no"
                             ELSE IF AskedFor(entry)' THEN "asked" ELSE "unused"
           /\ EndsBecause' = "no" <=> ~Stopping(entry)'
<1>1. entry' = 0 => ~Stopping(entry)'
  BY NoZero DEF ManagerTypeOK, Stopping
<1> QED
  BY <1>1 DEF Runs, UsedBy, EndsBecause

(* Who waits for a stop, and why, is as it was.                            *)
LEMMA EndsAsBefore ==
    ASSUME UNCHANGED <<entry, stops>>,
           \A c \in Callers : \/ caller'[c] = caller[c]
                              \/ /\ caller[c] \notin {"restarting", "shutting"}
                                 /\ caller'[c] \notin {"restarting", "shutting"}
    PROVE  EndsBecause' = EndsBecause
<1>1. Stopping(entry)' <=> Stopping(entry)
  BY DEF Stopping
<1>2. AskedFor(entry)' <=> AskedFor(entry)
  BY DEF AskedFor
<1> QED
  BY <1>1, <1>2 DEF EndsBecause

(* What the users see stays where the map, its entry and its stops do.     *)
LEMMA SeenAsBefore ==
    ASSUME ManagerTypeOK, ManagerTypeOK', UNCHANGED <<entry, EndsBecause>>,
           entry # 0 => consumers'[entry] = consumers[entry],
           entry # 0 => (proc'[entry] = "ready" <=> proc[entry] = "ready")
    PROVE  UNCHANGED Service!serviceVars
<1>1. UNCHANGED <<Runs, UsedBy>>
  BY DEF Runs, UsedBy
<1> QED
  BY <1>1 DEF Service!serviceVars

(* A request comes or goes, and no stop begins.                            *)
LEMMA VisitSteps ==
    ASSUME ManagerTypeOK, ManagerTypeOK', NEW c \in Callers,
           \/ AcquireExisting(c) \/ AcquireSpawns(c) \/ AcquireThrows(c)
           \/ ReleaseNothing(c) \/ ReleaseShared(c) \/ ReleaseLastGlobal(c)
    PROVE  [Service!Serve]_(Service!serviceVars)
<1> USE DEF ManagerTypeOK
<1>1. /\ UNCHANGED <<entry, stops>>
      /\ caller[c] \in {"idle", "acquiring", "holding"}
      /\ \E s \in {"holding", "spawning", "done"} : Status(c, s)
  BY DEF AcquireExisting, AcquireSpawns, AcquireThrows, ReleaseNothing, ReleaseShared,
         ReleaseLastGlobal, CallEnds
<1>2. EndsBecause' = EndsBecause
  <2>1. /\ \A d \in Callers : caller'[d] = caller[d] \/ d = c
        /\ caller'[c] \in {"holding", "spawning", "done"}
    BY <1>1 DEF Status
  <2> QED
    BY <1>1, <2>1, EndsAsBefore
<1>3. CASE entry = 0
  BY <1>1, <1>2, <1>3, SeenAsBefore
<1>4. CASE entry # 0
  <2>1. entry \in Spawns /\ proc' = proc
    BY <1>4 DEF AcquireExisting, AcquireSpawns, AcquireThrows, ReleaseNothing, ReleaseShared,
                ReleaseLastGlobal, subprocess
  <2>2. /\ Runs' = Runs /\ UsedBy = consumers[entry] /\ UsedBy' = consumers'[entry]
    BY <1>1, <1>4, <2>1 DEF Runs, UsedBy
  <2>3. CASE AcquireExisting(c)
    <3>1. UsedBy' = UsedBy \cup {c}
      BY <2>1, <2>2, <2>3 DEF AcquireExisting, Reuse
    <3>2. Service!Joins(c)
      BY <1>1, <1>2, <1>4, <2>2, <3>1 DEF Service!Joins
    <3> QED
      BY <3>2 DEF Service!Serve
  <2>4. CASE ReleaseShared(c) \/ ReleaseLastGlobal(c)
    <3>1. UsedBy' = UsedBy \ {c}
      BY <2>1, <2>2, <2>4 DEF ReleaseShared, ReleaseLastGlobal
    <3>2. Service!Leaves(c)
      BY <1>1, <1>2, <1>4, <2>2, <3>1 DEF Service!Leaves
    <3> QED
      BY <3>2 DEF Service!Serve
  <2> QED
    BY <1>4, <2>3, <2>4 DEF AcquireSpawns, AcquireThrows, ReleaseNothing
<1> QED
  BY <1>3, <1>4

(* A stop begins: its reason is that nobody uses the entry, or who asked.  *)
LEMMA StopSteps ==
    ASSUME ManagerTypeOK, ManagerTypeOK', NEW w \in Stoppers, entry # 0, StopEntry(entry, w),
           UNCHANGED <<proc, entry>>,
           \A c \in Callers \ {w} : caller'[c] = caller[c]
    PROVE  /\ Runs' = Runs /\ UsedBy = consumers[entry] /\ UsedBy' = consumers'[entry]
           /\ w = "all" => EndsBecause' = "asked"
           /\ w \in Callers /\ caller'[w] \in {"restarting", "shutting"} => EndsBecause' = "asked"
           /\ w = "idle" \/ (w \in Callers /\ caller'[w] = "releasing" /\ caller[w] = "holding")
                => EndsBecause' = IF EndsBecause = "no" THEN "unused" ELSE EndsBecause
<1>1. Runs' = Runs /\ UsedBy = consumers[entry] /\ UsedBy' = consumers'[entry]
  BY DEF Runs, UsedBy
<1>2. entry \in Spawns /\ stops' = stops \cup {<<entry, w>>}
  BY DEF ManagerTypeOK, StopEntry
<1>3. Stopping(entry)'
  BY <1>2 DEF Stopping
<1>4. \A v \in Stoppers : <<entry, v>> \in stops' <=> <<entry, v>> \in stops \/ v = w
  BY <1>2
<1>5. "all" \in Stoppers /\ Callers \subseteq Stoppers /\ "idle" # "all"
  BY DEF Stoppers
<1>6. ASSUME w = "all" \/ (w \in Callers /\ caller'[w] \in {"restarting", "shutting"})
      PROVE  EndsBecause' = "asked"
  <2>1. AskedFor(entry)'
    BY <1>4, <1>5, <1>6 DEF AskedFor
  <2> QED
    BY <1>3, <2>1, OutIsThen
<1>7. ASSUME \/ w = "idle"
             \/ w \in Callers /\ caller'[w] = "releasing" /\ caller[w] = "holding"
      PROVE  EndsBecause' = IF EndsBecause = "no" THEN "unused" ELSE EndsBecause
  <2>1. w # "all"
    BY <1>5, <1>7, StoppersAssumption
  <2>2. <<entry, "all">> \in stops' <=> <<entry, "all">> \in stops
    BY <1>4, <1>5, <2>1
  <2>3. ASSUME NEW d \in Callers
        PROVE  <<entry, d>> \in stops' /\ caller'[d] \in {"restarting", "shutting"}
               <=> <<entry, d>> \in stops /\ caller[d] \in {"restarting", "shutting"}
    <3>1. CASE d = w
      BY <1>7, <3>1, StoppersAssumption
    <3>2. CASE d # w
      BY <1>4, <1>5, <3>2
    <3> QED
      BY <3>1, <3>2
  <2>4. AskedFor(entry)' <=> AskedFor(entry)
    BY <2>2, <2>3 DEF AskedFor
  <2> QED
    BY <1>3, <2>4, OutIs, OutIsThen DEF EndsBecause
<1> QED
  BY <1>1, <1>6, <1>7

(* The four ways in which a stop begins.                                   *)
LEMMA TakingOutSteps ==
    ASSUME ManagerInv, ManagerTypeOK', overlaps = {},
           \/ \E c \in Callers : \/ ReleaseLast(c)
                                 \/ \E s \in {"restarting", "shutting"} : Shutdown(c, s)
           \/ \E e \in Spawns : IdleTimeout(e)
           \/ ShutdownAll
    PROVE  [Service!Serve]_(Service!serviceVars)
<1>0. ManagerTypeOK /\ Shape /\ Lone
  BY DEF ManagerInv, Apart
<1> USE DEF ManagerTypeOK
<1>1. ASSUME NEW c \in Callers, ReleaseLast(c) PROVE Service!Leaves(c)
  <2>1. /\ caller[c] = "holding" /\ caller' = [caller EXCEPT ![c] = "releasing"]
        /\ entry # 0 /\ entry \in Spawns /\ consumers[entry] \ {c} = {}
        /\ consumers' = [consumers EXCEPT ![entry] = {}]
        /\ StopEntry(entry, c) /\ UNCHANGED <<proc, entry>>
    BY <1>0, <1>1 DEF ReleaseLast, CallEnds, Status
  <2>2. c \in Stoppers /\ caller'[c] = "releasing" /\ \A d \in Callers \ {c} : caller'[d] = caller[d]
    BY <1>0, <2>1 DEF Stoppers
  <2>3. /\ Runs' = Runs /\ UsedBy = consumers[entry] /\ UsedBy' = consumers'[entry]
        /\ EndsBecause' = IF EndsBecause = "no" THEN "unused" ELSE EndsBecause
    BY <1>0, <2>1, <2>2, StopSteps
  <2>4. UsedBy' = UsedBy \ {c} /\ UsedBy' = {}
    BY <1>0, <2>1, <2>3
  <2> QED
    BY <2>1, <2>3, <2>4 DEF Service!Leaves
<1>2. ASSUME NEW c \in Callers, NEW s \in {"restarting", "shutting"}, Shutdown(c, s)
      PROVE  Service!Recalled
  <2>1. /\ caller' = [caller EXCEPT ![c] = s] /\ entry # 0 /\ StopEntry(entry, c)
        /\ UNCHANGED <<proc, entry, consumers>>
    BY <1>2 DEF Shutdown, Status
  <2>2. c \in Stoppers /\ caller'[c] = s /\ \A d \in Callers \ {c} : caller'[d] = caller[d]
    BY <1>0, <2>1 DEF Stoppers
  <2>3. /\ Runs' = Runs /\ UsedBy' = UsedBy /\ EndsBecause' = "asked"
    BY <1>0, <2>1, <2>2, StopSteps
  <2> QED
    BY <2>1, <2>3 DEF Service!Recalled
<1>3. ASSUME NEW e \in Spawns, IdleTimeout(e) PROVE Service!Expires
  <2>1. /\ e \in timers /\ StopEntry(e, "idle") /\ "idle" \in Stoppers
        /\ UNCHANGED <<proc, entry, consumers, caller>>
    BY <1>3 DEF IdleTimeout, Stoppers
  <2>2. e = entry /\ state[e] = "active" /\ handle[e] = e /\ entry # 0
    BY <1>0, <2>1, NoZero DEF Lone, Ticking
  <2>3. consumers[entry] = {}
    BY <2>1, <2>2, KeptByInv DEF HoldersKeepModule, IdleTimerMeansUnused
  <2>4. EndsBecause = "no"
    BY <1>0, <2>2, OutIs DEF Shape, Halting
  <2>5. /\ Runs' = Runs /\ UsedBy = consumers[entry] /\ UsedBy' = consumers'[entry]
        /\ EndsBecause' = IF EndsBecause = "no" THEN "unused" ELSE EndsBecause
    BY <1>0, <2>1, <2>2, StopSteps, StoppersAssumption
  <2> QED
    BY <2>1, <2>2, <2>3, <2>4, <2>5 DEF Service!Expires
<1>4. CASE ShutdownAll /\ entry # 0
  <2>1. /\ StopEntry(entry, "all") /\ "all" \in Stoppers
        /\ UNCHANGED <<proc, entry, consumers, caller>>
    BY <1>4 DEF ShutdownAll, Stoppers
  <2>2. /\ Runs' = Runs /\ UsedBy' = UsedBy /\ EndsBecause' = "asked"
    BY <1>0, <1>4, <2>1, StopSteps
  <2>3. Service!Recalled
    BY <1>4, <2>1, <2>2 DEF Service!Recalled
  <2> QED
    BY <2>3 DEF Service!Serve
<1>5. CASE ShutdownAll /\ entry = 0
  <2>1. UNCHANGED <<entry, stops, caller>>
    BY <1>5 DEF ShutdownAll
  <2> QED
    BY <1>0, <1>5, <2>1, EndsAsBefore, SeenAsBefore
<1> QED
  BY <1>1, <1>2, <1>3, <1>4, <1>5 DEF Service!Serve

(* A subprocess answers, dies or is started: the entry changes only when   *)
(* what it was waiting for is ready.                                       *)
LEMMA ComingSteps ==
    ASSUME ManagerInv, Booted, ManagerTypeOK', overlaps = {},
           \E n \in Spawns : \/ Answer(n) \/ ExitUnheard(n) \/ HandshakeFails(n)
                             \/ Acquired(n) \/ Respawned(n) \/ ModuleCrashes(n)
    PROVE  [Service!Serve]_(Service!serviceVars)
<1>0. ManagerTypeOK /\ Shape /\ Lone
  BY DEF ManagerInv, Apart
<1> USE DEF ManagerTypeOK
<1>1. ASSUME NEW n \in Spawns, Answer(n) \/ ExitUnheard(n) \/ HandshakeFails(n)
      PROVE  UNCHANGED Service!serviceVars
  <2>1. /\ state[n] = "handshaking" /\ UNCHANGED <<entry, stops, consumers>>
        /\ \A m \in Spawns \ {n} : proc'[m] = proc[m]
    BY <1>0, <1>1 DEF Answer, ExitUnheard, HandshakeFails, refs, Booted
  <2>2. entry = 0 \/ origin[n] = entry
    BY <1>0, <2>1 DEF Lone, Coming
  <2>3. n # entry
    BY <1>0, <2>1, <2>2, NoZero DEF Shape, Origins
  <2>4. entry # 0 => caller' = caller
    <3> SUFFICES ASSUME entry # 0 PROVE caller' = caller
      OBVIOUS
    <3>1. \A c \in Callers : origin[n] # c
      BY <1>0, <2>2, CallersAssumption, NoZero
    <3> QED
      BY <1>0, <1>1, <3>1 DEF Answer, ExitUnheard, HandshakeFails
  <2>5. EndsBecause' = EndsBecause
    <3>1. CASE entry = 0
      BY <1>0, <2>1, <3>1, OutIs, OutIsThen
    <3>2. CASE entry # 0
      BY <2>1, <2>4, <3>2, EndsAsBefore
    <3> QED
      BY <3>1, <3>2
  <2> QED
    BY <1>0, <2>1, <2>3, <2>5, SeenAsBefore
<1>2. ASSUME NEW n \in Spawns, Acquired(n) \/ Respawned(n)
      PROVE  /\ state[n] = "handshaking" /\ entry' = n /\ n # 0 /\ n # entry
             /\ Runs' \in BOOLEAN /\ UsedBy' = consumers'[n] /\ EndsBecause' = "no"
  <2>1. state[n] = "handshaking" /\ entry' = n /\ n # 0 /\ stops' = stops
    BY <1>2, NoZero DEF Acquired, Respawned, Activate
  <2>2. ~Entered(n)
    BY <1>0, <2>1 DEF Entered, Shape, Origins
  <2>3. ~Stopping(n) /\ n # entry
    BY <1>0, <2>1, <2>2 DEF Shape, Untouched, Mapped, Tip
  <2>4. ~Stopping(entry)'
    BY <2>1, <2>3 DEF Stopping
  <2> QED
    BY <1>0, <2>1, <2>3, <2>4, OutIsThen DEF Runs, UsedBy
<1>3. ASSUME NEW n \in Spawns, Acquired(n)
      PROVE  \E c \in Callers : Service!EntersService(n, c)
  <2>1. PICK c \in Callers : origin[n] = c /\ consumers' = [consumers EXCEPT ![n] = {c}]
    BY <1>3 DEF Acquired
  <2>2. entry = 0
    BY <1>0, <1>2, <1>3, <2>1, CallersAssumption, NoZero DEF Lone, Coming
  <2>3. UsedBy' = {c}
    BY <1>0, <1>2, <1>3, <2>1
  <2>4. Service!EntersService(n, c)
    BY <1>2, <1>3, <2>2, <2>3 DEF Service!EntersService
  <2> QED
    BY <2>4
<1>4. ASSUME NEW n \in Spawns, Respawned(n)
      PROVE  Service!Replaced(n)
  <2>1. origin[n] \in Spawns /\ consumers' = [consumers EXCEPT ![n] = consumers[origin[n]]]
    BY <1>4 DEF Respawned
  <2>2. entry = origin[n] /\ entry # 0
    BY <1>0, <1>2, <1>4, <2>1, CallersAssumption, NoZero DEF Lone, Coming
  <2>3. proc[entry] = "gone"
    BY <1>0, <2>1, <2>2 DEF Shape, Origins
  <2>4. ~Stopping(entry)
    BY <1>0, <1>2, <1>4, <2>1, <2>2 DEF Lone, Going, Respawning
  <2>5. ~Runs /\ EndsBecause = "no" /\ UsedBy' = UsedBy
    BY <1>0, <1>2, <1>4, <2>1, <2>2, <2>3, <2>4, OutIs DEF Runs, UsedBy
  <2> QED
    BY <1>2, <1>4, <2>2, <2>5 DEF Service!Replaced
<1>5. ASSUME NEW m \in Spawns, ModuleCrashes(m)
      PROVE  Service!GoesDown
  <2>1. /\ state[m] = "active" /\ proc[m] = "ready"
        /\ UNCHANGED <<entry, stops, consumers, caller>>
    BY <1>5 DEF ModuleCrashes, OnCrashed, refs
  <2>2. m = entry /\ entry # 0
    BY <1>0, <2>1, NoZero DEF Lone, RunningIsMapped, Alive
  <2>3. PICK n \in Spawns, thrown \in BOOLEAN :
           /\ Fresh(n)
           /\ proc' = [proc EXCEPT ![m] = "gone", ![n] = IF thrown THEN "gone" ELSE "booting"]
    BY <1>5, Zenon DEF ModuleCrashes
  <2>4. proc'[m] # "ready"
    BY <1>0, <2>3
  <2>5. EndsBecause = "no" /\ EndsBecause' = "no"
    BY <1>0, <2>1, <2>2, OutIs, EndsAsBefore DEF Shape, Halting
  <2> QED
    BY <2>1, <2>2, <2>4, <2>5 DEF Service!GoesDown, Runs, UsedBy
<1> QED
  BY <1>1, <1>2, <1>3, <1>4, <1>5 DEF Service!Serve

(* The wait of a stop is over.                                             *)
LEMMA EndSteps ==
    ASSUME ManagerInv, ManagerTypeOK', overlaps = {},
           NEW e \in Spawns, StopEnds(e) \/ \E w \in Stoppers : GraceEnds(e, w)
    PROVE  Service!LeavesService
<1>1. ManagerTypeOK /\ Lone
  BY DEF ManagerInv, Apart
<1>2. Stopping(e) /\ entry' = 0
  BY DEF StopEnds, GraceEnds, Stopped, Stopping
<1>3. EndsBecause # "no"
  BY <1>1, <1>2, OutIs DEF Lone, Going
<1>4. Runs' = FALSE /\ UsedBy' = {} /\ EndsBecause' = "no"
  BY <1>2, OutIsThen DEF Runs, UsedBy
<1> QED
  BY <1>2, <1>3, <1>4 DEF Service!LeavesService

-----------------------------------------------------------------------------
(* Without an overlap every step is one of the service, or none.           *)
LEMMA ServiceSteps ==
    ASSUME ManagerInv, Booted, [ManagerNext]_managerVars, overlaps' = {}
    PROVE  overlaps = {} /\ [Service!Serve]_(Service!serviceVars)
<1>1. CASE UNCHANGED managerVars
  <2>1. UNCHANGED <<entry, proc, stops, caller, consumers, overlaps>>
    BY <1>1 DEF managerVars, subprocess, refs
  <2>2. UNCHANGED Service!serviceVars
    BY <2>1 DEF Service!serviceVars, Runs, UsedBy, EndsBecause, AskedFor, Stopping
  <2> QED
    BY <2>1, <2>2
<1>2. CASE ManagerNext
  <2>1. ManagerTypeOK /\ ManagerTypeOK' /\ overlaps = {}
    BY <1>2, ManagerTypes, OverlapsGrow DEF ManagerInv
  <2>2. ASSUME NEW c \in Callers,
               \/ AcquireExisting(c) \/ AcquireSpawns(c) \/ AcquireThrows(c)
               \/ ReleaseNothing(c) \/ ReleaseShared(c) \/ ReleaseLastGlobal(c)
        PROVE  [Service!Serve]_(Service!serviceVars)
    BY <2>1, <2>2, VisitSteps
  <2>3. ASSUME \/ \E c \in Callers : \/ ReleaseLast(c)
                                     \/ \E s \in {"restarting", "shutting"} : Shutdown(c, s)
               \/ \E e \in Spawns : IdleTimeout(e)
               \/ ShutdownAll
        PROVE  [Service!Serve]_(Service!serviceVars)
    BY <2>1, <2>3, TakingOutSteps
  <2>4. ASSUME \E n \in Spawns : \/ Answer(n) \/ ExitUnheard(n) \/ HandshakeFails(n)
                                 \/ Acquired(n) \/ Respawned(n) \/ ModuleCrashes(n)
        PROVE  [Service!Serve]_(Service!serviceVars)
    BY <2>1, <2>4, ComingSteps
  <2>5. ASSUME NEW e \in Spawns, StopEnds(e) \/ \E w \in Stoppers : GraceEnds(e, w)
        PROVE  [Service!Serve]_(Service!serviceVars)
    <3>1. Service!LeavesService
      BY <2>1, <2>5, EndSteps
    <3> QED
      BY <3>1 DEF Service!Serve
  <2>6. [Service!Serve]_(Service!serviceVars)
    BY <1>2, <2>2, <2>3, <2>4, <2>5 DEF ManagerNext
  <2> QED
    BY <2>1, <2>6
<1> QED
  BY <1>1, <1>2

(* At the start nothing is in service.                                     *)
LEMMA ServiceStarts == ManagerInit => Booted /\ Service!OutOfService
<1> SUFFICES ASSUME ManagerInit PROVE Booted /\ Service!OutOfService
  OBVIOUS
<1>1. ManagerTypeOK /\ entry = 0
  BY ManagerStarts DEF ManagerInv, ManagerInit
<1>2. EndsBecause = "no" /\ Runs = FALSE /\ UsedBy = {}
  BY <1>1, OutIs DEF Runs
<1> QED
  BY <1>1, <1>2 DEF ManagerInit, Booted, Service!OutOfService

(* For any requests and any number of spawns: to its users a key is one    *)
(* service, replaced only when it is down and taken away only because      *)
(* nobody uses it or somebody asked, until two things overlap              *)
(* (manager.ts:182-187, 245-302, 480-577).                                 *)
THEOREM HostIsService == ManagerSafety => ImplementsService
<1> DEFINE Inv == ManagerInv /\ Booted
           Step == overlaps' = {} => [Service!Serve]_(Service!serviceVars)
<1>1. ManagerInit => Inv
  BY ManagerStarts, ServiceStarts
<1>2. Inv /\ [ManagerNext]_managerVars => Inv'
  <2>1. Booted /\ UNCHANGED managerVars => Booted'
    BY DEF Booted, managerVars, subprocess
  <2> QED
    BY <2>1, ManagerInductive, BootedKept DEF ManagerInv
<1>3. Inv /\ [ManagerNext]_managerVars => [Step]_managerVars
  BY ServiceSteps
<1> HIDE DEF Inv, Step
<1>4. ManagerSafety => [][Step]_managerVars
  BY <1>1, <1>2, <1>3, PTL DEF ManagerSafety
<1>5. ManagerSafety => Service!OutOfService
  BY ServiceStarts DEF ManagerSafety
<1> QED
  BY <1>4, <1>5 DEF ImplementsService, Step

(* Both together: who uses a module is counted, what runs is kept, and     *)
(* nothing but the end of its use takes it away (manager.ts:182-302).      *)
THEOREM ModulesServed == ManagerSafety => ModulesAreServed
BY ModulesKept, HostIsService DEF ModulesAreServed

(* A module host in which nothing overlaps implements ModuleService.       *)
THEOREM ApartIsService == ManagerSafety /\ [](overlaps = {}) => Service!ServiceSpec
<1>1. ManagerInit => ManagerInv /\ Booted /\ Service!OutOfService
  BY ManagerStarts, ServiceStarts
<1>2. (ManagerInv /\ Booted) /\ [ManagerNext]_managerVars => (ManagerInv /\ Booted)'
  <2>1. Booted /\ UNCHANGED managerVars => Booted'
    BY DEF Booted, managerVars, subprocess
  <2> QED
    BY <2>1, ManagerInductive, BootedKept DEF ManagerInv
<1>3. ManagerInv /\ Booted /\ [ManagerNext]_managerVars /\ (overlaps = {})'
      => [Service!Serve]_(Service!serviceVars)
  BY ServiceSteps
<1> QED
  BY <1>1, <1>2, <1>3, PTL DEF ManagerSafety, Service!ServiceSpec
==============================================================================

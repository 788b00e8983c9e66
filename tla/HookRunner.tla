------------------------------ MODULE HookRunner ------------------------------
(***************************************************************************)
(* Hooks: HookManager.fire() and the dispatcher of src/core/hooks, the     *)
(* subprocess runner under it, and the sweep by which the next daemon      *)
(* (src/daemon/hook-orphan-sweep.ts) cleans up after one that died.        *)
(*                                                                         *)
(* A fire runs the registrations of a slot one after the other.  A hook    *)
(* <<f, r>> is the run of registration r by fire f.  The kernel does not   *)
(* kill children with their parent here: that is macOS, and Linux without  *)
(* setpriv.                                                                *)
(***************************************************************************)
EXTENDS Naturals, Sequences, FiniteSets

CONSTANTS
    Fires,   \* calls of fire()
    Slot,    \* the registrations each finds, in order: their kind and onFail
    Cap      \* concurrentFireCap

Kinds == {"script", "override", "fn", "orphaned"}

ASSUME SlotAssumption ==
    \A f \in Fires : Slot[f] \in Seq([kind : Kinds, hard : BOOLEAN]) /\ Slot[f] # <<>>
ASSUME CapAssumption == Cap \in Nat \ {0}
ASSUME FiresAssumption == IsFiniteSet(Fires)

VARIABLES
    owner,      \* up; dead, by a crash or an exit; a later one has swept
    inflight,   \* HookDispatcher.inflight
    fire,       \* how each fire() ended, or that it is dispatching
    reg,        \* the registration each fire is at
    child,      \* the hook's subprocess: alive, or its exit code
    outcome,    \* what the run of the hook came to
    got,        \* what its records were, while the run goes on
    lock,       \* its sentinel in ~/.rn-dev/hooks
    unlocked    \* history: hooks whose sentinel was never written whole

hook == <<child, outcome, got, lock, unlocked>>
runnerVars == <<owner, inflight, fire, reg, hook>>

Regs(f) == DOMAIN Slot[f]
Hooks == UNION {{f} \X Regs(f) : f \in Fires}
Failures == {"failed", "timeout"}

RunnerTypeOK ==
    /\ owner \in {"up", "dead", "swept"}
    /\ inflight \in 0..Cap
    /\ fire \in [Fires -> {"idle", "running", "ok", "failed", "thrown", "full"}]
    /\ reg \in [Fires -> Nat] /\ \A f \in Fires : reg[f] \in 1..(Len(Slot[f]) + 1)
    /\ child \in [Hooks -> {"none", "alive", "zero", "nonzero"}]
    /\ outcome \in [Hooks -> {"none", "ok"} \cup Failures]
    /\ got \in [Hooks -> {"nothing", "some", "result"}]
    /\ lock \in [Hooks -> {"none", "empty", "written"}]
    /\ unlocked \subseteq Hooks

RunnerInit ==
    /\ owner = "up" /\ inflight = 0
    /\ fire = [f \in Fires |-> "idle"]
    /\ reg = [f \in Fires |-> 1]
    /\ child = [h \in Hooks |-> "none"]
    /\ outcome = [h \in Hooks |-> "none"]
    /\ got = [h \in Hooks |-> "nothing"]
    /\ lock = [h \in Hooks |-> "none"]
    /\ unlocked = {}

Running(f) == owner = "up" /\ fire[f] = "running"
AtKind(f, kinds) == /\ Running(f) /\ reg[f] \in Regs(f)
                    /\ outcome[<<f, reg[f]>>] = "none" /\ Slot[f][reg[f]].kind \in kinds
Failed(f, r) == outcome[<<f, r>>] \in Failures
End(f, s) == fire' = [fire EXCEPT ![f] = s]

-----------------------------------------------------------------------------
(* fire(): the cap is looked at once, there is no queue; the one failure   *)
(* that is reported is the first registration's, or the audit log's.       *)
FireFull(f) ==
    /\ owner = "up" /\ fire[f] = "idle" /\ inflight >= Cap
    /\ \/ End(f, IF Slot[f][1].hard THEN "thrown" ELSE "full")
       \/ End(f, "thrown")
    /\ UNCHANGED <<owner, inflight, reg, hook>>

FireStarts(f) ==
    /\ owner = "up" /\ fire[f] = "idle" /\ inflight < Cap
    /\ inflight' = inflight + 1
    /\ End(f, "running")
    /\ UNCHANGED <<owner, reg, hook>>

(* dispatchAll() goes on once the registration has an outcome and, when it *)
(* failed, the audit log has it; orphaned ones are passed over.            *)
Advance(f) ==
    /\ Running(f) /\ reg[f] \in Regs(f)
    /\ Slot[f][reg[f]].kind = "orphaned" \/ outcome[<<f, reg[f]>>] # "none"
    /\ reg' = [reg EXCEPT ![f] = @ + 1]
    /\ UNCHANGED <<owner, inflight, fire, hook>>

(* The audit log cannot take the failure: fire() throws there and then.    *)
AuditThrows(f) ==
    /\ Running(f) /\ reg[f] \in Regs(f) /\ Failed(f, reg[f])
    /\ inflight' = inflight - 1
    /\ End(f, "thrown")
    /\ UNCHANGED <<owner, reg, hook>>

(* Mutant: only the last registration decides.                             *)
FireEndsByLast(f) ==
    /\ Running(f) /\ reg[f] \notin Regs(f)
    /\ inflight' = inflight - 1
    /\ End(f, IF ~Failed(f, Len(Slot[f])) THEN "ok"
              ELSE IF Slot[f][Len(Slot[f])].hard THEN "thrown" ELSE "failed")
    /\ UNCHANGED <<owner, reg, hook>>

(* Mutant: the slot is given back only when every hook was fine.           *)
FireEndsHolding(f) ==
    /\ Running(f) /\ reg[f] \notin Regs(f)
    /\ inflight' = IF \E r \in Regs(f) : Failed(f, r) THEN inflight ELSE inflight - 1
    /\ End(f, IF \A r \in Regs(f) : ~Failed(f, r) THEN "ok"
              ELSE IF \E r \in Regs(f) : Failed(f, r) /\ Slot[f][r].hard
                   THEN "thrown" ELSE "failed")
    /\ UNCHANGED <<owner, reg, hook>>

(* The end of fire(): it throws when a hard registration failed.           *)
FireEnds(f) ==
    /\ Running(f) /\ reg[f] \notin Regs(f)
    /\ inflight' = inflight - 1
    /\ End(f, IF \A r \in Regs(f) : ~Failed(f, r) THEN "ok"
              ELSE IF \E r \in Regs(f) : Failed(f, r) /\ Slot[f][r].hard
                   THEN "thrown" ELSE "failed")
    /\ UNCHANGED <<owner, reg, hook>>

-----------------------------------------------------------------------------
(* A function hook settles, if it ever does: it has no timeout.            *)
FnSettles(f, o) ==
    /\ AtKind(f, {"fn"})
    /\ o \in {"ok", "failed"}
    /\ outcome' = [outcome EXCEPT ![<<f, reg[f]>>] = o]
    /\ UNCHANGED <<owner, inflight, fire, reg, child, got, lock, unlocked>>

ToSpawn(f, h) == h = <<f, reg[f]>> /\ AtKind(f, {"script", "override"}) /\ child[h] = "none"

(* The script changed, its environment is refused, or spawn() fails.       *)
SpawnFails(f) == \E h \in Hooks :
    /\ ToSpawn(f, h)
    /\ outcome' = [outcome EXCEPT ![h] = "failed"]
    /\ UNCHANGED <<owner, inflight, fire, reg, child, got, lock, unlocked>>

(* runHookSubprocess() up to its await; the sentinel may fail to be        *)
(* written, and the fire goes on.                                          *)
SpawnHook(f) == \E h \in Hooks, l \in {"none", "written"} :
    /\ ToSpawn(f, h)
    /\ child' = [child EXCEPT ![h] = "alive"]
    /\ lock' = [lock EXCEPT ![h] = l]
    /\ unlocked' = unlocked \cup {x \in {h} : l = "none"}
    /\ UNCHANGED <<owner, inflight, fire, reg, outcome, got>>

(* Writing the payload to the child throws.                                *)
SpawnUnread(f) == \E h \in Hooks :
    /\ ToSpawn(f, h)
    /\ child' = [child EXCEPT ![h] = "alive"]
    /\ outcome' = [outcome EXCEPT ![h] = "failed"]
    /\ UNCHANGED <<owner, inflight, fire, reg, got, lock, unlocked>>

(* The daemon dies between the spawn and the end of the sentinel's write.  *)
SpawnThenCrash(f) == \E h \in Hooks, l \in {"none", "empty"} :
    /\ ToSpawn(f, h)
    /\ child' = [child EXCEPT ![h] = "alive"]
    /\ lock' = [lock EXCEPT ![h] = l]
    /\ unlocked' = unlocked \cup {h}
    /\ owner' = "dead"
    /\ UNCHANGED <<inflight, fire, reg, outcome, got>>

-----------------------------------------------------------------------------
Unresolved(h) == owner = "up" /\ child[h] # "none" /\ outcome[h] = "none"

(* finish(): SIGTERM to the group, which may be ignored, and the sentinel  *)
(* is removed.  The second call does nothing.                              *)
Finish(h, o) ==
    /\ Unresolved(h)
    /\ outcome' = [outcome EXCEPT ![h] = o]
    /\ lock' = [lock EXCEPT ![h] = "none"]
    /\ got' = [got EXCEPT ![h] = "nothing"]

(* A record that ends the run: anything but an ack first from an override, *)
(* or a second result.                                                     *)
ReadFatal(h) ==
    /\ \/ Slot[h[1]][h[2]].kind = "override" /\ got[h] = "nothing"
       \/ got[h] = "result"
    /\ Finish(h, "failed")
    /\ UNCHANGED <<owner, inflight, fire, reg, child, unlocked>>

(* Another record.  The pipe outlives the child: records may come after    *)
(* its exit, or too late.                                                  *)
Read(h, g) ==
    /\ Unresolved(h)
    /\ \/ g = "some" /\ got[h] = "nothing"
       \/ g = "result" /\ got[h] = "some"
       \/ g = "result" /\ got[h] = "nothing" /\ Slot[h[1]][h[2]].kind = "script"
    /\ got' = [got EXCEPT ![h] = g]
    /\ UNCHANGED <<owner, inflight, fire, reg, child, outcome, lock, unlocked>>

(* The child exits: by itself, or because it obeys SIGTERM, or is killed.  *)
(* Its code is asked for only while the run goes on.                       *)
Exit(h, code) ==
    /\ child[h] = "alive"
    /\ code = "zero" => Unresolved(h)
    /\ child' = [child EXCEPT ![h] = code]
    /\ UNCHANGED <<owner, inflight, fire, reg, outcome, got, lock, unlocked>>

ExitHeard(h) ==
    /\ \/ child[h] = "zero" /\ Finish(h, "ok")
       \/ child[h] = "nonzero" /\ Finish(h, "failed")
    /\ UNCHANGED <<owner, inflight, fire, reg, child, unlocked>>

(* Mutant: the timeout is cleared by the first record.                     *)
TimeoutOfSilence(h) ==
    /\ got[h] = "nothing"
    /\ Finish(h, "timeout")
    /\ UNCHANGED <<owner, inflight, fire, reg, child, unlocked>>

Timeout(h) ==
    /\ Finish(h, "timeout")
    /\ UNCHANGED <<owner, inflight, fire, reg, child, unlocked>>

(* The kill timer, 1.5 s after the timeout: by then the run is resolved,   *)
(* and the child is killed only if it is not.                              *)
KillTimer(h) ==
    /\ owner = "up" /\ child[h] = "alive" /\ outcome[h] # "none"
    /\ child' = [child EXCEPT ![h] = IF outcome[h] = "none" THEN "nonzero" ELSE @]
    /\ UNCHANGED <<owner, inflight, fire, reg, outcome, got, lock, unlocked>>

-----------------------------------------------------------------------------
(* The daemon is killed, crashes, or exits: nothing stops its hooks.       *)
DaemonDies ==
    /\ owner = "up" /\ owner' = "dead"
    /\ UNCHANGED <<inflight, fire, reg, hook>>

(* sweepOrphanHooks() of the next daemon: a whole sentinel has its group   *)
(* killed; one that cannot be read is only removed.                        *)
Sweep ==
    /\ owner = "dead" /\ owner' = "swept"
    /\ child' = [h \in Hooks |-> IF lock[h] = "written" /\ child[h] = "alive"
                                 THEN "nonzero" ELSE child[h]]
    /\ lock' = [h \in Hooks |-> "none"]
    /\ UNCHANGED <<inflight, fire, reg, outcome, got, unlocked>>

RunnerNext ==
    \/ \E f \in Fires :
         \/ FireFull(f) \/ FireStarts(f) \/ Advance(f) \/ AuditThrows(f) \/ FireEnds(f)
         \/ \E o \in {"ok", "failed"} : FnSettles(f, o)
         \/ SpawnFails(f) \/ SpawnHook(f) \/ SpawnUnread(f) \/ SpawnThenCrash(f)
    \/ \E h \in Hooks :
         \/ ReadFatal(h)
         \/ \E g \in {"some", "result"} : Read(h, g)
         \/ \E code \in {"zero", "nonzero"} : Exit(h, code)
         \/ ExitHeard(h) \/ Timeout(h) \/ KillTimer(h)
    \/ DaemonDies \/ Sweep

(* The event loop goes on and timers expire.  A child need not exit, a     *)
(* function hook need not settle, a daemon need not follow.                *)
RunnerFairness ==
    /\ \A f \in Fires : WF_runnerVars(Advance(f) \/ FireEnds(f) \/ SpawnFails(f) \/ SpawnHook(f))
    /\ \A h \in Hooks : WF_runnerVars(Timeout(h)) /\ WF_runnerVars(KillTimer(h))

RunnerSpec == RunnerInit /\ [][RunnerNext]_runnerVars /\ RunnerFairness

-----------------------------------------------------------------------------
(* The counter is the number of fires that dispatch, however they end: a   *)
(* leaked one would block all hooks of the daemon after `Cap` of them.     *)
InflightIsFires == inflight = Cardinality({f \in Fires : fire[f] = "running"})

(* A fire that returns has run every hard hook of the slot to success,     *)
(* except when it was refused for the cap, before any of them ran.         *)
HardHookStops ==
    \A f \in Fires : fire[f] \in {"ok", "failed"} =>
        \A r \in Regs(f) :
            Slot[f][r].hard /\ Slot[f][r].kind # "orphaned" => outcome[<<f, r>>] = "ok"

(* While the daemon lives a sentinel is one of an unresolved run: none is  *)
(* left for a later sweep to kill a group that has its number by then.     *)
NoLockOutlivesRun ==
    \A h \in Hooks : owner = "up" /\ lock[h] # "none" => outcome[h] = "none"

(* After the sweep a hook of the dead daemon runs on only if its run was   *)
(* over, or if its sentinel was never written.                             *)
SweepReaps ==
    \A h \in Hooks :
        owner = "swept" /\ child[h] = "alive" => outcome[h] # "none" \/ h \in unlocked

(* What is kept of the runs, in memory and on disk, is true of them: the   *)
(* cap never wears out, and a sweep finds what it has to and nothing else. *)
AccountsAreTrue == InflightIsFires /\ NoLockOutlivesRun /\ SweepReaps

(* A fire ends while the daemon lives, whatever its scripts do; only a     *)
(* function hook can hold it.                                              *)
FireSettles ==
    \A f \in Fires :
        fire[f] = "running" ~> fire[f] # "running" \/ owner # "up" \/ AtKind(f, {"fn"})

(* What the comment on the kill timer says: a child that hangs after the   *)
(* timeout's SIGTERM is killed.                                            *)
TimedOutHookDies ==
    \A h \in Hooks : outcome[h] = "timeout" ~> child[h] # "alive" \/ owner # "up"
=============================================================================

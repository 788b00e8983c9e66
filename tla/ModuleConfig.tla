---------------------------- MODULE ModuleConfig ----------------------------
(***************************************************************************)
(* The configuration of one module: the file the store keeps, the          *)
(* subprocess that is given it at initialize and told of changes, and the  *)
(* form of the desktop app that shows it.  The one form there is shows     *)
(* the configuration of "settings", a built-in without a subprocess; a     *)
(* "plugin" has a subprocess and no form.                                  *)
(*                                                                         *)
(* setModuleConfig() merges a patch into the file, tells the subprocess    *)
(* the manager has in its map, and emits config-changed; it is one step,   *)
(* for nothing in it awaits.  The form's replies come over the session's   *)
(* socket and the events over the one of modules/subscribe: each keeps its *)
(* order, the two are not ordered with each other.                         *)
(***************************************************************************)
EXTENDS Naturals, Sequences

CONSTANTS MaxSets,   \* bound: changes that the form does not make
          MaxSaves,  \* bound: saves of the form
          MaxStarts  \* bound: starts of the subprocess

VARIABLES
    which,   \* which module this is: "settings" or "plugin"
    stored,   \* config.json
    entry,    \* the manager's entry: none (also while the first handshake
              \* lasts: "starting"), live, or one whose connection is closed
    known,    \* latestConfig of the subprocess
    toModule, \* config/changed on its way to it
    missed,   \* history: how the file changed and the subprocess was not told:
              \* during a handshake, or by another daemon
    sets, saves, starts, \* count to their bounds
    form,     \* closed, loading or shown
    config, formDraft, saving, \* of the form
    toDaemon, replies, configEvents,
    denied   \* history: what was stored when a change was refused, and after

moduleVars == <<entry, known, toModule, starts>>
formVars == <<form, config, formDraft, saving>>
wireVars == <<toDaemon, replies, configEvents>>
configVars == <<which, stored, moduleVars, missed, sets, saves, formVars, wireVars, denied>>

ConfigKeys == {"a", "b"}
Configs == [ConfigKeys -> {0, 1}]
Empty == [k \in ConfigKeys |-> 0]
(* The plugin's schema does not take both keys set; that of settings has   *)
(* nothing against what its form offers.                                   *)
validate(c) == which = "plugin" => ~ (c["a"] = 1 /\ c["b"] = 1)

ConfigInit ==
    /\ which \in {"settings", "plugin"}
    /\ stored = Empty /\ entry = "none" /\ known = Empty /\ toModule = <<>>
    /\ missed = {} /\ sets = 0 /\ saves = 0 /\ starts = 0
    /\ form = "closed" /\ config = Empty /\ formDraft = Empty /\ saving = FALSE
    /\ toDaemon = <<>> /\ replies = <<>> /\ configEvents = <<>> /\ denied = {}

-----------------------------------------------------------------------------
(* The subprocess.  initialize carries the file's contents of the moment   *)
(* it is sent; the entry is in the map when it is answered.                *)
StartsFromMemory(to) ==    \* mutant: the parameters of the last start again
    /\ starts < MaxStarts /\ starts' = starts + 1
    /\ entry' = to /\ UNCHANGED known /\ toModule' = <<>> /\ missed' = {}
Starts(to) ==
    /\ starts < MaxStarts /\ starts' = starts + 1
    /\ entry' = to /\ known' = stored /\ toModule' = <<>> /\ missed' = {}
performInitialize ==
    /\ which = "plugin" /\ entry = "none" /\ Starts("starting")
    /\ UNCHANGED <<which, stored, sets, saves, formVars, wireVars, denied>>
Becomes(from, to) ==
    /\ entry \in from /\ entry' = to
    /\ UNCHANGED <<which, stored, known, toModule, missed, sets, saves, starts, formVars,
                   wireVars, denied>>
Initialized == Becomes({"starting", "respawning"}, "live")
InitializeFails == Becomes({"starting"}, "none") \/ Becomes({"respawning"}, "crashed")
(* Its pipe closes before or after its exit is seen.                       *)
PipeCloses == Becomes({"live"}, "broken")
onCrashed ==
    /\ entry \in {"live", "broken"} /\ Starts("respawning")
    /\ UNCHANGED <<which, stored, sets, saves, formVars, wireVars, denied>>
(* The last consumer releases it, or it is restarted or shut down.         *)
stopEntry == Becomes({"live", "crashed"}, "stopping")
Stopped == Becomes({"stopping"}, "none")
onConfigChanged ==
    /\ entry = "live" /\ toModule # <<>>
    /\ known' = Head(toModule) /\ toModule' = Tail(toModule)
    /\ UNCHANGED <<which, stored, entry, missed, sets, saves, starts, formVars, wireVars, denied>>

-----------------------------------------------------------------------------
(* applyConfigSet(): the outcome for whoever asked.  Where the entry's     *)
(* connection is closed the notification throws, and the request is        *)
(* rejected after the file was written and before the event.               *)
Closed == entry \in {"broken", "crashed", "respawning", "stopping"}
Merged(patch) == [k \in ConfigKeys |-> IF k \in DOMAIN patch THEN patch[k] ELSE stored[k]]
notifyConfigChanged(c) ==
    /\ toModule' = IF entry = "live" THEN Append(toModule, c) ELSE toModule
    /\ missed' = IF entry \in {"starting", "respawning"} THEN missed \cup {"handshake"} ELSE missed
Outcome(patch) == IF ~validate(Merged(patch)) THEN "invalid"
                  ELSE IF Closed THEN "threw" ELSE "ok"
applyConfigSet(patch) ==
    LET next == Merged(patch) IN
    IF Outcome(patch) = "invalid" THEN UNCHANGED <<which, stored, toModule, missed, configEvents>>
    ELSE /\ stored' = next /\ notifyConfigChanged(next)
         /\ configEvents' = IF Closed \/ form = "closed" THEN configEvents ELSE Append(configEvents, next)

(* A client of this daemon sets a key.                                     *)
SetByClient ==
    /\ sets < MaxSets /\ sets' = sets + 1
    /\ \E k \in ConfigKeys, v \in {0, 1} :
         LET patch == [x \in {k} |-> v]
         IN applyConfigSet(patch)
            /\ denied' = IF Outcome(patch) = "ok" THEN denied
                          ELSE denied \cup {<<stored, stored'>>}
    /\ UNCHANGED <<which, entry, known, starts, saves, formVars, toDaemon, replies>>

(* The daemon of another worktree writes the same file.                    *)
SetByOtherDaemon ==
    /\ sets < MaxSets /\ sets' = sets + 1
    /\ \E c \in Configs : validate(c) /\ stored' = c
    /\ missed' = missed \cup {"another"}
    /\ UNCHANGED <<which, moduleVars, saves, formVars, wireVars, denied>>

(* modules/config/get and set of the form, in their order.                 *)
Serve ==
    /\ toDaemon # <<>> /\ toDaemon' = Tail(toDaemon)
    /\ LET patch == Head(toDaemon) IN    \* <<>>: a get
         /\ replies' = Append(replies, [type |-> IF patch = <<>> THEN "got" ELSE "saved",
                                       config |-> Merged(patch)])
         /\ IF patch = <<>> THEN UNCHANGED <<stored, toModule, missed, configEvents>>
                            ELSE applyConfigSet(patch)
    /\ UNCHANGED <<which, entry, known, starts, sets, saves, formVars, denied>>

-----------------------------------------------------------------------------
(* ModuleConfigForm.                                                       *)
FormMounts ==
    /\ which = "settings" /\ form = "closed" /\ form' = "loading"
    /\ toDaemon' = Append(toDaemon, <<>>)
    /\ UNCHANGED <<which, stored, moduleVars, missed, sets, saves, config, formDraft, saving,
                   replies, configEvents, denied>>

ConfigReply ==
    /\ replies # <<>> /\ replies' = Tail(replies)
    /\ config' = Head(replies).config
    /\ IF Head(replies).type = "got"
         THEN form' = "shown" /\ formDraft' = config' /\ UNCHANGED saving
         ELSE saving' = FALSE /\ UNCHANGED <<form, formDraft>>
    /\ UNCHANGED <<which, stored, moduleVars, missed, sets, saves, toDaemon, configEvents, denied>>

ConfigChangedEvent ==
    /\ configEvents # <<>> /\ configEvents' = Tail(configEvents)
    /\ config' = Head(configEvents)
    /\ formDraft' = IF formDraft = config THEN Head(configEvents) ELSE formDraft
    /\ UNCHANGED <<which, stored, moduleVars, missed, sets, saves, form, saving, toDaemon,
                   replies, denied>>

Edit ==
    /\ form = "shown"
    /\ \E k \in ConfigKeys : formDraft' = [formDraft EXCEPT ![k] = 1 - @]
    /\ UNCHANGED <<which, stored, moduleVars, missed, sets, saves, form, config, saving,
                   wireVars, denied>>
revert ==
    /\ form = "shown" /\ formDraft # config /\ formDraft' = config /\ saving' = FALSE
    /\ UNCHANGED <<which, stored, moduleVars, missed, sets, saves, form, config, wireVars,
                   denied>>
(* The patch is the whole draft.                                           *)
commit ==
    /\ form = "shown" /\ formDraft # config /\ ~saving /\ saves < MaxSaves
    /\ saves' = saves + 1 /\ saving' = TRUE
    /\ toDaemon' = Append(toDaemon, formDraft)
    /\ UNCHANGED <<which, stored, moduleVars, missed, sets, form, config, formDraft, replies,
                   configEvents, denied>>

ConfigNext ==
    \/ performInitialize \/ Initialized \/ InitializeFails \/ PipeCloses \/ onCrashed
    \/ stopEntry \/ Stopped \/ onConfigChanged
    \/ SetByClient \/ SetByOtherDaemon \/ Serve
    \/ FormMounts \/ ConfigReply \/ ConfigChangedEvent \/ Edit \/ revert \/ commit
ConfigSpec == ConfigInit /\ [][ConfigNext]_configVars

-----------------------------------------------------------------------------
(* A module that runs and was told everything has the configuration of the *)
(* file: what it was given at initialize or since (notifyConfigChanged,    *)
(* performInitialize).  Only a change during a handshake, or by the daemon *)
(* of another worktree, passes it by.                                      *)
RunningModuleIsCurrent ==
    entry = "live" /\ toModule = <<>> /\ missed = {} => known = stored

(* The manager's comment says "cold-start modules will pick up the new     *)
(* config via the next `initialize` handshake" (manager.ts:342-343).       *)
NothingMissed ==
    entry = "live" /\ toModule = <<>> /\ "another" \notin missed => known = stored

(* A change that was refused changed nothing.                                *)
RefusedIsUnwritten == \A r \in denied : r[1] = r[2]

(* When everything under way has arrived, the form shows the file.         *)
FormCatchesUp ==
    form = "shown" /\ toDaemon = <<>> /\ replies = <<>> /\ configEvents = <<>> /\ missed = {}
        => config = stored
=============================================================================

----------------------------- MODULE HookCatalog -----------------------------
(***************************************************************************)
(* From rn-dev.config to the hooks a session runs: loadConfig() of         *)
(* @rn-dev/config, loadProjectHooks(), the HookRegistry, the fingerprint a *)
(* script has when it is registered and must still have when it is fired,  *)
(* and hooks-config-validate of the MCP server.                            *)
(*                                                                         *)
(* The user edits the config and saves the script while both processes     *)
(* run: in place, or as another file, which has another inode unless it is *)
(* given that of the one it replaces.  import() of a path reads the file   *)
(* once in the life of a process.                                          *)
(***************************************************************************)
EXTENDS Naturals, FiniteSets

CONSTANTS
    BuiltIn,      \* slots the built-in modules provide
    Overrides,    \* of those, the ones named `custom`
    ModuleSlots,  \* slots of a module that the user may install
    Typos,        \* slots that nobody provides
    InitSlot,     \* session/init
    MaxEdits,     \* bound: changes of the config, of the script, of the modules
    MaxLoads,     \* bound: boots
    MaxDeaths     \* bound: processes that end

ASSUME SlotsAssumption == Overrides \subseteq BuiltIn /\ InitSlot \in BuiltIn \ Overrides
ASSUME EditsAssumption == MaxEdits \in Nat

Targets == BuiltIn \cup ModuleSlots \cup Typos
HookProcesses == {"daemon", "mcp"}

VARIABLES
    configFile,  \* what rn-dev.config says
    scriptFile,  \* the script its hooks name: its inode and what it says
    installed,   \* the module of the foreign slots is installed
    imported,    \* by process: what import() of the config gave
    stage,       \* of the session
    loaded,      \* the config the session loaded
    toWalk,      \* its entries that loadProjectHooks() has yet to look at
    providers,   \* slots declared by declareProvider()
    catalog,     \* the registrations
    steady,      \* history: the script was there all through the boot
    overwritten, \* history: inodes of registered scripts saved since the boot
    ran,         \* history: the scripts that were run, as they were then
    answer,      \* history: the last answer of hooks-config-validate
    counts       \* edits, boots and deaths so far

sessionVars == <<stage, loaded, toWalk, providers, catalog>>
sinceBoot == <<steady, overwritten>>
hookCatalogVars == <<configFile, scriptFile, installed, imported, sessionVars, sinceBoot, ran,
                 answer, counts>>

NoFile == [inode |-> 0, text |-> 0]
Inodes == 1..(MaxEdits + 1)
ScriptFiles == [inode : Inodes, text : 1..(MaxEdits + 1)] \cup {NoFile}

NoConfig(k) == [kind |-> k, hooks |-> {}, allows |-> FALSE, inline |-> FALSE]
Absent == NoConfig("absent")
Invalid == NoConfig("invalid")   \* does not parse, throws, or is of another shape
Unread == NoConfig("unread")
(* The entries, whether allowModuleOverrides names the module, and whether *)
(* the entries are functions of the config or name the script.             *)
ConfigTexts == {Absent, Invalid} \cup
    [kind : {"config"}, hooks : SUBSET Targets, allows : BOOLEAN, inline : BOOLEAN]

HookCatalogTypeOK ==
    /\ configFile \in ConfigTexts /\ scriptFile \in ScriptFiles /\ installed \in BOOLEAN
    /\ imported \in [HookProcesses -> (ConfigTexts \cup {Unread}) \ {Absent}]
    /\ stage \in {"down", "idle", "loading", "walking", "up"}
    /\ loaded \in ConfigTexts \cup {Unread}
    /\ toWalk \subseteq loaded.hooks /\ providers \subseteq BuiltIn \cup ModuleSlots
    /\ catalog \subseteq [slot : Targets, file : ScriptFiles, orphaned : BOOLEAN]
    /\ steady \in BOOLEAN /\ overwritten \subseteq Inodes
    /\ ran \subseteq [slot : Targets, file : ScriptFiles]
    /\ answer \in [valid : BOOLEAN, of : ConfigTexts]
    /\ counts \in [edits : 0..MaxEdits, boots : 0..MaxLoads, deaths : 0..MaxDeaths]

HookCatalogInit ==
    /\ configFile \in ConfigTexts /\ scriptFile \in {NoFile, [inode |-> 1, text |-> 1]}
    /\ installed \in BOOLEAN
    /\ imported = [p \in HookProcesses |-> Unread]
    /\ stage = "down" /\ loaded = Unread /\ toWalk = {} /\ providers = {} /\ catalog = {}
    /\ steady = FALSE /\ overwritten = {} /\ ran = {}
    /\ answer = [valid |-> TRUE, of |-> Absent]
    /\ counts = [edits |-> 0, boots |-> 0, deaths |-> 0]

-----------------------------------------------------------------------------
(* The user.                                                               *)
Edit == /\ counts.edits < MaxEdits /\ counts' = [counts EXCEPT !.edits = @ + 1]
        /\ UNCHANGED <<imported, sessionVars, ran, answer>>
EditsConfig ==
    /\ Edit /\ \E c \in ConfigTexts \ {configFile} : configFile' = c
    /\ UNCHANGED <<scriptFile, installed, sinceBoot>>
Registered(n) == \E r \in catalog : r.file.inode = n
Saves(file) ==
    /\ Edit /\ steady' = (steady /\ stage \notin {"loading", "walking"})
    /\ scriptFile' = file /\ scriptFile # file
    /\ overwritten' = overwritten \cup {n \in Inodes : n = file.inode /\ Registered(n)}
    /\ UNCHANGED <<configFile, installed>>
SavesScript ==
    Saves(NoFile) \/ \E n \in Inodes : Saves([inode |-> n, text |-> counts.edits + 2])
InstallsModule ==
    /\ Edit /\ ~installed /\ installed' = TRUE
    /\ UNCHANGED <<configFile, scriptFile, sinceBoot>>

-----------------------------------------------------------------------------
(* loadConfig() with a file to load, in process p: the import gives what   *)
(* it gave before; when it failed, a runtime may also read the file again. *)
Imports(p, c) ==
    /\ \/ c = imported[p] /\ imported[p] # Unread
       \/ c = configFile /\ imported[p] \in {Unread, Invalid}
    /\ imported' = [imported EXCEPT ![p] = c]

DaemonStarts ==
    /\ stage = "down" /\ stage' = "idle"
    /\ UNCHANGED <<configFile, scriptFile, installed, imported, loaded, toWalk, providers,
                   catalog, sinceBoot, ran, answer, counts>>

(* A boot declares the providers there are; nothing declares one later.    *)
BootDeclares ==
    /\ stage = "idle" /\ counts.boots < MaxLoads
    /\ counts' = [counts EXCEPT !.boots = @ + 1]
    /\ stage' = "loading" /\ loaded' = Unread /\ toWalk' = {} /\ catalog' = {}
    /\ providers' = BuiltIn \cup (IF installed THEN ModuleSlots ELSE {})
    /\ steady' = (scriptFile # NoFile) /\ overwritten' = {} /\ ran' = {}
    /\ UNCHANGED <<configFile, scriptFile, installed, imported, answer>>

Walks(c) == stage' = "walking" /\ loaded' = c /\ toWalk' = c.hooks
LoadsConfig ==
    /\ stage = "loading"
    /\ IF configFile = Absent THEN Walks(Absent) /\ UNCHANGED imported
       ELSE \E c \in ConfigTexts : Imports("daemon", c) /\ Walks(c)
    /\ UNCHANGED <<configFile, scriptFile, installed, providers, catalog, sinceBoot, ran, answer,
                   counts>>

(* The import takes more than 5 s: the load fails, the module is kept.     *)
LoadTimesOut ==
    /\ stage = "loading" /\ configFile # Absent
    /\ \E c \in ConfigTexts : Imports("daemon", c)
    /\ Walks(Invalid)
    /\ UNCHANGED <<configFile, scriptFile, installed, providers, catalog, sinceBoot, ran, answer,
                   counts>>

-----------------------------------------------------------------------------
assertOverrideOptIn(t) == t \in Overrides => loaded.allows
resolveHookScript == loaded.inline \/ scriptFile # NoFile
addRegistration(t) ==
    catalog' = catalog \cup {[slot |-> t, file |-> IF loaded.inline THEN NoFile ELSE scriptFile,
                              orphaned |-> t \notin providers]}

(* One entry; one that is refused, or whose script cannot be resolved, is  *)
(* skipped with a line in the log.                                         *)
WalkEntry(t) ==
    /\ stage = "walking" /\ t \in toWalk /\ toWalk' = toWalk \ {t}
    /\ IF assertOverrideOptIn(t) /\ resolveHookScript THEN addRegistration(t)
                                                      ELSE UNCHANGED catalog
    /\ UNCHANGED <<configFile, scriptFile, installed, imported, stage, loaded, providers, sinceBoot,
                   ran, answer, counts>>

Fired(t) == {r \in catalog : r.slot = t /\ ~r.orphaned}
ReadNow(r) == IF r.file = NoFile THEN NoFile ELSE scriptFile

(* Mutant: the script is found again by its path when it is fired.         *)
FireByPath(t) ==
    ran' = ran \cup {[slot |-> t, file |-> ReadNow(r)] :
                         r \in {x \in Fired(t) : x.file = NoFile \/ scriptFile # NoFile}}

(* checkFingerprint(), at the path that was registered.                    *)
SameFile(r) == r.file.inode \in {0, scriptFile.inode}

(* fire(): what is not orphaned runs, a script only if it still is the     *)
(* file that was registered, and as that file now reads.                   *)
FireSlot(t) ==
    ran' = ran \cup {[slot |-> t, file |-> ReadNow(r)] : r \in {x \in Fired(t) : SameFile(x)}}

(* session/init: when a hook fails, its onFail decides if the boot does.   *)
InitFires ==
    /\ stage = "walking" /\ toWalk = {}
    /\ FireSlot(InitSlot)
    /\ stage' \in IF Fired(InitSlot) = {} THEN {"up"} ELSE {"up", "idle"}
    /\ UNCHANGED <<configFile, scriptFile, installed, imported, loaded, toWalk, providers,
                   catalog, sinceBoot, answer, counts>>
HookFires(t) ==
    /\ stage = "up" /\ t # InitSlot
    /\ FireSlot(t)
    /\ UNCHANGED <<configFile, scriptFile, installed, imported, sessionVars, sinceBoot, answer,
                   counts>>

SessionEnds ==
    /\ stage = "up" /\ stage' = "idle"
    /\ UNCHANGED <<configFile, scriptFile, installed, imported, loaded, toWalk, providers,
                   catalog, sinceBoot, ran, answer, counts>>

(* A process ends, and what it imported with it.                           *)
ProcessEnds(p) ==
    /\ counts.deaths < MaxDeaths /\ counts' = [counts EXCEPT !.deaths = @ + 1]
    /\ imported' = [imported EXCEPT ![p] = Unread]
    /\ IF p = "daemon" THEN stage # "down" /\ stage' = "down" ELSE UNCHANGED stage
    /\ UNCHANGED <<configFile, scriptFile, installed, loaded, toWalk, providers, catalog, sinceBoot,
                   ran, answer>>

-----------------------------------------------------------------------------
(* hooks-config-validate knows the built-in modules, whatever is           *)
(* installed, and looks at the keys of the config it imports.              *)
validateHookConfig ==
    /\ IF configFile = Absent THEN answer' = [valid |-> TRUE, of |-> Absent] /\ UNCHANGED imported
       ELSE \E c \in ConfigTexts :
              /\ Imports("mcp", c)
              /\ answer' = [valid |-> c # Invalid /\ c.hooks \subseteq BuiltIn, of |-> configFile]
    /\ UNCHANGED <<configFile, scriptFile, installed, sessionVars, sinceBoot, ran, counts>>

HookCatalogNext ==
    \/ EditsConfig \/ SavesScript \/ InstallsModule
    \/ DaemonStarts \/ BootDeclares \/ LoadsConfig \/ LoadTimesOut
    \/ \E t \in Targets : WalkEntry(t) \/ HookFires(t)
    \/ InitFires \/ SessionEnds
    \/ \E p \in HookProcesses : ProcessEnds(p)
    \/ validateHookConfig

HookCatalogSpec == HookCatalogInit /\ [][HookCatalogNext]_hookCatalogVars

-----------------------------------------------------------------------------
(* An entry that is refused or cannot be resolved costs the session no     *)
(* other: every other entry of the config it loaded is registered, unless  *)
(* the script itself was changed during the boot.                          *)
OtherEntriesStand ==
    stage = "up" /\ (loaded.inline \/ steady) =>
        \A t \in loaded.hooks : assertOverrideOptIn(t) => \E r \in catalog : r.slot = t

(* A hook that was refused at the boot never runs, nor does another file   *)
(* that has since come to the path of a script.  The file that was         *)
(* registered runs as the boot found it, unless it was saved in place, or  *)
(* its inode was given to the file that replaces it.                       *)
OnlyRegisteredRuns ==
    stage = "up" => \A x \in ran : \E r \in catalog :
        /\ r.slot = x.slot /\ ~r.orphaned
        /\ r.file.inode = x.file.inode
        /\ r.file = x.file \/ x.file.inode \in overwritten

(* "returns ok=false when the file is replaced after registration"         *)
(* (path-resolver.test.ts:119), read as a promise of what it says: no      *)
(* script runs that is not, word for word, the one that was registered.    *)
NoEditedScriptRuns ==
    stage = "up" => \A x \in ran : \E r \in catalog : r.slot = x.slot /\ r.file = x.file

(* What a session runs is what its boot registered: all that was admitted, *)
(* and nothing else.                                                       *)
HooksAreTheBoots == OtherEntriesStand /\ OnlyRegisteredRuns

(* What the description of hooks-config-validate says: it catches typos in *)
(* the project's config at validate-time.                                  *)
TyposAreCaught == answer.valid => answer.of.hooks \cap Typos = {}

=============================================================================

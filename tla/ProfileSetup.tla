----------------------------- MODULE ProfileSetup -----------------------------
(***************************************************************************)
(* How a profile is made and found again.  Two wizards of seven steps (the *)
(* desktop one, Wizard.tsx, whose lists are answers of the main process,   *)
(* and the terminal one, WizardContainer.tsx) and the MCP tool save-profile*)
(* write <project>/.rn-dev/profiles; a launch of either front-end looks    *)
(* for the default profile of the root repository; the daemon checks the   *)
(* profile it is given (profile-guard.ts) before it boots a session.       *)
(*                                                                         *)
(* A worktree is "null", the path of the root repository, the path of      *)
(* another worktree, or a branch name that is no path at all.  Branch,     *)
(* mode, scheme, preflight checks and on-save tools are chosen but not     *)
(* followed: one branch stands for the one every party looks for.  The     *)
(* wizards share nothing but the directory: at most one is open at a time. *)
(***************************************************************************)
EXTENDS Naturals, FiniteSets

CONSTANTS
  MaxWizards,        \* bound: profiles the wizards make
  MaxAsks            \* bound: invocations of the desktop wizard unanswered at once

Names == 0..MaxWizards     \* 0 is the name the MCP tool is given
Platforms == {"ios", "android", "both"}
Needs(p) == IF p = "both" THEN {"ios", "android"} ELSE {p}

(* One simulator and one emulator may be attached. *)
Devices == {"sim", "emu"}
Kind(d) == IF d = "sim" THEN "ios" ELSE "android"
listDevices(p) == SUBSET {d \in Devices : Kind(d) \in Needs(p)}

VARIABLES
  store,     \* the profiles directory: name -> profile
  made,      \* wizard profiles named so far (profile-<Date.now()>)
  gui,       \* the desktop wizard: step (0 when it is not shown) and answers
  asks,      \* its invocations the main process has not answered
  draft,     \* the profile of the wizard that is saving, or NoDraft
  tui,       \* the terminal front-end: step (0 off, 8 past the wizard), ...
  refused,   \* the worktrees of the profiles the daemon has refused
  blank      \* a desktop launch has shown neither the wizard nor an instance

vars == <<store, made, gui, asks, draft, tui, refused, blank>>
guiVars == <<gui, asks, draft>>

NoDraft == [phase |-> "none"]
GuiFresh == [step |-> 0, worktree |-> "null", branch |-> FALSE, platform |-> "ios",
             device |-> "none", listed |-> {}]
TuiOff == [step |-> 0, worktree |-> "null", platform |-> "ios", ios |-> "absent",
           android |-> "absent", picked |-> "absent", loading |-> FALSE,
           listed |-> {}, override |-> "none"]

Init ==
  /\ store = <<>> /\ made = 0
  /\ gui = GuiFresh /\ asks = {} /\ draft = NoDraft
  /\ tui = TuiOff
  /\ refused = {} /\ blank = FALSE

-------------------------------------------------------------------------------
(* ProfileStore *)

List == DOMAIN store
Save(n, p) == store' = [m \in List \cup {n} |-> IF m = n THEN p ELSE store[m]]

(* findDefault: the first match in the order the directory is read. *)
findDefault(w) == {n \in List : store[n].isDefault /\ store[n].worktree = w}

(* setDefault unsets the match it finds, one, then sets the target: the    *)
(* directories it may leave.                                               *)
setDefault(n) ==
  LET current == findDefault(store[n].worktree)
  IN  {[m \in List |-> [store[m] EXCEPT !.isDefault = m = n \/ (@ /\ m # c)]] :
         c \in IF current = {} THEN {n} ELSE current}
SetDefault(n) ==
  /\ n \in List /\ store' \in setDefault(n)
  /\ UNCHANGED <<made, guiVars, tui, refused, blank>>

Delete(n) ==
  /\ n \in List
  /\ store' = [m \in List \ {n} |-> store[m]]
  /\ UNCHANGED <<made, guiVars, tui, refused, blank>>

(* The MCP tool copies the default profile of the root repository, whole,  *)
(* under the name it is given.                                             *)
Minimal == [isDefault |-> FALSE, worktree |-> "null", platform |-> "both",
            ios |-> "absent", android |-> "absent", by |-> "mcp"]
SaveProfileTool ==
  /\ IF findDefault("null") = {} THEN Save(0, Minimal)
     ELSE \E n \in findDefault("null") : Save(0, [store[n] EXCEPT !.by = "mcp"])
  /\ UNCHANGED <<made, guiVars, tui, refused, blank>>

-------------------------------------------------------------------------------
(* The daemon's guard, and the two callers of session/start. *)

checkOptionalPath(w) == w \in {"null", "root", "worktree"}
checkDevices(p) == {p.ios, p.android} \subseteq Devices \cup {"absent", "null"}
validateProfile(p) ==
  checkOptionalPath(p.worktree) /\ p.platform \in Platforms /\ checkDevices(p)

Offer(p) ==
  refused' = refused \cup IF validateProfile(p) THEN {} ELSE {p.worktree}

-------------------------------------------------------------------------------
(* The desktop launch and wizard *)

(* App.tsx shows the wizard when there is no profile at all; otherwise it  *)
(* waits for the instance startRealServices makes of the default profile.  *)
Launch ==
  /\ gui.step = 0 /\ tui.step \in {0, 8} /\ draft = NoDraft
  /\ \/ /\ List = {} /\ made < MaxWizards
        /\ gui' = [GuiFresh EXCEPT !.step = 1]
        /\ UNCHANGED <<refused, blank>>
     \/ /\ List # {} /\ findDefault("null") = {}
        /\ blank' = TRUE /\ UNCHANGED <<gui, refused>>
     \/ \E n \in findDefault("null") :
          Offer(store[n]) /\ UNCHANGED <<gui, blank>>
  /\ UNCHANGED <<store, made, asks, draft, tui>>

OpenWizard ==
  /\ gui.step = 0 /\ tui.step \in {0, 8} /\ draft = NoDraft /\ made < MaxWizards
  /\ gui' = [GuiFresh EXCEPT !.step = 1]
  /\ UNCHANGED <<store, made, asks, draft, tui, refused, blank>>

(* The invocations a step's effect makes when it opens. *)
DeviceAsk(p) == [what |-> "devices", platform |-> p]
StepAsks(g) == IF g.step = 5 THEN {DeviceAsk(g.platform)} ELSE {}

GoesTo(g) ==
  /\ gui' = g /\ asks' = asks \cup StepAsks(g)
  /\ Cardinality(asks') <= MaxAsks
Shown == gui.step > 0 /\ draft = NoDraft
Stays == UNCHANGED <<store, made, draft, tui, refused, blank>>

goNext ==
  /\ Shown /\ gui.step < 7 /\ (gui.step = 2 => gui.branch)
  /\ GoesTo([gui EXCEPT !.step = @ + 1]) /\ Stays
goBack ==
  /\ gui.step > 1
  /\ GoesTo([gui EXCEPT !.step = @ - 1]) /\ Stays
Cancel ==
  /\ Shown
  /\ gui' = GuiFresh /\ asks' = {} /\ Stays

ChooseWorktree ==
  /\ Shown /\ gui.step = 1
  /\ \E w \in {"root", "worktree"} : GoesTo([gui EXCEPT !.worktree = w, !.step = 2])
  /\ Stays
CreateWorktree ==
  /\ Shown /\ gui.step = 1
  /\ asks' = asks \cup {[what |-> "create"]} /\ Cardinality(asks') <= MaxAsks
  /\ UNCHANGED gui /\ Stays
ChooseBranch ==
  /\ Shown /\ gui.step = 2
  /\ GoesTo([gui EXCEPT !.branch = TRUE, !.step = 3]) /\ Stays

(* A change of platform clears the device. *)
ChoosePlatform ==
  /\ Shown /\ gui.step = 3
  /\ \E p \in Platforms \ {gui.platform} :
       GoesTo([gui EXCEPT !.platform = p, !.device = "none"])
  /\ Stays
ChooseDevice ==
  /\ Shown /\ gui.step = 5
  /\ \E d \in gui.listed : GoesTo([gui EXCEPT !.device = d, !.step = 6])
  /\ Stays

(* An answer is applied when it comes, whatever the wizard shows by then;  *)
(* the answer to a creation goes to the step after the one it was asked in.*)
Answered ==
  /\ gui.step > 0
  /\ \E a \in asks :
       /\ CASE a.what = "devices" ->
                 \E l \in listDevices(a.platform) : gui' = [gui EXCEPT !.listed = l]
            [] a.what = "create" ->
                 \E ok \in BOOLEAN : gui' = IF ok
                   THEN [gui EXCEPT !.worktree = "worktree", !.step = 2] ELSE gui
       /\ asks' = asks \ {a}
  /\ Stays

(* handleFinish reads the answers of the moment, asks whether any profile  *)
(* exists, then saves: one profile:list and one wizard:saveProfile call.   *)
Slot(d, kind, p) == IF kind \in Needs(p) /\ d # "none" THEN d ELSE "null"
handleFinish ==
  /\ Shown /\ gui.step = 7
  /\ made' = made + 1
  /\ draft' = [phase |-> "listing", of |->
       [isDefault |-> FALSE, worktree |-> gui.worktree, platform |-> gui.platform,
        ios |-> Slot(gui.device, "ios", gui.platform),
        android |-> Slot(gui.device, "android", gui.platform), by |-> "gui"]]
  /\ UNCHANGED <<store, gui, asks, tui, refused, blank>>

FinishListed ==
  /\ draft.phase = "listing"
  /\ draft' = [phase |-> "saving", of |-> [draft.of EXCEPT !.isDefault = List = {}]]
  /\ UNCHANGED <<store, made, gui, asks, tui, refused, blank>>

(* The profile is saved, the wizard closes and instances:create loads the  *)
(* profile by its name and attaches a session for it.                      *)
FinishSaved ==
  /\ draft.phase = "saving"
  /\ Save(made, draft.of) /\ Offer(draft.of)
  /\ gui' = GuiFresh /\ asks' = {} /\ draft' = NoDraft
  /\ UNCHANGED <<made, tui, blank>>

GuiNext ==
  \/ Launch \/ OpenWizard \/ goNext \/ goBack \/ Cancel \/ ChooseWorktree
  \/ CreateWorktree \/ ChooseBranch \/ ChoosePlatform \/ ChooseDevice
  \/ Answered \/ handleFinish \/ FinishListed \/ FinishSaved

-------------------------------------------------------------------------------
(* rn-dev start: the terminal front-end and its wizard *)

applyCliOverrides(p) ==
  IF tui.override = "none" THEN p ELSE [p EXCEPT !.platform = tui.override, !.by = "cli"]
TuiStays == UNCHANGED <<store, made, guiVars, refused, blank>>

(* With a profile, or a default one, the session starts at once; otherwise *)
(* the wizard opens.                                                       *)
StartFlow ==
  /\ tui.step = 0 /\ gui.step = 0
  /\ \E o \in {"none", "android"} :
       \/ /\ made < MaxWizards
          /\ tui' = [TuiOff EXCEPT !.step = 1, !.override = o] /\ UNCHANGED refused
       \/ \E n \in List :
            /\ tui' = [TuiOff EXCEPT !.step = 8]
            /\ Offer(IF o = "none" THEN store[n] ELSE [store[n] EXCEPT !.platform = o])
  /\ UNCHANGED <<store, made, guiVars, blank>>
Quit == tui.step \in {1, 8} /\ tui' = TuiOff /\ TuiStays

handleWorktreeNext ==
  /\ tui.step = 1
  /\ \E w \in {"null", "worktree", "branch-name"} :
       tui' = [tui EXCEPT !.worktree = w, !.step = 2]
  /\ TuiStays
handlePlatformNext ==
  /\ tui.step = 3
  /\ \E p \in Platforms : tui' = [tui EXCEPT !.platform = p, !.step = 4]
  /\ TuiStays
(* The mode step leads to the device step, which scans anew each time. *)
handleModeNext ==
  /\ tui.step = 4
  /\ tui' = [tui EXCEPT !.step = 5, !.loading = TRUE, !.picked = "absent", !.listed = {}]
  /\ TuiStays
handleStepNext ==      \* the branch and the preflight step
  /\ tui.step \in {2, 6}
  /\ tui' = [tui EXCEPT !.step = @ + 1]
  /\ TuiStays

Scanned ==
  /\ tui.step = 5 /\ tui.loading
  /\ \E l \in listDevices(tui.platform) : tui' = [tui EXCEPT !.loading = FALSE, !.listed = l]
  /\ TuiStays

(* With no device of the kind only a warning is drawn: there is nothing to *)
(* select, not even Skip.                                                  *)
Offered(kind) ==
  LET ds == {d \in tui.listed : Kind(d) = kind}
  IN  IF ds = {} THEN {} ELSE ds \cup {"null"}
selectingIos == "ios" \in Needs(tui.platform) /\ tui.picked = "absent"
handleDeviceNextMerges(ios, android) ==
  tui' = [tui EXCEPT !.ios = IF ios = "absent" THEN @ ELSE ios,
                     !.android = IF android = "absent" THEN @ ELSE android, !.step = 6]
handleDeviceNext(ios, android) ==
  tui' = [tui EXCEPT !.ios = ios, !.android = android, !.step = 6]
handleIosSelect ==
  /\ tui.step = 5 /\ ~tui.loading /\ selectingIos
  /\ \E d \in Offered("ios") :
       IF tui.platform = "ios" THEN handleDeviceNext(d, "absent")
       ELSE tui' = [tui EXCEPT !.picked = d]
  /\ TuiStays
handleAndroidSelect ==
  /\ tui.step = 5 /\ ~tui.loading /\ ~selectingIos
  /\ \E d \in Offered("android") : handleDeviceNext(tui.picked, d)
  /\ TuiStays
Escape ==
  /\ tui.step \in 2..7
  /\ tui' = IF tui.step = 5 /\ ~selectingIos /\ tui.platform = "both"
            THEN [tui EXCEPT !.picked = "absent"]
            ELSE IF tui.step = 6
                 THEN [tui EXCEPT !.step = 5, !.loading = TRUE, !.picked = "absent",
                                  !.listed = {}]
                 ELSE [tui EXCEPT !.step = @ - 1, !.loading = FALSE]
  /\ TuiStays

(* The terminal wizard's profile is a default unless it says otherwise,    *)
(* and it never does; it is saved before the daemon has seen it.           *)
onWizardComplete ==
  /\ tui.step = 7
  /\ LET p == applyCliOverrides(
               [isDefault |-> TRUE, worktree |-> tui.worktree, platform |-> tui.platform,
                ios |-> tui.ios, android |-> tui.android, by |-> "tui"])
     IN  Save(made + 1, p) /\ Offer(p)
  /\ made' = made + 1
  /\ tui' = [TuiOff EXCEPT !.step = 8]
  /\ UNCHANGED <<guiVars, blank>>

TuiNext ==
  \/ StartFlow \/ Quit \/ handleWorktreeNext \/ handlePlatformNext \/ handleModeNext
  \/ handleStepNext \/ Scanned \/ handleIosSelect \/ handleAndroidSelect \/ Escape
  \/ onWizardComplete

Next ==
  \/ GuiNext \/ TuiNext \/ SaveProfileTool
  \/ \E n \in List : SetDefault(n) \/ Delete(n)

ProfileSpec == Init /\ [][Next]_vars
-------------------------------------------------------------------------------
(* Properties *)

(* The variables hold what the program can put in them. *)
ProfileTypeOK ==
  /\ List \subseteq Names /\ made \in 0..MaxWizards
  /\ gui.step \in 0..7 /\ gui.device \in Devices \cup {"none"}
  /\ tui.step \in 0..8 /\ tui.listed \subseteq Devices
  /\ Cardinality(asks) <= MaxAsks /\ blank \in BOOLEAN

(* The daemon boots every profile the wizards and the tool make, however    *)
(* the user went back and forth and whichever device slots were left empty, *)
(* but the one whose worktree is a branch name.                             *)
RefusedForItsWorktree == refused \subseteq {"branch-name"}

(* A profile of the terminal wizard has a device slot for each platform it  *)
(* targets and for no other, with a device of that kind, though the user may*)
(* have changed the platform after choosing the devices.                    *)
TuiDevicesFit ==
  \A n \in List : store[n].by = "tui" =>
    /\ (store[n].ios # "absent") <=> "ios" \in Needs(store[n].platform)
    /\ (store[n].android # "absent") <=> "android" \in Needs(store[n].platform)
    /\ store[n].ios # "emu" /\ store[n].android # "sim"

(* Whatever the order of the answers, the profile is one that can boot. *)
ProfilesFit == RefusedForItsWorktree /\ TuiDevicesFit

(* profile.ts: setDefault leaves no other default for the worktree. *)
SetDefaultLeavesOne ==
  \A n \in List : \A s \in setDefault(n) :
    findDefault(store[n].worktree) \subseteq {m \in List : m = n \/ ~s[m].isDefault}

(* App.tsx: with profiles, a launch makes an instance of the default one. *)
LaunchShowsSomething == ~blank
===============================================================================

----------------------------- MODULE RendererTabs -----------------------------
(***************************************************************************)
(* The tabs and their logs on both sides of the desktop application: the   *)
(* instances map of the main process (electron/ipc/instance.ts, services.ts*)
(* and state.ts) and the React state of App.tsx.  The main process tells   *)
(* the page of instances and lines by events; the page, when it mounts,    *)
(* asks for the list and for the log of every instance, and sends the      *)
(* user's clicks.  Both directions are channels in order; a reload of the  *)
(* page loses what is on its way to it, and an answer to a page that is    *)
(* gone is lost: a question says which page asked.                         *)
(*                                                                         *)
(* An instance is named by its port: of one worktree, the lowest free one. *)
(* A line is a number; both log buffers (service and Metro) are one, and   *)
(* not full.  Into the page's buffer of the tab it shows go also notices,  *)
(* which are of no instance and are in no log of the main process: a       *)
(* daemon that is gone, audit entries, the answers of the menu's tools and *)
(* the commands clicked.  Of a notice the place is kept: how many lines of *)
(* the buffer are before it.                                               *)
(***************************************************************************)
EXTENDS Naturals, Sequences, SequencesExt

CONSTANTS
  Ports,        \* ports findFreePort tries, in order
  MaxLines,     \* bound: log lines of the sessions
  MaxNotices,   \* bound: notices, of the main process and of the page
  MaxClicks,    \* bound: clicks of the user
  MaxReloads    \* bound: reloads of the page

ASSUME PortsAssumption == Ports \in SUBSET (Nat \ {0})

VARIABLES
  tabRows,         \* main: keys of the instances map, in insertion order
  activeTab,       \* main: state.activeInstanceId (0: null)
  log,          \* main: the log of each instance
  creating,     \* main: ids of the creations that have chosen their port
  wired,        \* ids whose replaced or removed instance still gets lines
  lives,        \* how many instances had the id
  lines,        \* lines so far
  toPage, toMain,
  page,         \* "loading" or "shown"
  shown,        \* page: instances
  activeId,     \* page: activeId (0: null)
  logs,         \* page: instanceLogsRef, the lines of each key that are
                \* of the instance's log
  notices,      \* page: and the notices among them
  keys,         \* page: its keys, in insertion order
  clicks, reloads, noticed

mainVars == <<tabRows, activeTab, log, creating, wired, lives>>
bounds == <<clicks, reloads, noticed>>
pageVars == <<page, shown, activeId, logs, notices, keys>>
rendererVars == <<mainVars, lines, toPage, toMain, pageVars, bounds>>

TabsInit ==
  /\ tabRows = <<>> /\ activeTab = 0 /\ log = [p \in Ports |-> <<>>] /\ creating = <<>>
  /\ wired = {} /\ lives = [p \in Ports |-> 0] /\ lines = 0
  /\ toPage = <<>> /\ toMain = <<>>
  /\ page = "loading" /\ shown = <<>> /\ activeId = 0
  /\ logs = [p \in Ports |-> <<>>] /\ notices = [p \in Ports |-> <<>>] /\ keys = <<>>
  /\ clicks = 0 /\ reloads = 0 /\ noticed = 0

(* The rows, the tabs and the keys have no element twice. *)
Without(s, x) ==
  IF x \in ToSet(s) THEN RemoveAt(s, CHOOSE i \in DOMAIN s : s[i] = x) ELSE s

(* A message to a page that is not there is lost. *)
SendsLine(m) == toPage' = IF page = "shown" THEN Append(toPage, m) ELSE toPage
AnswersPage(m, asker) ==
  toPage' = IF page = "shown" /\ asker = reloads THEN Append(toPage, m) ELSE toPage
Ask(m) == toMain' = Append(toMain, m)

-------------------------------------------------------------------------------
(* The main process *)

freePort ==
  CHOOSE p \in Ports : p \notin ToSet(tabRows) /\ \A q \in Ports : q < p => q \in ToSet(tabRows)

(* A creation takes its port, then waits for the branch and the devices.   *)
Begins ==
  /\ Ports \ ToSet(tabRows) # {}
  /\ creating' = Append(creating, freePort)

Created ==
  /\ creating # <<>>
  /\ \E i \in DOMAIN creating :
       LET id == creating[i]
       IN  /\ tabRows' = IF id \in ToSet(tabRows) THEN tabRows ELSE Append(tabRows, id)
           /\ wired' = IF id \in ToSet(tabRows) THEN wired \cup {id} ELSE wired
           /\ log' = [log EXCEPT ![id] = <<>>]
           /\ lives' = [lives EXCEPT ![id] = @ + 1]
           /\ activeTab' = id
           /\ creating' = RemoveAt(creating, i)
           /\ SendsLine([type |-> "created", id |-> id])
  /\ UNCHANGED <<lines, toMain, pageVars, bounds>>

(* wireInstanceEvents: a line goes to the instance's log and to the page;  *)
(* nothing unhooks the listener of an instance that is gone.               *)
Line ==
  /\ lines < MaxLines /\ lines' = lines + 1
  /\ \E id \in ToSet(tabRows) \cup wired :
       /\ \/ id \in ToSet(tabRows) /\ log' = [log EXCEPT ![id] = Append(@, lines')]
          \/ id \in wired /\ UNCHANGED log
       /\ SendsLine([type |-> "line", id |-> id, line |-> lines'])
  /\ UNCHANGED <<tabRows, activeTab, creating, wired, lives, toMain, pageVars, bounds>>

(* service:log, metro:log, build:line: of no instance.                     *)
Notice ==
  /\ noticed < MaxNotices /\ noticed' = noticed + 1
  /\ SendsLine([type |-> "notice"])
  /\ UNCHANGED <<mainVars, lines, toMain, pageVars, clicks, reloads>>

ListInstances(asker) ==
  /\ AnswersPage([type |-> "list", ids |-> tabRows], asker)
  /\ UNCHANGED mainVars
GetLogs(id, asker) ==
  /\ AnswersPage([type |-> "logs", id |-> id,
                  lines |-> IF id \in ToSet(tabRows) THEN log[id] ELSE <<>>], asker)
  /\ UNCHANGED mainVars
SelectTab(id) ==
  /\ activeTab' = IF id \in ToSet(tabRows) THEN id ELSE activeTab
  /\ UNCHANGED <<tabRows, log, creating, wired, lives, toPage>>
RemoveInstance(id) ==
  IF id \notin ToSet(tabRows) THEN UNCHANGED <<mainVars, toPage>>
  ELSE /\ tabRows' = Without(tabRows, id)
       /\ activeTab' = IF activeTab # id THEN activeTab
                    ELSE IF tabRows' = <<>> THEN 0 ELSE Head(tabRows')
       /\ wired' = wired \cup {id}
       /\ SendsLine([type |-> "removed", id |-> id])
       /\ UNCHANGED <<log, creating, lives>>
Create ==
  /\ Begins
  /\ UNCHANGED <<tabRows, activeTab, log, wired, lives, toPage>>

HandleInstance ==
  /\ toMain # <<>>
  /\ LET m == Head(toMain)
     IN  \/ m.type = "list" /\ ListInstances(m.asker)
         \/ m.type = "getLogs" /\ GetLogs(m.id, m.asker)
         \/ m.type = "setActive" /\ SelectTab(m.id)
         \/ m.type = "remove" /\ RemoveInstance(m.id)
         \/ m.type = "create" /\ Create
  /\ toMain' = Tail(toMain)
  /\ UNCHANGED <<lines, pageVars, bounds>>

-------------------------------------------------------------------------------
(* The page *)

(* App mounts: it listens, and asks for the list; the load makes the main  *)
(* process start an instance of the default profile once more.             *)
Mount ==
  /\ page = "loading" /\ page' = "shown"
  /\ shown' = <<>> /\ activeId' = 0 /\ keys' = <<>>
  /\ logs' = [p \in Ports |-> <<>>] /\ notices' = [p \in Ports |-> <<>>]
  /\ Ask([type |-> "list", asker |-> reloads])
  /\ \/ Begins \/ UNCHANGED creating      \* no default profile
  /\ UNCHANGED <<tabRows, activeTab, log, wired, lives, lines, toPage, bounds>>

Reload ==
  /\ page = "shown" /\ reloads < MaxReloads /\ reloads' = reloads + 1
  /\ page' = "loading" /\ toPage' = <<>>
  /\ UNCHANGED <<mainVars, lines, toMain, shown, activeId, logs, notices, keys, clicks, noticed>>

Put(id, ls, ns) ==
  /\ logs' = [logs EXCEPT ![id] = ls] /\ notices' = [notices EXCEPT ![id] = ns]
  /\ keys' = IF id \in ToSet(keys) THEN keys ELSE Append(keys, id)

InstanceCreated(id) ==
  /\ shown' = IF id \in ToSet(shown) THEN shown ELSE Append(shown, id)
  /\ Put(id, <<>>, <<>>)
  /\ activeId' = id
  /\ UNCHANGED toMain
(* The next tab shown is the first that has a log. *)
InstanceRemoved(id) ==
  /\ shown' = Without(shown, id)
  /\ logs' = [logs EXCEPT ![id] = <<>>] /\ notices' = [notices EXCEPT ![id] = <<>>]
  /\ keys' = Without(keys, id)
  /\ activeId' = IF activeId # id THEN activeId
                 ELSE IF keys' = <<>> THEN 0 ELSE Head(keys')
  /\ UNCHANGED toMain
appendInstanceLog(id, n) ==
  /\ Put(id, Append(logs[id], n), notices[id])
  /\ UNCHANGED <<shown, activeId, toMain>>
(* What is of no instance goes to the tab that is shown now.               *)
addServiceLogLegacy ==
  /\ IF activeId = 0 THEN UNCHANGED <<logs, notices, keys>>
     ELSE Put(activeId, logs[activeId], Append(notices[activeId], Len(logs[activeId])))
  /\ UNCHANGED <<shown, activeId, toMain>>
Listed(ids) ==
  IF ids = <<>> THEN UNCHANGED <<shown, activeId, logs, notices, keys, toMain>>
  ELSE /\ shown' = ids /\ activeId' = Head(ids)
       /\ toMain' = toMain \o [i \in DOMAIN ids |->
                                [type |-> "getLogs", id |-> ids[i], asker |-> reloads]]
       /\ UNCHANGED <<logs, notices, keys>>
(* Mutant: it is added to what the page had.                               *)
LoggedAppends(id, ls) ==
  /\ Put(id, logs[id] \o ls, notices[id])
  /\ UNCHANGED <<shown, activeId, toMain>>
(* The snapshot takes the place of what the page had, notices too.         *)
Logged(id, ls) ==
  /\ Put(id, ls, <<>>)
  /\ UNCHANGED <<shown, activeId, toMain>>

Receive ==
  /\ page = "shown" /\ toPage # <<>>
  /\ LET m == Head(toPage)
     IN  \/ m.type = "created" /\ InstanceCreated(m.id)
         \/ m.type = "removed" /\ InstanceRemoved(m.id)
         \/ m.type = "line" /\ appendInstanceLog(m.id, m.line)
         \/ m.type = "notice" /\ addServiceLogLegacy
         \/ m.type = "list" /\ Listed(m.ids)
         \/ m.type = "logs" /\ Logged(m.id, m.lines)
  /\ toPage' = Tail(toPage)
  /\ UNCHANGED <<mainVars, lines, page, bounds>>

(* The user picks a tab, closes one (after the confirmation), adds one. *)
Click ==
  /\ page = "shown" /\ clicks < MaxClicks /\ clicks' = clicks + 1
  /\ \/ \E id \in ToSet(shown) :
          activeId' = id /\ Ask([type |-> "setActive", id |-> id])
     \/ \E id \in ToSet(shown) :
          Ask([type |-> "remove", id |-> id]) /\ UNCHANGED activeId
     \/ Ask([type |-> "create"]) /\ UNCHANGED activeId
  /\ UNCHANGED <<mainVars, lines, toPage, page, shown, logs, notices, keys, reloads, noticed>>

(* handleShortcut: the command's own line; what the command does in the    *)
(* main process is a Line or a Notice.                                     *)
Shortcut ==
  /\ page = "shown" /\ noticed < MaxNotices /\ noticed' = noticed + 1
  /\ addServiceLogLegacy
  /\ UNCHANGED <<mainVars, lines, toPage, page, clicks, reloads>>

TabsNext ==
  \/ Created \/ Line \/ Notice \/ HandleInstance
  \/ Mount \/ Reload \/ Receive \/ Click \/ Shortcut
TabsSpec == TabsInit /\ [][TabsNext]_rendererVars

-------------------------------------------------------------------------------
(* Properties *)

Settled == page = "shown" /\ toPage = <<>> /\ toMain = <<>>

TabsTypeOK ==
  /\ IsInjective(tabRows) /\ IsInjective(shown) /\ activeTab \in Ports \cup {0}
  /\ activeTab # 0 => activeTab \in ToSet(tabRows)

(* When nothing is on its way, the page shows the instances there are, and *)
(* of an instance whose id had no other life it has, among the notices,    *)
(* every line of the log once, in order: events, snapshots, notices and    *)
(* reloads neither lose a line of the log nor show it twice.               *)
EveryLineOnce ==
  Settled =>
    /\ ToSet(shown) = ToSet(tabRows)
    /\ \A id \in ToSet(tabRows) : lives[id] = 1 => logs[id] = log[id]

(* What the tab of an instance that stays has shown stays in it, notices   *)
(* too: the log of the main process takes their place (App.tsx:151-155).   *)
NoticesStay ==
  [][\A id \in ToSet(shown) \cap ToSet(shown') : Len(notices[id]) <= Len(notices'[id])]_rendererVars

(* The tab the page shows is one of its tabs. *)
ActiveIsShown == Settled => activeId = 0 \/ activeId \in ToSet(shown)

(* The page and the main process take the same tab for the active one. *)
ActivesAgree == Settled => activeId = activeTab
===============================================================================

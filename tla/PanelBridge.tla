------------------------------- MODULE PanelBridge -----------------------------
(***************************************************************************)
(* The panels of modules in Electron's window.  The renderer's ModulePanel *)
(* asks for a panel when it is mounted and lets go of it when unmounted;   *)
(* the handlers of electron/ipc/modules-panels-register.ts wait for the    *)
(* daemon's client and for its answer in between; panel-bridge.ts attaches *)
(* and removes the views.  A client that is published after a disconnect   *)
(* brings a bridge of its own (electron/ipc/index.ts).                     *)
(***************************************************************************)
EXTENDS Naturals, Sequences

CONSTANTS
    Panels,        \* pairs <moduleId>:<panelId>
    MaxSwitches,   \* bound on switches of the renderer's tab
    MaxBridges     \* bound on clients published

ASSUME PanelAssumption == MaxSwitches \in Nat /\ MaxBridges \in Nat

VARIABLES
    mounted,     \* the panel React has mounted, or "none"
    switches,    \* switches so far
    inbox,       \* what the renderer has invoked and main has not begun
    pending,     \* activations that wait, in the order they began
    hiding,      \* a deactivation waits for the client
    bridges,     \* bridges installed so far
    depsBridge,  \* the one in deps, 0 while there is no client
    views,       \* panels with a view, by bridge
    activeView,  \* activeKey of each bridge
    attached,    \* views that are children of the window
    upset        \* history: a handler was refused or timed out

panelVars == <<mounted, switches, inbox, pending, hiding, bridges, depsBridge, views, activeView,
               attached, upset>>

Bridges == 1..MaxBridges
PanelOrNone == Panels \cup {"none"}
Call(what, p) == [what |-> what, panel |-> p]

PanelTypeOK ==
    /\ mounted \in PanelOrNone /\ switches \in 0..MaxSwitches
    /\ bridges \in 0..MaxBridges /\ depsBridge \in 0..bridges
    /\ \A i \in DOMAIN pending :
          pending[i].panel \in Panels /\ pending[i].bridge \in 0..bridges
    /\ hiding \in BOOLEAN
    /\ views \in [Bridges -> SUBSET Panels] /\ activeView \in [Bridges -> PanelOrNone]
    /\ attached \subseteq Bridges \X Panels /\ upset \in BOOLEAN

PanelInit ==
    /\ mounted = "none" /\ switches = 0 /\ inbox = <<>> /\ pending = <<>> /\ hiding = FALSE
    /\ bridges = 0 /\ depsBridge = 0
    /\ views = [b \in Bridges |-> {}] /\ activeView = [b \in Bridges |-> "none"]
    /\ attached = {} /\ upset = FALSE

-----------------------------------------------------------------------------
(* The cleanup of the panel that leaves runs before the effect of the one  *)
(* that comes.                                                             *)
SwitchTab(p) ==
    /\ p # mounted /\ switches < MaxSwitches /\ switches' = switches + 1
    /\ mounted' = p
    /\ inbox' = inbox \o (IF mounted = "none" THEN <<>> ELSE <<Call("deactivate", mounted)>>)
                      \o (IF p = "none" THEN <<>> ELSE <<Call("activate", p)>>)
    /\ UNCHANGED <<pending, hiding, bridges, depsBridge, views, activeView, attached, upset>>

Hidden(b, ps) ==
    IF b # 0 /\ activeView[b] \in ps
      THEN /\ attached' = attached \ {<<b, activeView[b]>>}
           /\ activeView' = [activeView EXCEPT ![b] = "none"]
      ELSE UNCHANGED <<attached, activeView>>

(* A handler runs until it has to wait: for the client, or for the answer  *)
(* to modules/resolve-panel.                                               *)
Handle ==
    /\ inbox # <<>> /\ inbox' = Tail(inbox)
    /\ LET call == Head(inbox) IN
         \/ /\ call.what = "deactivate"
            /\ hiding' = (hiding \/ depsBridge = 0)
            /\ Hidden(depsBridge, {call.panel}) /\ UNCHANGED pending
         \/ /\ call.what = "activate"
            /\ pending' = Append(pending, [panel |-> call.panel, bridge |-> depsBridge])
            /\ UNCHANGED <<hiding, attached, activeView>>
    /\ UNCHANGED <<mounted, switches, bridges, depsBridge, views, upset>>

(* serviceBus.modulesClient: a bridge is installed, and who waited goes on *)
(* with it.  Nothing is attached to it yet, so those that hide find        *)
(* nothing to hide.                                                        *)
ClientPublished ==
    /\ depsBridge = 0 /\ bridges < MaxBridges
    /\ bridges' = bridges + 1 /\ depsBridge' = bridges + 1
    /\ pending' = [i \in DOMAIN pending |-> [pending[i] EXCEPT !.bridge = bridges']]
    /\ hiding' = FALSE
    /\ UNCHANGED <<mounted, switches, inbox, views, activeView, attached, upset>>

(* The daemon is gone: what it was asked is rejected.                      *)
ClientCleared ==
    /\ depsBridge # 0 /\ depsBridge' = 0
    /\ pending' = <<>> /\ upset' = TRUE
    /\ UNCHANGED <<mounted, switches, inbox, hiding, bridges, views, activeView, attached>>

(* No client within 30 s, or an abort: everybody who waits is rejected.    *)
AwaitEnds ==
    /\ depsBridge = 0 /\ (pending # <<>> \/ hiding)
    /\ pending' = <<>> /\ hiding' = FALSE /\ upset' = TRUE
    /\ UNCHANGED <<mounted, switches, inbox, bridges, depsBridge, views, activeView, attached>>

NotFound ==
    /\ depsBridge # 0 /\ pending # <<>>
    /\ pending' = Tail(pending) /\ upset' = TRUE
    /\ UNCHANGED <<mounted, switches, inbox, hiding, bridges, depsBridge, views, activeView, attached>>

(* activatePanel(): register() and show(), in the bridge of the deps that  *)
(* the handler was given.  Answers come in the order of the questions.     *)
Resolved ==
    /\ depsBridge # 0 /\ pending # <<>> /\ pending' = Tail(pending)
    /\ LET b == Head(pending).bridge
           p == Head(pending).panel
       IN /\ views' = [views EXCEPT ![b] = @ \cup {p}]
          /\ attached' = (attached \ {<<b, activeView[b]>>}) \cup {<<b, p>>}
          /\ activeView' = [activeView EXCEPT ![b] = p]
    /\ UNCHANGED <<mounted, switches, inbox, hiding, bridges, depsBridge, upset>>

PanelNext ==
    \/ \E p \in PanelOrNone : SwitchTab(p)
    \/ Handle \/ ClientPublished \/ ClientCleared \/ AwaitEnds \/ NotFound \/ Resolved
PanelSpec == PanelInit /\ [][PanelNext]_panelVars

-----------------------------------------------------------------------------
AllAnswered == inbox = <<>> /\ pending = <<>> /\ ~hiding

(* However fast tabs are switched, once every request is answered the      *)
(* panel that is mounted is the one the window shows, over no other one,   *)
(* while the daemon answers them (panel-bridge.ts:196-212,                 *)
(* modules-panels-register.ts:119-165).                                    *)
MountedIsShown ==
    AllAnswered /\ bridges = 1 /\ ~upset /\ mounted # "none"
        => attached = {<<1, mounted>>}

(* "Only one panel attached to the window's contentView at a time -        *)
(* switching panels removes the previous view before adding the next"      *)
(* (panel-bridge.ts:14-16).                                                *)
OnePanelAttached == \A v, w \in attached : v = w

(* "unmount -> invoke('modules:deactivate-panel', ...)"                    *)
(* (ModulePanel.tsx:18): what is not mounted is not shown, once every      *)
(* request is answered.                                                    *)
UnmountedIsHidden ==
    AllAnswered /\ mounted = "none" => attached = {}
==============================================================================

------------------------------ MODULE MCFrontends ------------------------------
(* Instances for TLC of what stands between the user and the daemon: the   *)
(* MCP server, the Electron main process, its panels, the two wizards, the *)
(* tabs of the renderer, the host calls of panels and modules, their       *)
(* configuration, and the marketplace.  Each behaviour is one of one of    *)
(* them; the others stay as they begin.                                    *)
EXTENDS McpServer, ElectronMain, PanelBridge, ProfileSetup, RendererTabs, HostCalls, ModuleConfig,
        Marketplace

VARIABLE frontend

MCInit ==
    /\ frontend \in {"mcp", "electron", "panels", "profiles", "tabs", "host", "config", "market"}
    /\ McpInit /\ ElectronInit /\ PanelInit /\ Init /\ TabsInit /\ HostInit /\ ConfigInit
    /\ MarketInit
    /\ declares = [d \in Documents |-> IF d = 1 THEN {} ELSE Permissions]
    /\ lists = Documents /\ published = {1} /\ pin \in {0, 1} /\ (enrolled # 0 => acked /\ pin = 0)
    /\ frontend # "mcp" => rows = {}
    /\ frontend # "host" => \A c, e \in Calls : owner[c] = owner[e] /\ method[c] = "list"
    /\ frontend # "host" => owner[1] = CHOOSE m \in Modules : TRUE
    /\ frontend # "config" => which = "settings"
    /\ frontend # "market" => pin = 0 /\ enrolled = 0 /\ ~acked

(* One tool is called.                                                     *)
MCMcp ==
    /\ frontend = "mcp" /\ McpNext /\ (step' > step => tool = "none" \/ step > 0)
    /\ UNCHANGED <<frontend, electronVars, panelVars, vars, rendererVars, hostVars, configVars,
                   marketVars>>
(* Profiles are alike: the first opening takes the one it begins with.  It *)
(* is the window's load, and the last one a tab.                           *)
MCElectron ==
    /\ frontend = "electron" /\ ElectronNext /\ profile'[1] = profile[1]
    /\ phase'[1] # "none" => kind'[1] = "load"
    /\ kind'[MaxOpens] = "create"
    /\ UNCHANGED <<frontend, mcpVars, panelVars, vars, rendererVars, hostVars, configVars,
                   marketVars>>
MCPanels ==
    /\ frontend = "panels" /\ PanelNext
    /\ UNCHANGED <<frontend, mcpVars, electronVars, vars, rendererVars, hostVars, configVars,
                   marketVars>>
MCProfiles ==
    /\ frontend = "profiles" /\ Next
    /\ UNCHANGED <<frontend, mcpVars, electronVars, panelVars, rendererVars, hostVars, configVars,
                   marketVars>>
(* A notice takes the place of the second click.                           *)
MCTabs ==
    /\ frontend = "tabs" /\ TabsNext /\ clicks' + noticed' <= MaxClicks
    /\ UNCHANGED <<frontend, mcpVars, electronVars, panelVars, vars, hostVars, configVars,
                   marketVars>>
MCHost ==
    /\ frontend = "host" /\ HostNext
    /\ UNCHANGED <<frontend, mcpVars, electronVars, panelVars, vars, rendererVars, configVars,
                   marketVars>>
MCConfig ==
    /\ frontend = "config" /\ ConfigNext
    /\ UNCHANGED <<frontend, mcpVars, electronVars, panelVars, vars, rendererVars, hostVars,
                   marketVars>>
MCMarket ==
    /\ frontend = "market" /\ MarketNext
    /\ UNCHANGED <<frontend, mcpVars, electronVars, panelVars, vars, rendererVars, hostVars,
                   configVars>>
MCNext ==
    \/ MCMcp \/ MCElectron \/ MCPanels \/ MCProfiles \/ MCTabs \/ MCHost \/ MCConfig \/ MCMarket

MCSpec == MCInit /\ [][MCNext]_<<frontend, mcpVars, electronVars, panelVars, vars, rendererVars,
                                hostVars, configVars, marketVars>>

(* What main believes of a panel is so: the one it shows is mounted, and   *)
(* the one it takes for bound may call.                                    *)
PanelsAreAsBelieved == MountedIsShown /\ BoundIsBound

(* A list that is read again on each of the daemon's events, the tools of  *)
(* the MCP server and the shelves of the marketplace, shows at rest what   *)
(* the last event was about (server.ts:206, Marketplace.tsx:134).          *)
ListsFollowEvents == OffersFollowEvents /\ ShelvesFollowEvents
==============================================================================

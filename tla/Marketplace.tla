----------------------------- MODULE Marketplace -------------------------------
(***************************************************************************)
(* The marketplace: the curated list of modules, fetched, pinned and       *)
(* cached (src/modules/marketplace/registry.ts), the renderer's view of    *)
(* it with the consent dialog, the command line, and the daemon's          *)
(* modules/install and modules/uninstall behind both.                      *)
(*                                                                         *)
(* The list is about one module.  A document is a version of the list; it  *)
(* stands for the version of the module its entry names, too.  ModuleCatalog*)
(* has the steps of an installation in detail, for many modules.           *)
(***************************************************************************)
EXTENDS Integers, Sequences

CONSTANTS
  Permissions,
  Documents,     \* documents there may be
  MaxOrders,     \* bound: actions confirmed in the view
  MaxCommands    \* bound: actions of the command line and of agents

ASSUME DocumentsAssumption == Documents \subseteq Nat \ {0}

VARIABLES
  published,    \* documents the default URL has served so far
  pin,          \* EXPECTED_MODULES_JSON_SHA256: a document, or 0 for no pin
  declares,     \* the permissions the entry declares in each document
  lists,        \* documents that have an entry of the module
  fileCache,    \* modules-registry-cache.json; doc is 0 when it is missing, torn or old
  acked,        \* the acknowledgment of third-party modules is on disk
  onDisk,       \* the module's directory: the document it is of, empty or absent
  enrolled,     \* the daemon's registry: the document of what is registered, or 0
  jobs,         \* the install or uninstall of the view and of the others
  listings,     \* marketplace/list requests that wait for the network
  toHost, toView, \* the view's socket: requests and replies, in order
  alerts,       \* module events on their way to the view
  rowsShown,    \* view: what modules/list said of the module (0: not there)
  shelf,        \* view: the entries, with `installed'
  consent, needsAck, \* the consent dialog: its document (0: closed), its question
  pendingAction,
  inTime,       \* the reply to the view's action is still waited for
  orders, commands,
  strayed,      \* history: a document was taken in spite of the pin or the URL asked
  agreed,       \* history: the permissions the dialog showed when it was confirmed
  terms,        \* history: who had the module enrolled, and what was agreed
  overlapped,   \* history: two actions were at the directory at a time
  announced     \* history: enrolled, at the last event

registryVars == <<published, pin, declares, lists, fileCache>>
viewVars == <<rowsShown, shelf, consent, needsAck, pendingAction>>
countVars == <<orders, commands>>
marketVars == <<registryVars, acked, onDisk, enrolled, jobs, listings, toHost, toView, alerts,
                viewVars, inTime, countVars, strayed, agreed, terms, overlapped, announced>>

Absent == 0
EmptyDirectory == -1
NoJob == [phase |-> "idle", accepted |-> {}, ack |-> FALSE, doc |-> 0]
Actors == {"view", "other"}

MarketInit ==
  /\ published \in {{d} : d \in Documents} /\ pin \in Documents \cup {0}
  /\ declares \in [Documents -> SUBSET Permissions] /\ lists \in SUBSET Documents
  /\ fileCache = [url |-> "default", doc |-> 0]
  /\ acked \in BOOLEAN
  /\ enrolled \in published \cup {0} /\ onDisk = enrolled
  /\ jobs = [a \in Actors |-> NoJob]
  /\ listings = 0 /\ toHost = <<"modules", "market">> /\ toView = <<>> /\ alerts = 0
  /\ rowsShown = 0 /\ shelf = [doc |-> 0, installed |-> FALSE, error |-> FALSE]
  /\ consent = 0 /\ needsAck = "unknown" /\ pendingAction = FALSE /\ inTime = FALSE
  /\ orders = 0 /\ commands = 0
  /\ strayed = FALSE /\ agreed = {}
  /\ terms = [by |-> "boot", agreed |-> {}] /\ overlapped = FALSE /\ announced = enrolled

-------------------------------------------------------------------------------
(* The list: RegistryFetcher.fetch() is a hit of the cache, at once, or    *)
(* an answer of the network, later.  What does not validate is no answer.  *)

Passes(d, p) == p \in {0, d}

(* Mutant: what is in the cache has passed the pin.                        *)
HitUnpinned(url, p) == fileCache.doc # 0 /\ fileCache.url = url
Hit(url, p) == fileCache.doc # 0 /\ fileCache.url = url /\ Passes(fileCache.doc, p)

(* The server may answer with a version that has been replaced since.      *)
Served(url) == IF url = "default" THEN published ELSE Documents
Network(url, p) == {d \in Served(url) : Passes(d, p)}
WriteCache(url, d) == fileCache' = [url |-> url, doc |-> d]
Takes(d, url, p) ==
  strayed' = (strayed \/ ~Passes(d, p) \/ (url = "default" /\ d \notin published))

Publishes ==
  /\ \E d \in Documents \ published : published' = published \cup {d}
  /\ UNCHANGED <<pin, declares, lists, fileCache, acked, onDisk, enrolled, jobs, listings, toHost,
                 toView, alerts, viewVars, inTime, countVars, strayed, agreed, terms, overlapped,
                 announced>>

(* The cache is every process's of the user: an hour passes, it is torn,   *)
(* or written by a daemon with another pin, or by a request that this      *)
(* daemon's caller no longer waits for.                                    *)
CacheChanges ==
  /\ \/ fileCache.doc # 0 /\ fileCache' = [url |-> "default", doc |-> 0]
     \/ \E d \in published : WriteCache("default", d)
  /\ UNCHANGED <<published, pin, declares, lists, acked, onDisk, enrolled, jobs, listings, toHost,
                 toView, alerts, viewVars, inTime, countVars, strayed, agreed, terms, overlapped,
                 announced>>

-------------------------------------------------------------------------------
(* The daemon *)

Replies(m) == toView' = Append(toView, m)
(* An event goes to the view on a socket of its own.                       *)
Announces == announced' = enrolled' /\ alerts' = alerts + 1
Unannounced == UNCHANGED <<announced, alerts>>

Entries(d) == [type |-> "market", doc |-> d, installed |-> enrolled # 0]

ListModules ==
  /\ toHost # <<>> /\ Head(toHost) = "modules" /\ toHost' = Tail(toHost)
  /\ Replies([type |-> "modules", doc |-> enrolled])
  /\ UNCHANGED <<registryVars, acked, onDisk, enrolled, jobs, listings, alerts, viewVars, inTime,
                 countVars, strayed, agreed, terms, overlapped, announced>>

marketplaceList ==
  /\ toHost # <<>> /\ Head(toHost) = "market" /\ toHost' = Tail(toHost)
  /\ IF Hit("default", pin)
       THEN Replies(Entries(fileCache.doc)) /\ Takes(fileCache.doc, "default", pin)
            /\ UNCHANGED listings
       ELSE listings' = listings + 1 /\ UNCHANGED <<toView, strayed>>
  /\ UNCHANGED <<registryVars, acked, onDisk, enrolled, jobs, alerts, viewVars, inTime, countVars,
                 agreed, terms, overlapped, announced>>

(* What is installed is looked up when the list is there.                  *)
ListFetched ==
  /\ listings > 0 /\ listings' = listings - 1
  /\ \E d \in Network("default", pin) :
       WriteCache("default", d) /\ Takes(d, "default", pin) /\ Replies(Entries(d))
  /\ UNCHANGED <<published, pin, declares, lists, acked, onDisk, enrolled, jobs, toHost, alerts,
                 viewVars, inTime, countVars, agreed, terms, overlapped, announced>>

(* No answer, a wrong digest, no valid document, or none within 5 s.       *)
ListFails ==
  /\ listings > 0 /\ listings' = listings - 1
  /\ Replies([type |-> "error"])
  /\ UNCHANGED <<registryVars, acked, onDisk, enrolled, jobs, toHost, alerts, viewVars, inTime,
                 countVars, strayed, agreed, terms, overlapped, announced>>

Goes(a, to) == jobs' = [jobs EXCEPT ![a].phase = to]
Ends(a) ==
  /\ jobs' = [jobs EXCEPT ![a] = NoJob]
  /\ IF a = "view" /\ inTime THEN Replies([type |-> "done"]) ELSE UNCHANGED toView

(* The entry, then the gates of installModule() that come before anything  *)
(* is awaited or written.                                                  *)
Admitted(a, d) ==
  /\ d \in lists /\ declares[d] \subseteq jobs[a].accepted
  /\ jobs[a].ack \/ acked
  /\ onDisk = Absent
AtDirectory(a) == jobs[a].phase \in {"downloading", "extracting", "reifying", "uninstalling"}
Enters(a) == overlapped' = (overlapped \/ \E b \in Actors \ {a} : AtDirectory(b))
Gate(a, d) ==
  IF Admitted(a, d)
    THEN /\ jobs' = [jobs EXCEPT ![a] = [NoJob EXCEPT !.phase = "downloading", !.doc = d]]
         /\ Enters(a) /\ UNCHANGED toView
    ELSE Ends(a) /\ UNCHANGED overlapped

InstallAction(a) ==
  /\ jobs[a].phase = "install"
  /\ IF Hit("default", pin)
       THEN Gate(a, fileCache.doc) /\ Takes(fileCache.doc, "default", pin)
       ELSE Goes(a, "fetching") /\ UNCHANGED <<toView, overlapped, strayed>>
  /\ UNCHANGED <<registryVars, acked, onDisk, enrolled, listings, toHost, alerts, viewVars, inTime,
                 countVars, agreed, terms, announced>>

InstallFetched(a) ==
  /\ jobs[a].phase = "fetching"
  /\ \E d \in Network("default", pin) :
       WriteCache("default", d) /\ Takes(d, "default", pin) /\ Gate(a, d)
  /\ UNCHANGED <<published, pin, declares, lists, acked, onDisk, enrolled, listings, toHost, alerts,
                 viewVars, inTime, countVars, agreed, terms, announced>>

(* The list, or the tarball, does not come or has another digest.          *)
InstallRefused(a) ==
  /\ jobs[a].phase \in {"fetching", "downloading"} /\ Ends(a)
  /\ UNCHANGED <<registryVars, acked, onDisk, enrolled, listings, toHost, alerts, viewVars, inTime,
                 countVars, strayed, agreed, terms, overlapped, announced>>

(* The directory is made, then filled, then given its dependencies.        *)
Advances(a) ==
  /\ \/ /\ jobs[a].phase = "downloading" /\ Goes(a, "extracting")
        /\ onDisk' = IF onDisk = Absent THEN EmptyDirectory ELSE onDisk
     \/ /\ jobs[a].phase = "extracting" /\ Goes(a, "reifying")
        /\ onDisk' = jobs[a].doc
  /\ UNCHANGED <<registryVars, acked, enrolled, listings, toHost, toView, alerts, viewVars, inTime,
                 countVars, strayed, agreed, terms, overlapped, announced>>

RollsBack(a) ==
  /\ jobs[a].phase \in {"extracting", "reifying"} /\ Ends(a)
  /\ onDisk' = Absent
  /\ UNCHANGED <<registryVars, acked, enrolled, listings, toHost, alerts, viewVars, inTime,
                 countVars, strayed, agreed, terms, overlapped, announced>>

(* The manifest that is there is registered, unless one is already.        *)
Enrols(a) ==
  /\ jobs[a].phase = "reifying" /\ onDisk \in Documents /\ Ends(a)
  /\ IF enrolled # 0 THEN UNCHANGED <<enrolled, terms>> /\ Unannounced
     ELSE /\ enrolled' = onDisk /\ Announces
          /\ terms' = [by |-> a, agreed |-> IF a = "view" THEN agreed ELSE {}]
  /\ UNCHANGED <<registryVars, acked, onDisk, listings, toHost, viewVars, inTime, countVars,
                 strayed, agreed, overlapped>>

UninstallAction(a) ==
  /\ jobs[a].phase = "uninstall"
  /\ IF onDisk = Absent THEN Ends(a) /\ UNCHANGED overlapped
     ELSE Goes(a, "uninstalling") /\ Enters(a) /\ UNCHANGED toView
  /\ UNCHANGED <<registryVars, acked, onDisk, enrolled, listings, toHost, alerts, viewVars, inTime,
                 countVars, strayed, agreed, terms, announced>>

(* The manifest goes first; when the files do not, nobody is told.         *)
UninstallEnds(a) ==
  /\ jobs[a].phase = "uninstalling" /\ Ends(a)
  /\ enrolled' = 0
  /\ \/ onDisk' = Absent /\ Announces
     \/ UNCHANGED onDisk /\ Unannounced
  /\ UNCHANGED <<registryVars, acked, listings, toHost, viewVars, inTime, countVars, strayed,
                 agreed, terms, overlapped>>

-------------------------------------------------------------------------------
(* The others *)

(* rn-dev module install: a fetch with its own URL and pin into the same   *)
(* cache, then modules/install of the daemon, which fetches once more.     *)
CommandInstalls(url, p) ==
  /\ jobs["other"] = NoJob /\ commands < MaxCommands /\ commands' = commands + 1
  /\ \E d \in Network(url, p) \cup (IF Hit(url, p) THEN {fileCache.doc} ELSE {}) :
       /\ Takes(d, url, p)
       /\ IF Hit(url, p) /\ fileCache.doc = d THEN UNCHANGED fileCache ELSE WriteCache(url, d)
       /\ d \in lists
       /\ jobs' = [jobs EXCEPT !["other"] =
                     [phase |-> "install", accepted |-> declares[d], ack |-> TRUE, doc |-> 0]]
  /\ UNCHANGED <<published, pin, declares, lists, acked, onDisk, enrolled, listings, toHost, toView,
                 alerts, viewVars, inTime, orders, agreed, terms, overlapped, announced>>

(* An agent, or the command line, asks the daemon. *)
OtherAsks ==
  /\ jobs["other"] = NoJob /\ commands < MaxCommands /\ commands' = commands + 1
  /\ \/ jobs' = [jobs EXCEPT !["other"].phase = "uninstall"]
     \/ \E ps \in SUBSET Permissions, ack \in BOOLEAN :
          jobs' = [jobs EXCEPT !["other"] =
                     [phase |-> "install", accepted |-> ps, ack |-> ack, doc |-> 0]]
  /\ UNCHANGED <<registryVars, acked, onDisk, enrolled, listings, toHost, toView, alerts, viewVars,
                 inTime, orders, strayed, agreed, terms, overlapped, announced>>

-------------------------------------------------------------------------------
(* The view *)

(* Mutant: no refresh while another one is under way.                      *)
refreshOnce == toHost' = IF toHost # <<>> \/ listings > 0 THEN toHost
                         ELSE toHost \o <<"modules", "market">>
refresh == toHost' = toHost \o <<"modules", "market">>

ViewHears ==
  /\ alerts > 0 /\ alerts' = alerts - 1 /\ refresh
  /\ UNCHANGED <<registryVars, acked, onDisk, enrolled, jobs, listings, toView, viewVars, inTime,
                 countVars, strayed, agreed, terms, overlapped, announced>>

ViewReads ==
  /\ toView # <<>> /\ toView' = Tail(toView)
  /\ LET m == Head(toView)
     IN  \/ /\ m.type = "modules" /\ rowsShown' = m.doc
            /\ UNCHANGED <<shelf, pendingAction, inTime, toHost>>
         \/ /\ m.type = "market"
            /\ shelf' = [doc |-> m.doc, installed |-> m.installed, error |-> FALSE]
            /\ UNCHANGED <<rowsShown, pendingAction, inTime, toHost>>
         \/ /\ m.type = "error" /\ shelf' = [shelf EXCEPT !.error = TRUE]
            /\ UNCHANGED <<rowsShown, pendingAction, inTime, toHost>>
         \/ /\ m.type = "done" /\ pendingAction' = FALSE /\ inTime' = FALSE /\ refresh
            /\ UNCHANGED <<rowsShown, shelf>>
  /\ UNCHANGED <<registryVars, acked, onDisk, enrolled, jobs, listings, alerts, consent, needsAck,
                 countVars, strayed, agreed, terms, overlapped, announced>>

ClickInstall ==
  /\ orders < MaxOrders /\ consent = 0 /\ ~pendingAction
  /\ shelf.doc \in lists /\ ~shelf.installed /\ ~shelf.error
  /\ consent' = shelf.doc
  /\ UNCHANGED <<registryVars, acked, onDisk, enrolled, jobs, listings, toHost, toView, alerts,
                 rowsShown, shelf, needsAck, pendingAction, inTime, countVars, strayed, agreed,
                 terms, overlapped, announced>>

(* The dialog asks whether the acknowledgment is there; when that fails it *)
(* takes it for missing.                                                   *)
DialogLearns ==
  /\ consent # 0 /\ needsAck = "unknown"
  /\ needsAck' \in {"yes", IF acked THEN "no" ELSE "yes"}
  /\ UNCHANGED <<registryVars, acked, onDisk, enrolled, jobs, listings, toHost, toView, alerts,
                 rowsShown, shelf, consent, pendingAction, inTime, countVars, strayed, agreed,
                 terms, overlapped, announced>>

DialogCancelled ==
  /\ consent # 0 /\ consent' = 0 /\ needsAck' = "unknown"
  /\ UNCHANGED <<registryVars, acked, onDisk, enrolled, jobs, listings, toHost, toView, alerts,
                 rowsShown, shelf, pendingAction, inTime, countVars, strayed, agreed, terms,
                 overlapped, announced>>

Orders(job) ==
  /\ orders < MaxOrders /\ orders' = orders + 1 /\ jobs["view"] = NoJob
  /\ jobs' = [jobs EXCEPT !["view"] = job]
  /\ pendingAction' = TRUE /\ inTime' = TRUE

(* With the boxes ticked that the dialog shows.  The acknowledgment is     *)
(* sent before the installation, and main writes it as it reads it.        *)
ConfirmInstall ==
  /\ consent # 0 /\ needsAck # "unknown" /\ consent' = 0 /\ needsAck' = "unknown"
  /\ Orders([phase |-> "install", accepted |-> declares[consent], ack |-> TRUE, doc |-> 0])
  /\ acked' = (acked \/ needsAck = "yes") /\ agreed' = declares[consent]
  /\ UNCHANGED <<registryVars, onDisk, enrolled, listings, toHost, toView, alerts, rowsShown, shelf,
                 commands, strayed, terms, overlapped, announced>>

ConfirmUninstall ==
  /\ rowsShown # 0 /\ ~pendingAction /\ consent = 0
  /\ Orders([NoJob EXCEPT !.phase = "uninstall"])
  /\ UNCHANGED <<registryVars, acked, onDisk, enrolled, listings, toHost, toView, alerts, rowsShown,
                 shelf, consent, needsAck, commands, strayed, agreed, terms, overlapped, announced>>

(* send() gives up after 5 s.  The daemon goes on; the view catches        *)
(* nothing, so that the action stays pending.                              *)
OrderTimesOut ==
  /\ jobs["view"] # NoJob /\ inTime /\ inTime' = FALSE
  /\ UNCHANGED <<registryVars, acked, onDisk, enrolled, jobs, listings, toHost, toView, alerts,
                 viewVars, countVars, strayed, agreed, terms, overlapped, announced>>

MarketNext ==
  \/ Publishes \/ CacheChanges
  \/ ListModules \/ marketplaceList \/ ListFetched \/ ListFails
  \/ \E a \in Actors :
       \/ InstallAction(a) \/ InstallFetched(a) \/ InstallRefused(a) \/ Advances(a)
       \/ RollsBack(a) \/ Enrols(a) \/ UninstallAction(a) \/ UninstallEnds(a)
  \/ \E url \in {"default", "given"}, p \in Documents \cup {0} : CommandInstalls(url, p)
  \/ OtherAsks
  \/ ViewHears \/ ViewReads \/ ClickInstall \/ DialogLearns \/ DialogCancelled
  \/ ConfirmInstall \/ ConfirmUninstall \/ OrderTimesOut
MarketSpec == MarketInit /\ [][MarketNext]_marketVars

-------------------------------------------------------------------------------
(* Properties *)

MarketTypeOK ==
  /\ published \subseteq Documents /\ fileCache.doc \in Documents \cup {0}
  /\ onDisk \in Documents \cup {Absent, EmptyDirectory}
  /\ enrolled \in Documents \cup {0} /\ rowsShown \in Documents \cup {0}

(* Every document that is taken passes the pin of whoever takes it and     *)
(* comes from the URL it asked, whoever wrote the cache; and what the view *)
(* had installed declares nothing but what its user was shown and agreed   *)
(* to, with the acknowledgment on disk, though the list is fetched again   *)
(* after the consent.  Two actions at one directory at a time are left     *)
(* out: the manifest that is there may then be the other one's.            *)
ConsentGoverns ==
  /\ ~strayed
  /\ enrolled # 0 /\ terms.by = "view" /\ ~overlapped =>
       declares[enrolled] \subseteq terms.agreed /\ acked

ViewRests == toHost = <<>> /\ toView = <<>> /\ listings = 0 /\ alerts = 0

(* At rest the view shows what was registered at the last event, or what   *)
(* is now, in its table and, unless it shows an error, in the entries.     *)
(* An uninstall whose files remain changes the registry without an event.  *)
ShelvesFollowEvents ==
  ViewRests =>
    /\ rowsShown \in {announced, enrolled}
    /\ ~shelf.error => shelf.installed \in {announced # 0, enrolled # 0}

(* At rest, with no action under way in the daemon, the view waits for     *)
(* none: its button can be pressed.                                        *)
PendingEnds == ViewRests /\ jobs["view"] = NoJob => ~pendingAction
===============================================================================

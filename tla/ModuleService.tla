----------------------------- MODULE ModuleService -----------------------------
(***************************************************************************)
(* What the users of a module are promised: at most one subprocess serves  *)
(* them, it is replaced only when it is down, and it is taken out of       *)
(* service only because nobody uses it or because somebody asked for that. *)
(*                                                                         *)
(* It is the abstract specification of ModuleHost, and says nothing of     *)
(* handshakes, entries, timers and kills.                                  *)
(***************************************************************************)
CONSTANTS
    Users,
    Subprocesses    \* numbered from 1

VARIABLES
    serving,    \* the number of the subprocess in service, 0 when there is none
    running,    \* it runs
    users,      \* who is counted to use it
    ending      \* why it is being taken out of service: "no", "unused" or "asked"

serviceVars == <<serving, running, users, ending>>

OutOfService == serving = 0 /\ running = FALSE /\ users = {} /\ ending = "no"

(* For the one who asked first; it may die at once.                        *)
EntersService(n, c) ==
    /\ serving = 0 /\ serving' = n
    /\ running' \in BOOLEAN /\ users' = {c} /\ ending' = "no"

(* Nobody looks whether it runs, or is being taken out of service.         *)
Joins(c) ==
    /\ serving # 0 /\ users' = users \cup {c}
    /\ UNCHANGED <<serving, running, ending>>

(* The last to leave may take it out of service, or leave it to a timer.   *)
Leaves(c) ==
    /\ serving # 0 /\ users' = users \ {c}
    /\ ending' \in {ending} \cup {why \in {"unused"} : ending = "no" /\ users' = {}}
    /\ UNCHANGED <<serving, running>>

Expires ==
    /\ serving # 0 /\ users = {} /\ ending = "no" /\ ending' = "unused"
    /\ UNCHANGED <<serving, running, users>>

Recalled ==
    /\ serving # 0 /\ ending' = "asked"
    /\ UNCHANGED <<serving, running, users>>

GoesDown ==
    /\ running /\ running' = FALSE /\ ending = "no"
    /\ UNCHANGED <<serving, users, ending>>

(* Its users stay, whoever came and went while it was down.                *)
Replaced(n) ==
    /\ serving # 0 /\ ~running /\ ending = "no"
    /\ serving' = n /\ running' \in BOOLEAN
    /\ UNCHANGED <<users, ending>>

LeavesService ==
    /\ ending # "no"
    /\ serving' = 0 /\ running' = FALSE /\ users' = {} /\ ending' = "no"

Serve ==
    \/ \E n \in Subprocesses \ {serving} : Replaced(n) \/ \E c \in Users : EntersService(n, c)
    \/ \E c \in Users : Joins(c) \/ Leaves(c)
    \/ Expires \/ Recalled \/ GoesDown \/ LeavesService

ServiceSpec == OutOfService /\ [][Serve]_serviceVars
===============================================================================

---------------------------- MODULE SessionLadder ----------------------------
(***************************************************************************)
(* What the daemon promises everybody who looks at its session: one status *)
(* that climbs a ladder, and one fact behind it, whether any session       *)
(* services (Metro, watcher, module host, ...) exist right now.            *)
(*                                                                         *)
(* It is the abstract specification of DaemonSupervisor.  It says nothing  *)
(* of epochs, of attached connections or of how many boots were started:   *)
(* only that "running" means that services exist, that "stopped" and       *)
(* "starting" mean that none do, and that "stopping" always ends.          *)
(***************************************************************************)

VARIABLES
    status,   \* SessionStatus of src/daemon/session.ts
    holding   \* some services bundle exists and was not disposed

vars == <<status, holding>>

Statuses == {"stopped", "starting", "running", "stopping"}

Init == /\ status = "stopped"
        /\ holding = FALSE

(* A session is asked for.                                                 *)
Begin == /\ status = "stopped"
         /\ status' = "starting"
         /\ UNCHANGED holding

(* The boot ends with services, which become the session's.                *)
Ready == /\ status = "starting"
         /\ status' = "running"
         /\ holding' = TRUE

(* The boot ends with an exception.                                        *)
Fail == /\ status = "starting"
        /\ status' = "stopped"
        /\ UNCHANGED holding

(* The session is asked to end, while it boots or once it runs.            *)
Halt == /\ status \in {"starting", "running"}
        /\ status' = "stopping"
        /\ UNCHANGED holding

(* A boot that was overtaken by Halt still produces its services ...       *)
Materialise == /\ status = "stopping"
               /\ ~holding
               /\ holding' = TRUE
               /\ UNCHANGED status

(* ... which are then disposed of, still before the session is stopped.    *)
Discard == /\ status = "stopping"
           /\ holding
           /\ holding' = FALSE
           /\ UNCHANGED status

(* The session is stopped, with nothing left behind.                       *)
Halted == /\ status = "stopping"
          /\ status' = "stopped"
          /\ holding' = FALSE

Next == Begin \/ Ready \/ Fail \/ Halt \/ Materialise \/ Discard \/ Halted

(* A boot does not last forever, whichever way it ends.                    *)
Settle == status = "starting" /\ (Ready \/ Fail \/ Halt)

Safety == Init /\ [][Next]_vars

(* Boots and teardowns end; nobody is obliged to begin a session or to halt *)
(* one that runs.                                                          *)
Spec == Safety /\ WF_vars(Settle) /\ WF_vars(Halted)

=============================================================================

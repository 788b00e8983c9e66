------------------------------ MODULE MCServices -------------------------------
(* Instances for TLC of four services of a session that share no state:    *)
(* each behaviour is one of one of them, the others stay as they begin.    *)
EXTENDS Watcher, BuildRequests, MetroLogs, CaptureRing

CONSTANTS f, g, r1, r2, r3, noRequest
VARIABLE service

MCFiles == {f, g}
MCOnSave == <<[glob |-> {f}, halt |-> TRUE], [glob |-> {f, g}, halt |-> FALSE]>>
MCRequests == {r1, r2, r3}

(* The capture ring is read by a viewer of the deltas or by an agent, who  *)
(* have no variable in common; an agent's limit cuts the pages of a ring   *)
(* that holds two rows, one that holds one row evicts.                     *)
Wide == INSTANCE CaptureRing WITH RingCapacity <- 2, MaxTaps <- 1
Capturing == {"viewed", "polled", "paged"}

(* A tap that is not looked at is attached to a target that is idle.       *)
MCInit == /\ service \in {"watcher", "build", "logs"} \cup Capturing
          /\ WatcherInit /\ BuildInit /\ LogInit /\ CaptureInit
          /\ service \notin Capturing => phase = [i \in RequestIds |-> "unsent"]

MCWatcher == /\ service = "watcher" /\ WatcherNext
             /\ UNCHANGED <<service, buildVars, logVars, captureVars>>
MCBuild == /\ service = "build" /\ BuildNext
           /\ UNCHANGED <<service, watcherVars, logVars, captureVars>>
MCLogs == /\ service = "logs" /\ LogNext
          /\ UNCHANGED <<service, watcherVars, buildVars, captureVars>>
MCBodyResult(i) == \E answer \in {"text", "failed"} :
    IF service = "paged" THEN Wide!BodyResult(i, answer) ELSE BodyResult(i, answer)
MCCapture == /\ \/ service = "viewed" /\ (TapNext \/ FlushDelta)
                \/ service = "polled" /\ (TapNext \/ ListNext)
                \/ service = "paged" /\ (Wide!TapNext \/ Wide!ListNext)
             /\ UNCHANGED <<service, watcherVars, buildVars, logVars>>
MCNext == MCWatcher \/ MCBuild \/ MCLogs \/ MCCapture

(* A service that was not chosen has no fair action that is enabled.       *)
MCSpec == /\ MCInit /\ [][MCNext]_<<service, watcherVars, buildVars, logVars, captureVars>>
          /\ WatcherFairness /\ BuildFairness
          /\ \A i \in RequestIds : WF_captureVars(MCBodyResult(i))

(* Who polls with a cursor, and who is sent deltas, miss nothing that is   *)
(* still kept: neither of Metro's lines nor of the captured requests.      *)
ReadersMissNothing == PassedWasGiven /\ CursorSkipsNothing /\ DeltasTellRows

==============================================================================

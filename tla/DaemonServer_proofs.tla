-------------------------- MODULE DaemonServer_proofs --------------------------
(***************************************************************************)
(* Proofs about DaemonServer, for any sockets, profiles and number of      *)
(* sessions, with and without pipelined chunks.                            *)
(*                                                                         *)
(* Every step of the server is a step of the supervisor or leaves it as it *)
(* is (ServerStepIsNext), so that the supervisor's inductive invariant     *)
(* holds here and with it whatever was proved from it.  What is added is   *)
(* how the sockets and the shutdown relate to the session.                 *)
(***************************************************************************)
EXTENDS DaemonServer, DaemonSupervisor_proofs

SocketTypes ==
    /\ conn \in [Conns -> {"new", "open", "closed"}]
    /\ entry \in [Conns -> {"none", "push", "bidirectional"}]
    /\ listening \subseteq Conns
    /\ shutdownPc \in {"up", "acked", "stopping", "closing", "exited"}

(* The onClose listener of a socket is there before anything it undoes.    *)
ListenersClose == listening \subseteq closers

(* While the shutdown awaits its stop(), that stop() is under way; from    *)
(* then on the session stays stopped, but for the two ways named.          *)
ShutdownStage ==
    /\ shutdownPc = "stopping" => status = "stopping"
    /\ shutdownPc \in {"closing", "exited"} /\ ~hurried /\ ~late => status = "stopped"

(* The inductive invariant.                                                *)
ServerInv ==
    /\ IInv /\ SocketTypes
    /\ SocketsAreCovered /\ ListenersClose
    /\ ShutdownStage

-----------------------------------------------------------------------------
(* The invariant holds of a server without sockets.                        *)
LEMMA ServerInitInv == ServerInit => ServerInv
<1> SUFFICES ASSUME ServerInit PROVE ServerInv
  OBVIOUS
<1>1. IInv
  BY InitIInv DEF ServerInit
<1>2. SocketTypes /\ ListenersClose /\ ShutdownStage
  BY DEF ServerInit, SocketTypes, ListenersClose, ShutdownStage
<1>3. SocketsAreCovered
  BY DEF ServerInit, Init, SocketsAreCovered, AttachedCanRelease, SubscribersGated
<1> QED
  BY <1>1, <1>2, <1>3 DEF ServerInv

(* What the sockets can do to the supervisor, it does.                     *)
LEMMA ServerStepIsNext == [ServerNext]_serverVars => [Next]_vars
<1> SUFFICES ASSUME [ServerNext]_serverVars PROVE [Next]_vars
  OBVIOUS
<1>1. ASSUME NEW c \in Conns,
             Connect(c) \/ SubscribeListen(c) \/ SubscribeRefused(c) \/ DaemonShutdown(c)
      PROVE  UNCHANGED vars
  BY <1>1 DEF Connect, SubscribeListen, SubscribeRefused, DaemonShutdown
<1>2. ASSUME NEW c \in Conns, Disconnect(c) PROVE Next \/ UNCHANGED vars
  BY <1>2 DEF Disconnect, Next
<1>3. ASSUME NEW c \in Conns, NEW p \in Profiles,
             SubscribeFirst(c, p) \/ SubscribeJoin(c, p) \/ SessionStart(c, p)
      PROVE  Next
  BY <1>3 DEF SubscribeFirst, SubscribeJoin, SessionStart, Next
<1>4. ASSUME NEW c \in Conns, SessionStop(c) PROVE Next
  BY <1>4 DEF SessionStop, Next
<1>5. CASE SubscribeResume
  BY <1>5 DEF SubscribeResume, Next
<1>6. CASE BeginShutdown
  BY <1>6 DEF BeginShutdown, Next
<1>7. CASE Background
  BY <1>7 DEF Background, Next
<1>8. CASE Exit
  BY <1>8 DEF Exit
<1>9. CASE UNCHANGED serverVars
  BY <1>9 DEF serverVars
<1> QED
  BY <1>1, <1>2, <1>3, <1>4, <1>5, <1>6, <1>7, <1>8, <1>9 DEF ServerNext

(* Nobody comes to be attached or to await start() but by subscribing.     *)
LEMMA Attachers ==
    ASSUME IInv
    PROVE  /\ Stop \/ StopJoined \/ StopDisposed
                \/ (\E e \in Epochs : Settle(e) \/ BootDiscarded(e))
                => attached' \subseteq attached /\ resuming' = resuming
           /\ \A c \in Conns : Release(c) =>
                attached' \subseteq attached \ {c} /\ resuming' = resuming /\ resuming = NoConn
<1>1. Stop => attached' \subseteq attached /\ resuming' = resuming
  BY DEF Stop, BeginStop
<1>2. StopJoined \/ StopDisposed => attached' \subseteq attached /\ resuming' = resuming
  BY DEF StopJoined, StopDisposed
<1>3. \A e \in Epochs : Settle(e) \/ BootDiscarded(e) =>
          attached' \subseteq attached /\ resuming' = resuming
  BY DEF Settle, BootReady, BootOvertaken, BootFail, BootDiscarded
<1>4. \A c \in Conns : Release(c) =>
          attached' \subseteq attached \ {c} /\ resuming' = resuming /\ resuming = NoConn
  BY DEF Release, BeginStop, Quiet
<1> QED
  BY <1>1, <1>2, <1>3, <1>4

(* Every step keeps what is known of the sockets.                          *)
LEMMA SocketsKept ==
    ServerInv /\ [ServerNext]_serverVars
        => SocketTypes' /\ SocketsAreCovered' /\ ListenersClose'
<1> SUFFICES ASSUME ServerInv, [ServerNext]_serverVars
             PROVE  SocketTypes' /\ SocketsAreCovered' /\ ListenersClose'
  OBVIOUS
<1> USE NoConnAssumption DEF SocketsAreCovered
<1>1. ASSUME UNCHANGED sockets, attached' \subseteq attached, resuming' = resuming,
             shutdownPc' \in {"up", "acked", "stopping", "closing", "exited"}
      PROVE  SocketTypes' /\ SocketsAreCovered' /\ ListenersClose'
  BY <1>1 DEF sockets, ServerInv, SocketTypes, AttachedCanRelease, SubscribersGated,
              ListenersClose
<1>2. ASSUME NEW c \in Conns, Connect(c)
      PROVE  SocketTypes' /\ SocketsAreCovered' /\ ListenersClose'
  <2>1. /\ conn' = [conn EXCEPT ![c] = "open"]
        /\ UNCHANGED <<attached, resuming, entry, listening, closers, shutdownPc>>
    BY <1>2 DEF Connect, vars, shutdownVars
  <2> QED
    BY <2>1 DEF ServerInv, SocketTypes, AttachedCanRelease, SubscribersGated, ListenersClose
<1>3. ASSUME NEW c \in Conns, conn[c] = "open", Register(c),
             attached' \subseteq attached \cup {c}, resuming' \in {resuming, c},
             shutdownPc' = shutdownPc
      PROVE  SocketTypes' /\ SocketsAreCovered' /\ ListenersClose'
  <2>1. PICK kind \in {"push", "bidirectional"} :
            /\ entry' = [entry EXCEPT ![c] = kind]
            /\ listening' = listening \cup {c} /\ closers' = closers \cup {c}
            /\ conn' = conn
    BY <1>3 DEF Register
  <2>2. SocketTypes'
    BY <1>3, <2>1 DEF ServerInv, SocketTypes
  <2>3. AttachedCanRelease'
    BY <1>3, <2>1 DEF ServerInv, AttachedCanRelease
  <2>4. SubscribersGated'
    BY <1>3, <2>1 DEF ServerInv, SocketTypes, SubscribersGated
  <2>5. ListenersClose'
    BY <2>1 DEF ServerInv, ListenersClose
  <2> QED
    BY <2>2, <2>3, <2>4, <2>5
<1>4. ASSUME NEW c \in Conns, SubscribeListen(c)
      PROVE  SocketTypes' /\ SocketsAreCovered' /\ ListenersClose'
  BY <1>3, <1>4 DEF SubscribeListen, Serving, vars, shutdownVars
<1>5. ASSUME NEW c \in Conns, NEW p \in Profiles, SubscribeFirst(c, p)
      PROVE  SocketTypes' /\ SocketsAreCovered' /\ ListenersClose'
  BY <1>3, <1>5 DEF SubscribeFirst, AttachFirst, Serving
<1>6. ASSUME NEW c \in Conns, NEW p \in Profiles, SubscribeJoin(c, p)
      PROVE  SocketTypes' /\ SocketsAreCovered' /\ ListenersClose'
  BY <1>3, <1>6 DEF SubscribeJoin, AttachJoin, Serving, shutdownVars
<1>7. ASSUME NEW c \in Conns, SubscribeRefused(c)
      PROVE  SocketTypes' /\ SocketsAreCovered' /\ ListenersClose'
  BY <1>7 DEF SubscribeRefused, vars, shutdownVars, ServerInv, SocketTypes, AttachedCanRelease,
              SubscribersGated, ListenersClose
<1>8. ASSUME NEW c \in Conns, NEW p \in Profiles, SessionStart(c, p)
      PROVE  SocketTypes' /\ SocketsAreCovered' /\ ListenersClose'
  BY <1>1, <1>8 DEF SessionStart, Start, ServerInv, SocketTypes
<1>9. ASSUME NEW c \in Conns, SessionStop(c) \/ DaemonShutdown(c)
      PROVE  SocketTypes' /\ SocketsAreCovered' /\ ListenersClose'
  BY <1>1, <1>9, Attachers DEF SessionStop, DaemonShutdown, vars, shutdownVars, ServerInv, SocketTypes
<1>10. ASSUME NEW c \in Conns, Disconnect(c)
       PROVE  SocketTypes' /\ SocketsAreCovered' /\ ListenersClose'
  <2>1. /\ conn' = [conn EXCEPT ![c] = "closed"] /\ resuming = NoConn
        /\ UNCHANGED <<closers, shutdownPc>>
    BY <1>10 DEF Disconnect, Quiet, shutdownVars
  <2>2. CASE c \in closers
    <3>1. /\ listening' = listening \ {c} /\ entry' = [entry EXCEPT ![c] = "none"]
          /\ attached' \subseteq attached \ {c} /\ resuming' = NoConn
      BY <1>10, <2>1, <2>2, Attachers DEF Disconnect, vars, ServerInv
    <3> QED
      BY <2>1, <3>1 DEF ServerInv, SocketTypes, AttachedCanRelease, SubscribersGated, ListenersClose
  <2>3. CASE c \notin closers
    <3>1. UNCHANGED <<attached, resuming, listening, entry>>
      BY <1>10, <2>3 DEF Disconnect, vars
    <3>2. c \notin attached /\ c \notin listening
      BY <2>3 DEF ServerInv, AttachedCanRelease, ListenersClose
    <3> QED
      BY <2>1, <3>1, <3>2
         DEF ServerInv, SocketTypes, AttachedCanRelease, SubscribersGated, ListenersClose
  <2> QED
    BY <2>2, <2>3
<1>11. CASE SubscribeResume
  BY <1>11 DEF SubscribeResume, AttachResume, sockets, shutdownVars, ServerInv, SocketTypes,
               AttachedCanRelease, SubscribersGated, ListenersClose
<1>12. CASE BeginShutdown
  BY <1>1, <1>12, Attachers DEF BeginShutdown, vars, ServerInv
<1>13. CASE Background
  BY <1>1, <1>13, Attachers DEF Background, ResumeShutdown, ServerInv, SocketTypes
<1>14. CASE Exit \/ UNCHANGED serverVars
  BY <1>1, <1>14 DEF Exit, serverVars, vars, shutdownVars, ServerInv, SocketTypes
<1> QED
  BY <1>2, <1>4, <1>5, <1>6, <1>7, <1>8, <1>9, <1>10, <1>11, <1>12, <1>13, <1>14 DEF ServerNext

(* A session that is stopped or stopping is moved on by nothing but what   *)
(* begins a session, and the teardown.                                     *)
LEMMA DownStaysDown ==
    ASSUME IInv, status \in {"stopped", "stopping"},
           StopJoined \/ StopDisposed \/ (\E e \in Epochs : Settle(e) \/ BootDiscarded(e))
    PROVE  status' \in {"stopped", status}
<1>1. CASE StopJoined \/ StopDisposed
  BY <1>1 DEF StopJoined, StopDisposed
<1>2. ASSUME NEW e \in Epochs, Settle(e) \/ BootDiscarded(e)
      PROVE  status' \in {"stopped", status}
  <2>1. CASE BootReady(e)
    <3>1. e \in booting /\ e = bootEpoch
      BY <2>1 DEF BootReady
    <3> QED
      BY <3>1, CurrentBoot
  <2>2. CASE BootOvertaken(e) \/ BootDiscarded(e)
    BY <2>2 DEF BootOvertaken, BootDiscarded, session
  <2>3. CASE BootFail(e)
    BY <2>3 DEF BootFail
  <2> QED
    BY <1>2, <2>1, <2>2, <2>3 DEF Settle
<1> QED
  BY <1>1, <1>2

(* Every step keeps what is known of how far the shutdown is.              *)
LEMMA ShutdownKept == ServerInv /\ [ServerNext]_serverVars => ShutdownStage'
<1> SUFFICES ASSUME ServerInv, [ServerNext]_serverVars PROVE ShutdownStage'
  OBVIOUS
<1>1. ASSUME UNCHANGED <<status, shutdownVars>> PROVE ShutdownStage'
  BY <1>1 DEF shutdownVars, ServerInv, ShutdownStage
<1>2. ASSUME NEW c \in Conns, NEW p \in Profiles, SubscribeFirst(c, p) \/ SessionStart(c, p)
      PROVE  ShutdownStage'
  <2>1. /\ status = "stopped" /\ late' = (late \/ shutdownPc = "closing")
        /\ shutdownPc # "exited" /\ UNCHANGED <<shutdownPc, hurried>>
    BY <1>2 DEF SubscribeFirst, SessionStart, AttachFirst, Start, BeginBoot, Serving, Alive
  <2> QED
    BY <2>1 DEF ServerInv, ShutdownStage
<1>3. ASSUME NEW c \in Conns, NEW p \in Profiles, SubscribeJoin(c, p)
      PROVE  ShutdownStage'
  BY <1>1, <1>3 DEF SubscribeJoin, AttachJoin, session
<1>4. ASSUME NEW c \in Conns, Connect(c) \/ SubscribeListen(c) \/ SubscribeRefused(c)
      PROVE  ShutdownStage'
  BY <1>1, <1>4 DEF Connect, SubscribeListen, SubscribeRefused, vars
<1>5. ASSUME NEW c \in Conns, SessionStop(c) \/ Disconnect(c)
      PROVE  ShutdownStage'
  <2>1. /\ status' \in {status, "stopping"} /\ (status' # status => status \in {"starting", "running"})
        /\ UNCHANGED shutdownVars
    BY <1>5 DEF SessionStop, Disconnect, Stop, Release, BeginStop, session, vars
  <2> QED
    BY <2>1 DEF shutdownVars, ServerInv, ShutdownStage
<1>6. ASSUME NEW c \in Conns, DaemonShutdown(c)
      PROVE  ShutdownStage'
  BY <1>6 DEF DaemonShutdown, ShutdownStage
<1>7. CASE SubscribeResume
  BY <1>1, <1>7 DEF SubscribeResume, AttachResume, session
<1>8. CASE BeginShutdown
  <2>1. /\ shutdownPc' = IF status \in {"starting", "running"} THEN "stopping" ELSE "closing"
        /\ hurried' = (status = "stopping")
    BY <1>8 DEF BeginShutdown
  <2>2. CASE status \in {"starting", "running"}
    BY <1>8, <2>1, <2>2 DEF BeginShutdown, Stop, BeginStop, ShutdownStage
  <2>3. CASE status = "stopping"
    BY <2>1, <2>3 DEF ShutdownStage
  <2>4. CASE status = "stopped"
    <3>1. status' = "stopped"
      BY <1>8, <2>4 DEF BeginShutdown, Stop, BeginStop, session
    <3> QED
      BY <2>1, <2>4, <3>1 DEF ShutdownStage
  <2> QED
    BY <2>2, <2>3, <2>4 DEF ServerInv, IInv, TypeOK
<1>9. CASE Background
  <2>1. /\ shutdownPc' = IF shutdownPc = "stopping" /\ status' = "stopped"
                           THEN "closing" ELSE shutdownPc
        /\ UNCHANGED <<hurried, late>>
    BY <1>9 DEF Background, ResumeShutdown
  <2>2. status \in {"stopped", "stopping"} => status' \in {"stopped", status}
    BY <1>9, DownStaysDown DEF Background, ServerInv
  <2> QED
    BY <2>1, <2>2 DEF ServerInv, ShutdownStage
<1>10. CASE Exit
  BY <1>10 DEF Exit, vars, ServerInv, ShutdownStage
<1>11. CASE UNCHANGED serverVars
  BY <1>1, <1>11 DEF serverVars, vars
<1> QED
  BY <1>2, <1>3, <1>4, <1>5, <1>6, <1>7, <1>8, <1>9, <1>10, <1>11 DEF ServerNext

(* Every step keeps the invariant.                                         *)
LEMMA ServerNextInv == ServerInv /\ [ServerNext]_serverVars => ServerInv'
<1> SUFFICES ASSUME ServerInv, [ServerNext]_serverVars PROVE ServerInv'
  OBVIOUS
<1>1. IInv'
  BY ServerStepIsNext, NextIInv DEF ServerInv
<1> QED
  BY <1>1, SocketsKept, ShutdownKept DEF ServerInv

(* No socket is attached, listening or known to a gate without the means   *)
(* to undo it when it closes (daemon/index.ts:527-660).                    *)
THEOREM SocketsStayCovered == ServerSafety => []SocketsAreCovered
<1>1. ServerInv => SocketsAreCovered
  BY DEF ServerInv
<1> QED
  BY ServerInitInv, ServerNextInv, <1>1, PTL DEF ServerSafety

(* The exit leaves services behind in the two ways only that `hurried` and *)
(* `late` name (daemon/index.ts:241-269).                                  *)
THEOREM NothingLeftBehind == ServerSafety => []ExitLeavesNothing
<1>1. ServerInv => ExitLeavesNothing
  BY DEF ServerInv, ShutdownStage, ExitLeavesNothing, IInv, Stage, StoppedStage
<1> QED
  BY ServerInitInv, ServerNextInv, <1>1, PTL DEF ServerSafety

(* The server's behaviours are the supervisor's: what is proved of the     *)
(* supervisor's safety holds behind the sockets.                           *)
THEOREM ServerImplementsSupervisor == ServerSafety => Safety
<1>1. ServerInit => Init
  BY DEF ServerInit
<1> QED
  BY <1>1, ServerStepIsNext, PTL DEF ServerSafety, Safety

(* So the daemon, sockets, handlers and shutdown included, keeps to the    *)
(* ladder that its clients rely on (session.ts:6-11, daemon/index.ts).     *)
THEOREM ServerImplementsLadder == ServerSafety => Ladder!Safety
BY ServerImplementsSupervisor, SafetyImplementsLadder
==============================================================================

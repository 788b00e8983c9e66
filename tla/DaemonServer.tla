----------------------------- MODULE DaemonServer -----------------------------
(***************************************************************************)
(* The daemon process of src/daemon/index.ts: the supervisor behind its    *)
(* IPC server, the sockets that call it, the registry of subscribe sockets *)
(* (src/daemon/subscribe-registry.ts) and the shutdown sequence.           *)
(*                                                                         *)
(* DaemonSupervisor lets any connection attach, release and stop.  Here    *)
(* each of its actions is what one handler, socket event or shutdown step  *)
(* does, so a connection is attached only through events/subscribe and     *)
(* released only by its socket closing.  Requests are served in the order  *)
(* they arrive and each handler runs to its first await, so the arrival of *)
(* a request and its handler are one action.                               *)
(***************************************************************************)
EXTENDS DaemonSupervisor

VARIABLES
    conn,        \* a socket: "new", "open" or "closed"; ids are not reused
    entry,       \* subscribeRegistry: "none", "push" or "bidirectional"
    listening,   \* connections whose push listener is on the supervisor
    closers,     \* connections with an onClose listener
    shutdownPc,  \* "up", "acked", "stopping", "closing" or "exited"
    hurried,     \* history: the shutdown did not wait for the teardown
    late         \* history: a session was begun while the server closed

sockets == <<conn, entry, listening, closers>>
shutdownVars == <<shutdownPc, hurried, late>>
serverVars == <<vars, sockets, shutdownVars>>

ServerTypeOK ==
    /\ TypeOK
    /\ conn \in [Conns -> {"new", "open", "closed"}]
    /\ entry \in [Conns -> {"none", "push", "bidirectional"}]
    /\ listening \subseteq Conns
    /\ closers \subseteq Conns
    /\ shutdownPc \in {"up", "acked", "stopping", "closing", "exited"}
    /\ hurried \in BOOLEAN
    /\ late \in BOOLEAN

ServerInit ==
    /\ Init
    /\ conn = [c \in Conns |-> "new"]
    /\ entry = [c \in Conns |-> "none"]
    /\ listening = {}
    /\ closers = {}
    /\ shutdownPc = "up"
    /\ hurried = FALSE
    /\ late = FALSE

Alive == shutdownPc # "exited"

(* A request of c is dispatched.  closeAllConnections does not exist on a  *)
(* net.Server, so open sockets are served even while the server closes.    *)
Serving(c) == Alive /\ conn[c] = "open"

(* The two gates in front of the dispatch: a subscribe socket may neither  *)
(* start a session nor shut the daemon down, and one that is not           *)
(* bidirectional may call none of the session's RPCs.                      *)
Fresh(c) == entry[c] = "none"
MayCall(c) == entry[c] \in {"none", "bidirectional"}

-----------------------------------------------------------------------------
Connect(c) ==
    /\ Quiet
    /\ shutdownPc \notin {"closing", "exited"}
    /\ conn[c] = "new"
    /\ conn' = [conn EXCEPT ![c] = "open"]
    /\ UNCHANGED <<vars, entry, listening, closers, shutdownVars>>

(* Mutant: the onClose listener is not there yet when attach() is called.  *)
RegisterNoCloser(c) ==
    /\ listening' = listening \cup {c}
    /\ \E kind \in {"push", "bidirectional"} :
            entry' = [entry EXCEPT ![c] = kind]
    /\ UNCHANGED <<conn, closers>>

(* handleEventsSubscribe up to the profile: the push listener, the entry   *)
(* and the onClose listener are there before attach() is called.           *)
Register(c) ==
    /\ listening' = listening \cup {c}
    /\ closers' = closers \cup {c}
    /\ \E kind \in {"push", "bidirectional"} :
            entry' = [entry EXCEPT ![c] = kind]
    /\ UNCHANGED conn

(* Without a profile the socket only listens.                              *)
SubscribeListen(c) ==
    /\ Quiet
    /\ Serving(c)
    /\ Fresh(c)
    /\ Register(c)
    /\ UNCHANGED <<vars, shutdownVars>>

SubscribeFirst(c, p) ==
    /\ Serving(c)
    /\ Fresh(c)
    /\ AttachFirst(c, p)
    /\ Register(c)
    /\ late' = (late \/ shutdownPc = "closing")
    /\ UNCHANGED <<shutdownPc, hurried>>

SubscribeJoin(c, p) ==
    /\ Serving(c)
    /\ Fresh(c)
    /\ AttachJoin(c, p)
    /\ Register(c)
    /\ UNCHANGED shutdownVars

(* The profile is invalid or the supervisor refuses it: the listener and   *)
(* the entry are taken back, the onClose listener stays.                   *)
SubscribeRefused(c) ==
    /\ Quiet
    /\ Serving(c)
    /\ Fresh(c)
    /\ closers' = closers \cup {c}
    /\ UNCHANGED <<vars, conn, entry, listening, shutdownVars>>

SubscribeResume ==
    /\ AttachResume
    /\ UNCHANGED <<sockets, shutdownVars>>

SessionStart(c, p) ==
    /\ Serving(c)
    /\ Fresh(c)
    /\ Start(p)
    /\ late' = (late \/ shutdownPc = "closing")
    /\ UNCHANGED <<sockets, shutdownPc, hurried>>

(* Behind an unfinished subscribe only the same socket's chunk is served.  *)
SessionStop(c) ==
    /\ Serving(c)
    /\ MayCall(c)
    /\ Quiet \/ resuming = c
    /\ Stop
    /\ UNCHANGED <<sockets, shutdownVars>>

(* Mutant: the onClose listener forgets supervisor.release().              *)
DisconnectNoRelease(c) ==
    /\ Quiet
    /\ Serving(c)
    /\ conn' = [conn EXCEPT ![c] = "closed"]
    /\ listening' = listening \ {c}
    /\ entry' = [entry EXCEPT ![c] = "none"]
    /\ UNCHANGED <<vars, closers, shutdownVars>>

(* The socket closes, for whatever reason: its onClose listeners run.      *)
Disconnect(c) ==
    /\ Quiet
    /\ Serving(c)
    /\ conn' = [conn EXCEPT ![c] = "closed"]
    /\ IF c \in closers
         THEN /\ listening' = listening \ {c}
              /\ entry' = [entry EXCEPT ![c] = "none"]
              /\ Release(c) \/ (c \notin attached /\ UNCHANGED vars)
         ELSE UNCHANGED <<vars, listening, entry>>
    /\ UNCHANGED <<closers, shutdownVars>>

-----------------------------------------------------------------------------
(* daemon/shutdown acknowledges first and shuts down on the next tick.     *)
DaemonShutdown(c) ==
    /\ Quiet
    /\ Serving(c)
    /\ Fresh(c)
    /\ shutdownPc = "up"
    /\ shutdownPc' = "acked"
    /\ UNCHANGED <<vars, sockets, hurried, late>>

(* Mutant: shutdown() does not await supervisor.stop().                    *)
BeginShutdownNoWait ==
    /\ Quiet
    /\ shutdownPc \in {"up", "acked"}
    /\ \/ Stop
       \/ status = "stopping" /\ UNCHANGED vars
    /\ shutdownPc' = "closing"
    /\ hurried' = (status = "stopping")
    /\ UNCHANGED <<sockets, late>>

(* shutdown(), from that tick or a signal, up to the end of its call of    *)
(* supervisor.stop().  That call returns at once if the session is stopped *)
(* and also if another stop() is still tearing it down.                    *)
BeginShutdown ==
    /\ Quiet
    /\ shutdownPc \in {"up", "acked"}
    /\ \/ Stop
       \/ status = "stopping" /\ UNCHANGED vars
    /\ shutdownPc' =
         IF status \in {"starting", "running"} THEN "stopping" ELSE "closing"
    /\ hurried' = (status = "stopping")
    /\ UNCHANGED <<sockets, late>>

(* The end of a teardown also resumes the shutdown that awaits it.         *)
ResumeShutdown ==
    /\ shutdownPc' = IF shutdownPc = "stopping" /\ status' = "stopped"
                       THEN "closing" ELSE shutdownPc
    /\ UNCHANGED <<hurried, late>>

Background ==
    /\ Alive
    /\ \/ StopJoined
       \/ StopDisposed
       \/ \E e \in Epochs : Settle(e) \/ BootDiscarded(e)
    /\ ResumeShutdown
    /\ UNCHANGED sockets

(* server.stop() is over, after 500 ms at the latest: release the lock,    *)
(* unregister, process.exit(0).                                            *)
Exit ==
    /\ Quiet
    /\ shutdownPc = "closing"
    /\ shutdownPc' = "exited"
    /\ UNCHANGED <<vars, sockets, hurried, late>>

-----------------------------------------------------------------------------
ServerNext ==
    \/ \E c \in Conns :
         \/ Connect(c) \/ Disconnect(c)
         \/ SubscribeListen(c) \/ SubscribeRefused(c)
         \/ \E p \in Profiles :
              SubscribeFirst(c, p) \/ SubscribeJoin(c, p) \/ SessionStart(c, p)
         \/ SessionStop(c) \/ DaemonShutdown(c)
    \/ SubscribeResume
    \/ BeginShutdown
    \/ Background
    \/ Exit

ServerSafety == ServerInit /\ [][ServerNext]_serverVars

(* As in DaemonSupervisor; an acknowledged shutdown and the 500 ms timer   *)
(* are the event loop's to run.                                            *)
ServerSpec ==
    /\ ServerSafety
    /\ WF_serverVars(SubscribeResume)
    /\ WF_serverVars(Background)
    /\ WF_serverVars(shutdownPc = "acked" /\ BeginShutdown)
    /\ WF_serverVars(Exit)

-----------------------------------------------------------------------------
(* Whoever keeps the session alive can let go of it: an attached           *)
(* connection is an open subscribe socket whose closing releases it.       *)
AttachedCanRelease ==
    \A c \in attached \cup ({resuming} \ {NoConn}) :
        conn[c] = "open" /\ c \in closers /\ c \in listening

(* A socket that is pushed events is known to the two gates, and neither   *)
(* the listener nor the entry outlives the socket.                         *)
SubscribersGated ==
    \A c \in Conns :
        /\ c \in listening <=> entry[c] # "none"
        /\ c \in listening => conn[c] = "open"

(* No socket is attached, listening or known to a gate without the means   *)
(* to undo it when it closes.                                              *)
SocketsAreCovered == AttachedCanRelease /\ SubscribersGated

(* The daemon leaves services behind in two cases only: shutdown() ran     *)
(* into a teardown under way, or a client began a session behind it.       *)
ExitLeavesNothing ==
    shutdownPc = "exited" /\ ~hurried /\ ~late => live \cup booting = {}

(* When every socket is gone, a session begun by a subscriber comes down.  *)
AbandonedSessionStops ==
    (\A c \in Conns : conn[c] = "closed") /\ ~bare
        ~> status = "stopped" \/ shutdownPc = "exited"

(* A shutdown that was acknowledged comes to an end, whatever the session  *)
(* and the clients do meanwhile.                                           *)
ShutdownEnds == shutdownPc # "up" ~> shutdownPc = "exited"

(* What nobody wants any more comes down: the session, or the daemon.      *)
UnwantedComesDown == AbandonedSessionStops /\ ShutdownEnds

=============================================================================

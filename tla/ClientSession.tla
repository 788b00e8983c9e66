---------------------------- MODULE ClientSession ----------------------------
(***************************************************************************)
(* connectToDaemonSession() of src/app/client/session.ts and the session   *)
(* object it returns, on the multiplexed socket of src/core/ipc.ts.        *)
(*                                                                         *)
(* One client is modelled.  The daemon is SessionLadder, driven by this    *)
(* client and by others, and its end of this client's socket; two FIFO     *)
(* queues connect them.  On the client a step is one line read from the    *)
(* socket, one socket event, one timer, one call of the user, or the code  *)
(* that runs on after an await.  Such a continuation is a microtask: the   *)
(* lines of the chunk being read may come before it, nothing else.         *)
(***************************************************************************)
EXTENDS Naturals, Sequences

CONSTANTS
    MaxSessions,  \* bound on the sessions the daemon begins
    MaxLogs,      \* bound on the session/log events it pushes
    Filtered      \* the caller's kinds leave session/log out

ASSUME BoundsAssumption == MaxSessions \in Nat /\ MaxLogs \in Nat
ASSUME FilteredAssumption == Filtered \in BOOLEAN

VARIABLES
    status,     \* the daemon's session: SessionLadder
    holding,
    session,    \* its number, 0 before the first
    daemonUp,   \* the daemon process exists
    serving,    \* its end of the socket: "fresh", "open" or "gone"
    owed,       \* the confirmation attach() will send, Refusal for none
    attached,   \* the client is in attachedConnections
    joined,     \* history: the session it attached to, 0 for none
    logs,       \* history: session/log events emitted
    up,         \* requests on their way to the daemon
    down,       \* lines on their way to the client
    pc,         \* where the client is
    ack,        \* the confirmation, from its arrival to the continuation
    gate,       \* runningPromise
    timer,      \* watchdog: "off", "seed" or "idle"
    progress,   \* history: the daemon emitted since the timer was armed
    key,        \* worktreeKey is known
    ended,      \* closed (of session.ts)
    sock,       \* the client's socket
    notified,   \* history: calls of notifyDisconnected on the adapters
    seen        \* history: the session whose "running" resolved the gate

ladder == <<status, holding>>
daemonVars == <<ladder, session, daemonUp, serving, owed, attached, joined, logs>>
clientVars == <<pc, ack, gate, timer, key, ended, sock, notified, seen>>
vars == <<daemonVars, up, down, clientVars, progress>>

Ladder == INSTANCE SessionLadder

TypeOK ==
    /\ status \in Ladder!Statuses
    /\ holding \in BOOLEAN
    /\ {session, joined, seen} \subseteq 0..MaxSessions
    /\ logs \in 0..MaxLogs
    /\ {daemonUp, attached, progress, key, ended} \subseteq BOOLEAN
    /\ serving \in {"fresh", "open", "gone"}
    /\ owed.kind \in {"ack", "nack"}
    /\ up \in Seq({"subscribe", "status", "stop"})
    /\ \A i \in 1..Len(down) :
         down[i].kind \in {"status", "log", "ack", "nack", "backfill"}
    /\ pc \in {"idle", "subscribing", "confirmed", "backfilling", "backfilled",
               "awaiting", "connected", "stopping", "closed", "failed"}
    /\ ack.kind \in {"ack", "nack"}
    /\ gate \in {"pending", "resolved", "silence", "session", "lost"}
    /\ timer \in {"off", "seed", "idle"}
    /\ sock \in {"open", "broken", "destroyed", "closed"}
    /\ notified \in 0..2
    /\ pc \in {"backfilling", "backfilled", "awaiting", "connected", "stopping"}
         => ack.kind = "ack"

Refusal == [kind |-> "nack"]

(* The daemon may already have a session, other clients' doing.            *)
Init ==
    /\ \/ Ladder!Init /\ session = 0
       \/ /\ status = "running" /\ holding = TRUE
          /\ session = 1 /\ MaxSessions > 0
    /\ daemonUp = TRUE
    /\ serving = "fresh"
    /\ owed = Refusal
    /\ attached = FALSE
    /\ joined = 0
    /\ logs = 0
    /\ up = <<>>
    /\ down = <<>>
    /\ pc = "idle"
    /\ ack = Refusal
    /\ gate = "pending"
    /\ timer = "off"
    /\ progress = FALSE
    /\ key = FALSE
    /\ ended = FALSE
    /\ sock = "open"
    /\ notified = 0
    /\ seen = 0

-----------------------------------------------------------------------------
(* connectToDaemonSession() has its daemon, and subscribes.                *)
Subscribe ==
    /\ pc = "idle" /\ daemonUp
    /\ pc' = "subscribing"
    /\ up' = <<"subscribe">>
    /\ UNCHANGED <<daemonVars, down, ack, gate, timer, progress, key, ended, sock,
                   notified, seen>>

(* The daemon's side.                                                      *)

Acking == owed # Refusal
Listening == serving = "open"

StatusLine(s, n) == [kind |-> "status", status |-> s, session |-> n]

(* Lines for the client: lost once its socket is not open.                 *)
Send(lines) == down' = IF sock = "open" THEN down \o lines ELSE down

(* emitStateChanged().                                                     *)
EmitStatus ==
    /\ Send(IF Listening THEN <<StatusLine(status', session')>> ELSE <<>>)
    /\ progress' = TRUE

(* The session moves for reasons outside this client: other clients begin  *)
(* it and stop it, its boot ends.  Only the boot can end between attach()  *)
(* and the confirmation.  However a session goes down, it is detached from *)
(* its clients; they go on listening.                                      *)
SessionMoves ==
    /\ daemonUp
    /\ \/ ~Acking /\ session < MaxSessions
          /\ Ladder!Begin /\ session' = session + 1
          /\ UNCHANGED attached
       \/ (Ladder!Ready \/ Ladder!Halted) /\ UNCHANGED <<session, attached>>
       \/ /\ Ladder!Fail \/ (~Acking /\ Ladder!Halt)
          /\ attached' = FALSE
          /\ UNCHANGED session
    /\ EmitStatus
    /\ UNCHANGED <<daemonUp, serving, owed, joined, logs, up, clientVars>>

(* Services of an overtaken boot come and go unseen.                       *)
ServicesMove ==
    /\ daemonUp
    /\ Ladder!Materialise \/ Ladder!Discard
    /\ UNCHANGED <<session, daemonUp, serving, owed, attached, joined,
                   logs, up, down, clientVars, progress>>

(* A line of boot progress: session/log.                                   *)
EmitLog ==
    /\ daemonUp
    /\ status = "starting"
    /\ logs < MaxLogs
    /\ logs' = logs + 1
    /\ Send(IF Listening /\ ~Filtered THEN <<[kind |-> "log"]>> ELSE <<>>)
    /\ progress' = TRUE
    /\ UNCHANGED <<ladder, session, daemonUp, serving, owed, attached, joined,
                   up, clientVars>>

Serve(request) ==
    /\ daemonUp
    /\ ~Acking
    /\ up # <<>> /\ Head(up) = request
    /\ up' = Tail(up)

(* events/subscribe on a stopped session: the listener is there when       *)
(* attach() emits "starting", so that line overtakes the confirmation.     *)
ServeFirst ==
    /\ Serve("subscribe")
    /\ session < MaxSessions
    /\ Ladder!Begin
    /\ session' = session + 1
    /\ serving' = "open"
    /\ attached' = TRUE
    /\ joined' = session'
    /\ owed' = [kind |-> "ack", status |-> "starting", started |-> TRUE]
    /\ Send(<<StatusLine("starting", session')>>)
    /\ progress' = TRUE
    /\ UNCHANGED <<daemonUp, logs, clientVars>>

(* On one that boots or runs under the same profile.                       *)
ServeJoin ==
    /\ Serve("subscribe")
    /\ status \in {"starting", "running"}
    /\ serving' = "open"
    /\ attached' = TRUE
    /\ joined' = session
    /\ owed' = [kind |-> "ack", status |-> status, started |-> FALSE]
    /\ UNCHANGED <<ladder, session, daemonUp, logs, down, clientVars,
                   progress>>

(* The profile is invalid, the session stops, or it runs another profile:  *)
(* the listener goes again.                                                *)
ServeRefusal ==
    /\ Serve("subscribe")
    /\ serving' = "gone"
    /\ Send(<<Refusal>>)
    /\ UNCHANGED <<ladder, session, daemonUp, owed, attached, joined,
                   logs, clientVars, progress>>

(* attach() resolved: the confirmation tells the status it found.          *)
Confirm ==
    /\ daemonUp
    /\ Acking
    /\ owed' = Refusal
    /\ Send(<<owed>>)
    /\ UNCHANGED <<ladder, session, daemonUp, serving, attached, joined,
                   logs, up, clientVars, progress>>

ServeStatus ==
    /\ Serve("status")
    /\ Send(<<[kind |-> "backfill"]>>)
    /\ UNCHANGED <<daemonVars, clientVars, progress>>

(* session/stop, whoever else is attached.  Its reply is not modelled: it  *)
(* may come within the client's 5 s or not.                                *)
ServeStop ==
    /\ Serve("stop")
    /\ attached' = FALSE
    /\ IF status \in {"starting", "running"}
         THEN /\ Ladder!Halt
              /\ UNCHANGED session
              /\ EmitStatus
         ELSE UNCHANGED <<ladder, session, down, progress>>
    /\ UNCHANGED <<daemonUp, serving, owed, joined, logs, clientVars>>

(* The daemon sees the socket close: release().  The session goes down     *)
(* unless somebody else is attached to it.                                 *)
ServeClose ==
    /\ daemonUp
    /\ sock \in {"destroyed", "closed"}
    /\ serving # "gone"
    /\ up = <<>> /\ ~Acking
    /\ serving' = "gone"
    /\ attached' = FALSE
    /\ \/ attached /\ Ladder!Halt /\ progress' = TRUE
       \/ UNCHANGED <<ladder, progress>>
    /\ UNCHANGED <<session, daemonUp, owed, joined, logs, up, down,
                   clientVars>>

(* A crash, a kill, or the end of a shutdown.                              *)
DaemonDies ==
    /\ daemonUp
    /\ daemonUp' = FALSE
    /\ UNCHANGED <<ladder, session, serving, owed, attached, joined,
                   logs, up, down, clientVars, progress>>

-----------------------------------------------------------------------------
(* The client's side.                                                      *)

(* An await is over and the code behind it has still to run.               *)
Resuming == \/ pc \in {"confirmed", "backfilled"}
            \/ pc = "awaiting" /\ gate # "pending"

(* Promises settle once.                                                   *)
Settle(outcome) == gate' = IF gate = "pending" THEN outcome ELSE gate

Arm(kind) == timer' = kind /\ progress' = FALSE
Disarm == timer' = "off" /\ UNCHANGED progress

(* sub.close(), which destroys the socket; the daemon hears of it later.   *)
CloseSub ==
    /\ sock' = IF sock = "open" THEN "destroyed" ELSE sock
    /\ down' = <<>>

(* Mutant: every event of the socket counts, not the first alone.          *)
NotifyEveryTime ==
    /\ ended' = TRUE
    /\ notified' = notified + 1
    /\ Settle("lost")
    /\ Disarm
    /\ UNCHANGED seen

(* notifyDisconnected(): nothing after the first call, nor after a close   *)
(* of the user's own.                                                      *)
NotifyDisconnected ==
    /\ ended' = TRUE
    /\ IF ended THEN UNCHANGED <<notified, gate, timer, progress>>
                ELSE notified' = notified + 1 /\ Settle("lost") /\ Disarm
    /\ UNCHANGED seen

Receive(kind) ==
    /\ sock = "open"
    /\ down # <<>> /\ Head(down).kind = kind
    /\ down' = Tail(down)
    /\ UNCHANGED <<daemonVars, sock>>

(* The confirmation resolves subscribe().                                  *)
ReceiveConfirmation ==
    /\ Receive("ack") \/ Receive("nack")
    /\ pc = "subscribing"
    /\ ack' = Head(down)
    /\ pc' = "confirmed"
    /\ UNCHANGED <<up, gate, timer, progress, key, ended, notified, seen>>

(* Mutant: only "running" settles the gate.                                *)
ReceiveStatusRunningOnly ==
    /\ Receive("status")
    /\ key' = TRUE
    /\ IF Head(down).status = "running"
         THEN /\ Settle("resolved")
              /\ seen' = IF gate = "pending" THEN Head(down).session ELSE seen
              /\ Disarm
         ELSE Arm("idle") /\ UNCHANGED <<gate, seen>>
    /\ UNCHANGED <<up, pc, ack, ended, notified>>

(* onIncomingEvent() of a session/status: any event arms the idle timer,   *)
(* and the edges that decide the boot disarm it.                           *)
ReceiveStatus ==
    /\ Receive("status")
    /\ key' = TRUE
    /\ CASE Head(down).status = "running" ->
              /\ Settle("resolved")
              /\ seen' = IF gate = "pending" THEN Head(down).session ELSE seen
              /\ Disarm
         [] Head(down).status \in {"stopping", "stopped"} ->
              Settle("session") /\ Disarm /\ UNCHANGED seen
         [] OTHER -> Arm("idle") /\ UNCHANGED <<gate, seen>>
    /\ UNCHANGED <<up, pc, ack, ended, notified>>

(* Mutant: only a session/status keeps the watchdog quiet.                 *)
ReceiveLogUnheard ==
    /\ Receive("log")
    /\ key' = TRUE
    /\ UNCHANGED <<up, pc, ack, gate, timer, progress, ended, notified, seen>>

(* onIncomingEvent() of any other event.                                   *)
ReceiveLog ==
    /\ Receive("log")
    /\ key' = TRUE
    /\ Arm("idle")
    /\ UNCHANGED <<up, pc, ack, gate, ended, notified, seen>>

(* A listener the user put on an adapter throws: ipc.ts hands the          *)
(* exception to onError, which takes it for the loss of the socket.        *)
ReceiveThrowing ==
    /\ Receive("status") \/ Receive("log")
    /\ pc = "connected"
    /\ key' = TRUE
    /\ NotifyDisconnected
    /\ UNCHANGED <<up, pc, ack>>

(* The reply to an RPC; one that timed out meanwhile is dropped.           *)
ReceiveBackfill ==
    /\ Receive("backfill")
    /\ IF pc = "backfilling" THEN pc' = "backfilled" /\ key' = TRUE
                             ELSE UNCHANGED <<pc, key>>
    /\ UNCHANGED <<up, ack, gate, timer, progress, ended, notified, seen>>

-----------------------------------------------------------------------------
(* The code behind `await client.subscribe()`: a refusal throws; a session *)
(* that ran before shows no "running" edge, so the gate opens at once, or  *)
(* after an RPC if no event has told the worktree key yet.                 *)
Confirmed ==
    /\ pc = "confirmed"
    /\ IF ack.kind = "nack"
         THEN /\ pc' = "failed"
              /\ CloseSub
              /\ UNCHANGED <<up, gate, seen, timer, progress>>
         ELSE /\ Arm("seed")
              /\ CASE ack.status # "running" \/ ack.started ->
                        pc' = "awaiting" /\ UNCHANGED <<up, gate, seen>>
                   [] ack.status = "running" /\ ~ack.started /\ key ->
                        /\ pc' = "awaiting"
                        /\ Settle("resolved")
                        /\ seen' = IF gate = "pending" THEN joined ELSE seen
                        /\ UNCHANGED up
                   [] OTHER ->
                        /\ pc' = "backfilling"
                        /\ up' = Append(up, "status")
                        /\ UNCHANGED <<gate, seen>>
              /\ UNCHANGED <<sock, down>>
    /\ UNCHANGED <<daemonVars, ack, key, ended, notified>>

(* 5 s without a reply.                                                    *)
BackfillTimesOut ==
    /\ pc = "backfilling"
    /\ pc' = "backfilled"
    /\ UNCHANGED <<daemonVars, up, down, ack, gate, seen, timer, progress, key,
                   ended, sock, notified>>

Backfilled ==
    /\ pc = "backfilled"
    /\ pc' = "awaiting"
    /\ Settle("resolved")
    /\ seen' = IF gate = "pending" THEN joined ELSE seen
    /\ UNCHANGED <<daemonVars, up, down, ack, timer, progress, key, ended, sock,
                   notified>>

(* Mutant: a boot that failed leaves the socket open.                      *)
AwaitedKeepsSocket ==
    /\ pc = "awaiting" /\ gate # "pending"
    /\ pc' = IF gate = "resolved" /\ key THEN "connected" ELSE "failed"
    /\ Disarm
    /\ UNCHANGED <<daemonVars, up, down, ack, gate, seen, key, ended, sock, notified>>

(* The code behind `await runningPromise`: return the session, or close    *)
(* the socket and throw.                                                   *)
Awaited ==
    /\ pc = "awaiting" /\ gate # "pending"
    /\ Disarm
    /\ IF gate = "resolved" /\ key
         THEN pc' = "connected" /\ UNCHANGED <<sock, down>>
         ELSE pc' = "failed" /\ CloseSub
    /\ UNCHANGED <<daemonVars, up, ack, gate, seen, key, ended, notified>>

(* The watchdog expires: no line came in for as long as it was armed.      *)
WatchdogExpires ==
    /\ ~Resuming
    /\ timer # "off" /\ (down = <<>> \/ sock # "open")
    /\ timer' = "off"
    /\ Settle("silence")
    /\ UNCHANGED <<daemonVars, up, down, pc, ack, seen, progress, key, ended, sock,
                   notified>>

(* The socket is lost with the daemon, by an 'error' and a 'close' or by a *)
(* 'close' alone; the 'close' follows its destruction too.  RPCs under way *)
(* are rejected.                                                           *)
SocketEvent(s) ==
    /\ ~Resuming
    /\ sock' = s
    /\ down' = <<>>
    /\ IF pc = "subscribing"
         THEN pc' = "failed" /\ UNCHANGED <<ended, notified, gate, timer, progress, seen>>
         ELSE /\ NotifyDisconnected
              /\ pc' = CASE pc = "backfilling" -> "backfilled"
                         [] pc = "stopping" -> "closed"
                         [] OTHER -> pc
    /\ UNCHANGED <<daemonVars, up, ack, key>>

SocketError == sock = "open" /\ ~daemonUp /\ SocketEvent("broken")

SocketClose ==
    /\ \/ sock = "open" /\ ~daemonUp
       \/ sock \in {"broken", "destroyed"}
    /\ SocketEvent("closed")

-----------------------------------------------------------------------------
(* disconnect(), and release(): nothing if the session has ended already.  *)
CloseByUser ==
    /\ ended' = TRUE
    /\ IF ended THEN UNCHANGED <<sock, down>> ELSE CloseSub
    /\ pc' = "closed"
    /\ UNCHANGED <<ack, gate, timer, progress, key, notified, seen>>

Disconnect ==
    /\ pc = "connected"
    /\ CloseByUser
    /\ UNCHANGED <<daemonVars, up>>

(* stop(): send() rejects on a dead socket.                                *)
Stop ==
    /\ pc = "connected"
    /\ IF sock = "open"
         THEN /\ up' = Append(up, "stop")
              /\ pc' = "stopping"
              /\ UNCHANGED <<down, ack, gate, timer, progress, key, ended, sock,
                             notified, seen>>
         ELSE CloseByUser /\ UNCHANGED up
    /\ UNCHANGED daemonVars

(* The reply, or 5 s without one; a teardown may well take longer.         *)
StopEnds ==
    /\ pc = "stopping"
    /\ CloseByUser
    /\ UNCHANGED <<daemonVars, up>>

-----------------------------------------------------------------------------
Answer == \/ ServeFirst \/ ServeJoin \/ ServeRefusal \/ Confirm
          \/ ServeStatus \/ ServeStop \/ ServeClose

Read == ReceiveConfirmation \/ ReceiveStatus \/ ReceiveLog \/ ReceiveBackfill

RunOn == Confirmed \/ Backfilled \/ Awaited

LoseSocket == SocketError \/ SocketClose

Next ==
    \/ SessionMoves \/ ServicesMove \/ EmitLog \/ DaemonDies
    \/ Answer
    \/ Read
    \/ RunOn
    \/ BackfillTimesOut \/ WatchdogExpires \/ StopEnds
    \/ LoseSocket
    \/ Subscribe \/ Disconnect \/ Stop

Safety == Init /\ [][Next]_vars

(* The same with user code that throws.                                    *)
ThrowingSafety == Init /\ [][Next \/ ReceiveThrowing]_vars

(* The daemon's handlers, the kernel's sockets and the client's event loop *)
(* and timers make progress.  No boot is obliged to end: that is what the  *)
(* watchdog is for.  A session that stops does get to "stopped".           *)
SessionFairness ==
    /\ WF_vars(Answer)
    /\ WF_vars(Read)
    /\ WF_vars(RunOn)
    /\ WF_vars(WatchdogExpires)
    /\ WF_vars(BackfillTimesOut \/ StopEnds)
    /\ WF_vars(LoseSocket)

Spec == Safety /\ SessionFairness

-----------------------------------------------------------------------------
Calling == pc \in {"subscribing", "confirmed", "backfilling", "backfilled",
                   "awaiting", "stopping"}

(* A session is handed out only if the one the client attached to was seen *)
(* running: not one that ended meanwhile, nor one that another client has  *)
(* begun since, possibly under another profile.                            *)
GateTellsTruth == gate = "resolved" => seen = joined /\ joined # 0

(* connectToDaemonSession() and stop() return, even if the boot hangs, the *)
(* daemon dies or a reply gets lost.                                       *)
CallsReturn == Calling ~> ~Calling

(* A client that was told of a failure, or has let go of its session, does *)
(* not keep the session alive.                                             *)
LettingGo == pc \in {"failed", "closed"} ~> ~attached \/ ~daemonUp

(* "Signal that the underlying daemon socket dropped unexpectedly (crash / *)
(* SIGKILL / host loss)" (adapter-sink.ts:30): the adapters of a session   *)
(* that was handed out are told of the loss once, and of nothing else.     *)
LossIsToldOnce ==
    /\ notified <= 1
    /\ notified = 1 /\ pc # "failed" => ~daemonUp
    /\ pc = "connected" /\ sock = "closed" => notified = 1

(* "a 30-minute clean install that emits a log line every few seconds will *)
(* NEVER trip it" (session.ts:131): when the watchdog may expire, the      *)
(* daemon has emitted nothing since it was armed.                          *)
OnlySilenceStalls ==
    timer # "off" /\ gate = "pending" /\ down = <<>> /\ sock = "open" => ~progress

=============================================================================

----------------------------- MODULE CaptureRing ------------------------------
(***************************************************************************)
(* What the devtools of a worktree capture: the NetworkTap and BodyFetcher *)
(* of src/core/devtools/network-tap.ts, the ring of domain-tap.ts and the  *)
(* deltas and cursors of src/core/devtools.ts, fed by a target that sends  *)
(* CDP events and read by an agent that polls with a cursor and by a       *)
(* viewer that applies the deltas.  DevTools is about the proxies.         *)
(***************************************************************************)
EXTENDS Naturals, Sequences, SequencesExt, FiniteSets

CONSTANTS
    RequestIds,    \* CDP request ids; each runtime numbers from the start
    RingCapacity, Concurrency, QueueCap,   \* of DevToolsOpts
    MaxRows,       \* bound on rows of an epoch
    MaxEpochs,     \* bound on epochs of a state
    MaxTaps        \* bound on start()s

ASSUME CaptureBounds ==
    /\ RingCapacity \in Nat \ {0} /\ Concurrency \in Nat \ {0} /\ QueueCap \in Nat \ {0}
    /\ MaxRows \in Nat /\ MaxEpochs \in Nat \ {0} /\ MaxTaps \in Nat \ {0}

VARIABLES
    phase,      \* how far the target is with each request
    rows,       \* the ring's entries, oldest first
    last, oldest, ringEpoch,     \* lastEventSequence, oldestSequence, bufferEpoch
    shadow,     \* requests whose response was seen: text, or no body to fetch
    queue,      \* BodyFetcher.queue
    asked,      \* getResponseBody commands under way, per request
    disposed,   \* BodyFetcher.disposed
    swapping,   \* selectTarget() waits for its proxies
    added, evicted,   \* state.dirty; `updated` tells the viewer nothing here
    view,       \* history: the rows of the ring a viewer knows of
    taps,       \* history: start()s so far
    agent,      \* the agent's cursor, and of which start() it is
    given,      \* history: rows of this epoch the agent was given, by sequence
    leftOut,    \* history: rows its limit or its filter took from a page
    untold,     \* history: rows put into the ring outside an event, or dirty
                \* before the epoch began
    dropped     \* history: requests dropped from the queue

ringVars == <<rows, last, oldest, ringEpoch>>
fetchVars == <<queue, asked, disposed, dropped>>
deltaVars == <<added, evicted, view, untold>>
agentVars == <<agent, given, leftOut>>
captureVars == <<phase, ringVars, shadow, fetchVars, swapping, deltaVars, taps, agentVars>>

Ids(ring) == {ring[i].id : i \in DOMAIN ring}
Known(i) == i \in Ids(rows)
NoAgent == [tap |-> 0, epoch |-> 0, sequence |-> 0]
Bodies == {"none", "awaited", "text", "failed"}

CaptureTypeOK ==
    /\ phase \in [RequestIds -> {"unsent", "sent", "responded", "over"}]
    /\ rows \in Seq([id : RequestIds, sequence : 1..MaxRows,
                     state : {"pending", "finished", "failed"}, body : Bodies])
    /\ Len(rows) <= RingCapacity /\ Cardinality(Ids(rows)) = Len(rows)
    /\ last \in 0..MaxRows /\ oldest \in 1..(MaxRows + 1) /\ ringEpoch \in 1..MaxEpochs
    /\ shadow \in [RequestIds -> {"none", "text", "bodiless"}]
    /\ queue \in Seq(RequestIds) /\ Len(queue) <= QueueCap
    /\ asked \in [RequestIds -> 0..Concurrency]
    /\ disposed \in BOOLEAN /\ swapping \in BOOLEAN
    /\ added \cup evicted \cup view \cup untold \cup dropped \subseteq RequestIds
    /\ taps \in 1..MaxTaps /\ given \cup leftOut \subseteq 1..MaxRows
    /\ agent \in [tap : 0..MaxTaps, epoch : 0..MaxEpochs, sequence : 0..MaxRows]

(* A target may be in the middle of requests when the tap is attached.     *)
Attached == phase' \in [RequestIds -> {"unsent", "sent"}]
CaptureInit ==
    /\ phase \in [RequestIds -> {"unsent", "sent"}]
    /\ rows = <<>> /\ last = 0 /\ oldest = 1 /\ ringEpoch = 1
    /\ shadow = [i \in RequestIds |-> "none"]
    /\ queue = <<>> /\ asked = [i \in RequestIds |-> 0] /\ disposed = FALSE
    /\ swapping = FALSE
    /\ added = {} /\ evicted = {} /\ view = {} /\ untold = {} /\ dropped = {}
    /\ taps = 1 /\ agent = NoAgent /\ given = {} /\ leftOut = {}

-----------------------------------------------------------------------------
(* upsert(): the row of i takes a state and a body, in its place, or at    *)
(* the end with the next sequence number, where the oldest makes room.     *)
Row(i) == CHOOSE j \in DOMAIN rows : rows[j].id = i
Upsert(i, state, body) ==
    IF Known(i)
      THEN /\ rows' = [rows EXCEPT ![Row(i)].state = state, ![Row(i)].body = body]
           /\ UNCHANGED <<last, oldest, ringEpoch>>
      ELSE LET longer == Append(rows, [id |-> i, sequence |-> last + 1,
                                       state |-> state, body |-> body])
           IN /\ last < MaxRows
              /\ last' = last + 1
              /\ rows' = IF Len(longer) > RingCapacity THEN Tail(longer) ELSE longer
              /\ oldest' = Head(rows').sequence
              /\ UNCHANGED ringEpoch
StateOf(i) == IF Known(i) THEN rows[Row(i)].state ELSE "finished"
BodyOf(i) == IF Known(i) THEN rows[Row(i)].body ELSE "none"

(* handleCdpEvent(): what came and went since the event began is dirty.    *)
ReconcileDirty ==
    LET gone == Ids(rows) \ Ids(rows')
    IN /\ added' = (added \cup (Ids(rows') \ Ids(rows))) \ gone
       /\ evicted' = evicted \cup gone
       /\ untold' = untold \ gone /\ UNCHANGED view

(* enqueue() and drain(): the oldest job makes room.                       *)
Load == FoldSet(LAMBDA i, n : n + asked[i], 0, RequestIds)
EnqueueBody(i) ==
    IF disposed THEN UNCHANGED fetchVars
    ELSE LET full == Len(queue) >= QueueCap
             longer == Append(IF full THEN Tail(queue) ELSE queue, i)
         IN /\ dropped' = IF full THEN dropped \cup {Head(queue)} ELSE dropped
            /\ IF Load < Concurrency
                 THEN /\ asked' = [asked EXCEPT ![Head(longer)] = @ + 1]
                      /\ queue' = Tail(longer)
                 ELSE queue' = longer /\ UNCHANGED asked
            /\ UNCHANGED disposed

-----------------------------------------------------------------------------
(* Events of the target.  A redirect sends the request again.              *)
RequestWillBeSent(i) ==
    /\ ~swapping /\ phase[i] # "over"
    /\ phase' = [phase EXCEPT ![i] = "sent"]
    /\ Upsert(i, "pending", "none") /\ ReconcileDirty
    /\ UNCHANGED <<shadow, fetchVars, swapping, taps, agentVars>>

ResponseReceived(i, mime) ==
    /\ ~swapping /\ phase[i] = "sent"
    /\ phase' = [phase EXCEPT ![i] = "responded"]
    /\ Upsert(i, "pending", BodyOf(i)) /\ ReconcileDirty
    /\ shadow' = [shadow EXCEPT ![i] = mime]
    /\ UNCHANGED <<fetchVars, swapping, taps, agentVars>>

(* A row that is not there is made up, and its body is asked for.          *)
LoadingFinished(i) ==
    /\ ~swapping /\ phase[i] \in {"sent", "responded"}
    /\ phase' = [phase EXCEPT ![i] = "over"]
    /\ Upsert(i, "finished", IF Known(i) /\ shadow[i] = "text" THEN "awaited" ELSE "none")
    /\ ReconcileDirty
    /\ IF shadow[i] = "text" THEN EnqueueBody(i) ELSE UNCHANGED fetchVars
    /\ shadow' = [shadow EXCEPT ![i] = "none"]
    /\ UNCHANGED <<swapping, taps, agentVars>>

LoadingFailed(i) ==
    /\ ~swapping /\ phase[i] \in {"sent", "responded"}
    /\ phase' = [phase EXCEPT ![i] = "over"]
    /\ Upsert(i, "failed", BodyOf(i)) /\ ReconcileDirty
    /\ shadow' = [shadow EXCEPT ![i] = "none"]
    /\ UNCHANGED <<fetchVars, swapping, taps, agentVars>>

(* Mutant: the queue waits for the next request that finishes.             *)
BodyResultUndrained(i, answer) ==
    /\ asked[i] > 0 /\ ~disposed /\ ~swapping
    /\ asked' = [asked EXCEPT ![i] = @ - 1]
    /\ rows' = IF Known(i) /\ StateOf(i) = "finished" THEN [rows EXCEPT ![Row(i)].body = answer]
                                                     ELSE rows
    /\ UNCHANGED <<phase, last, oldest, ringEpoch, shadow, queue, disposed, dropped, swapping,
                   deltaVars, taps, agentVars>>

(* getResponseBody answers, is refused or times out: the row, if need be a *)
(* made-up one, is changed without a look at what is dirty; the next job   *)
(* is taken from the queue.  A pending row swallows the answer.  (At the   *)
(* bound on rows none is made up.)                                         *)
BodyResult(i, answer) ==
    /\ asked[i] > 0 /\ (swapping => answer = "failed")
    /\ LET freed == [asked EXCEPT ![i] = @ - 1]
       IN IF disposed \/ queue = <<>> THEN asked' = freed /\ UNCHANGED queue
          ELSE asked' = [freed EXCEPT ![Head(queue)] = @ + 1] /\ queue' = Tail(queue)
    /\ IF disposed \/ (~Known(i) /\ last = MaxRows) THEN UNCHANGED <<ringVars, untold>>
       ELSE /\ Upsert(i, StateOf(i), IF StateOf(i) = "finished" THEN answer ELSE BodyOf(i))
            /\ untold' = IF Known(i) THEN untold
                         ELSE (untold \cup {i}) \cup (Ids(rows) \ Ids(rows'))
    /\ UNCHANGED <<phase, shadow, swapping, taps, agentVars, disposed, dropped,
                   added, evicted, view>>

-----------------------------------------------------------------------------
(* Epochs.  clear() and selectTarget() forget what is dirty, and a status  *)
(* event tells the viewer of the new epoch.                                *)
NewEpoch ==
    /\ ringEpoch < MaxEpochs /\ ringEpoch' = ringEpoch + 1
    /\ rows' = <<>> /\ last' = 0 /\ oldest' = 1
    /\ view' = {} /\ given' = {} /\ leftOut' = {} /\ UNCHANGED agent
ForgetDirty == added' = {} /\ evicted' = {} /\ untold' = {}

ClearRing ==
    /\ ~swapping /\ NewEpoch /\ ForgetDirty
    /\ UNCHANGED <<phase, shadow, fetchVars, swapping, taps>>

(* A Metro that ends takes its runtime with it; what is dirty stays so.    *)
MetroEnded ==
    /\ ~swapping /\ NewEpoch /\ Attached
    /\ untold' = added \cup evicted
    /\ UNCHANGED <<shadow, fetchVars, swapping, added, evicted, taps>>

TargetSwapBegins ==
    /\ ~swapping /\ swapping' = TRUE
    /\ NewEpoch /\ ForgetDirty
    /\ UNCHANGED <<phase, shadow, fetchVars, taps>>

(* The taps are detached, which disposes of the fetcher, and attached to   *)
(* the new proxy.                                                          *)
TargetSwapEnds ==
    /\ swapping /\ swapping' = FALSE
    /\ disposed' = TRUE /\ queue' = <<>>
    /\ Attached
    /\ UNCHANGED <<ringVars, shadow, asked, dropped, deltaVars, taps, agentVars>>

(* restart(): taps, ring and epochs begin anew.                            *)
RingRestarts ==
    /\ ~swapping /\ taps < MaxTaps /\ taps' = taps + 1
    /\ rows' = <<>> /\ last' = 0 /\ oldest' = 1 /\ ringEpoch' = 1
    /\ shadow' = [i \in RequestIds |-> "none"]
    /\ queue' = <<>> /\ asked' = [i \in RequestIds |-> 0] /\ disposed' = FALSE
    /\ dropped' = {}
    /\ view' = {} /\ ForgetDirty /\ given' = {} /\ leftOut' = {} /\ Attached
    /\ UNCHANGED <<swapping, agent>>

-----------------------------------------------------------------------------
(* Readers.                                                                *)
FlushDelta ==
    /\ added \cup evicted # {}
    /\ added' = {} /\ evicted' = {}
    /\ view' = (view \ evicted) \cup added
    /\ UNCHANGED <<phase, ringVars, shadow, fetchVars, swapping, untold, taps, agentVars>>

(* Mutant: the cursor's epoch is not compared.                             *)
SinceAnyEpoch == agent.sequence
Since == IF agent.epoch = ringEpoch THEN agent.sequence ELSE 0
Page == {row \in Range(rows) : row.sequence > Since}

CursorDropped == agent.epoch # ringEpoch \/ agent.sequence < oldest - 1

(* The filters: a range of statuses finds finished requests only, and the  *)
(* limit, where 0 is none, keeps the last rows.                            *)
Filtered(byStatus, limit) ==
    LET found == {row \in Page : byStatus => row.state = "finished"}
    IN {row \in found :
          limit > 0 => Cardinality({r \in found : r.sequence >= row.sequence}) <= limit}
Sequences(page) == {row.sequence : row \in page}

(* listNetwork() with the agent's cursor and filters; its next cursor is   *)
(* the end of the ring, whatever the page holds.  What a cursor of an      *)
(* earlier start() hides is not counted as missed.                         *)
ListNetwork(byStatus, limit) ==
    /\ given' = given \cup Sequences(Filtered(byStatus, limit))
                      \cup (IF CursorDropped THEN 1..(oldest - 1) ELSE {})
                      \cup (IF agent.tap # taps THEN 1..Since ELSE {})
    /\ leftOut' = leftOut \cup Sequences(Page \ Filtered(byStatus, limit))
    /\ agent' = [tap |-> taps, epoch |-> ringEpoch, sequence |-> last]
    /\ UNCHANGED <<phase, ringVars, shadow, fetchVars, swapping, deltaVars, taps>>

TapNext ==
    \/ \E i \in RequestIds :
          \/ RequestWillBeSent(i) \/ LoadingFinished(i) \/ LoadingFailed(i)
          \/ \E mime \in {"text", "bodiless"} : ResponseReceived(i, mime)
          \/ \E answer \in {"text", "failed"} : BodyResult(i, answer)
    \/ ClearRing \/ MetroEnded \/ TargetSwapBegins \/ TargetSwapEnds \/ RingRestarts
ListNext == \E byStatus \in BOOLEAN, limit \in 0..RingCapacity : ListNetwork(byStatus, limit)
CaptureNext == TapNext \/ FlushDelta \/ ListNext

(* Commands are answered or time out.                                      *)
CaptureFairness ==
    \A i \in RequestIds : WF_captureVars(\E answer \in {"text", "failed"} : BodyResult(i, answer))
CaptureSpec == CaptureInit /\ [][CaptureNext]_captureVars /\ CaptureFairness

-----------------------------------------------------------------------------
(* An agent that polls is given every row, or told that its cursor was     *)
(* dropped: rows at or behind its cursor are rows it knows of, or that a   *)
(* limit or a filter of its own took from a page, across evictions, clears *)
(* and target swaps, until a restart() of the devtools                     *)
(* (devtools.ts:402-440, domain-tap.ts:224-243).                           *)
CursorSkipsNothing ==
    agent.tap = taps /\ agent.epoch = ringEpoch =>
        1..agent.sequence \subseteq given \cup leftOut

(* An agent who pages is given every row that is kept, or told.  It is not *)
(* so: the cursor passes what a limit left out of the page, and what a     *)
(* range of statuses hides until it finishes (devtools.ts:432-440), which  *)
(* metro-logs/buffer.ts:186-190 mends for its ring as "silently dropping   *)
(* middle entries from agent pagination".                                  *)
PagingSkipsNothing ==
    agent.tap = taps /\ agent.epoch = ringEpoch =>
        \A row \in Range(rows) : row.sequence <= agent.sequence => row.sequence \in given

(* The same across restart(): "cursor belongs to a prior session; treat as *)
(* cursorDropped" (devtools.ts:403-404).                                   *)
PriorCursorIsDropped ==
    agent.epoch = ringEpoch => 1..agent.sequence \cap {rows[j].sequence : j \in DOMAIN rows}
                                   \subseteq given

(* Once the deltas are out, the viewer knows exactly the rows in the ring, *)
(* but for the rows that a late body brought back and those that were      *)
(* dirty when Metro ended (devtools.ts:529-582, network-tap.ts:458-476).   *)
DeltasTellRows ==
    added \cup evicted = {} => /\ Ids(rows) \ view \subseteq untold
                               /\ view \ Ids(rows) \subseteq untold

(* Bodies that are awaited come, or fail, unless the queue overflowed, the *)
(* row has gone or the target was swapped (network-tap.ts:103-152).        *)
BodiesArrive ==
    \A i \in RequestIds :
        Known(i) /\ BodyOf(i) = "awaited"
            ~> disposed \/ swapping \/ i \in dropped \/ BodyOf(i) # "awaited"

(* "on completion we enqueue a body fetch" (network-tap.ts:12): whenever a *)
(* text response has finished, its body is being fetched.                  *)
FinishedIsFetched ==
    \A i \in RequestIds :
        Known(i) /\ BodyOf(i) = "awaited" =>
            asked[i] > 0 \/ i \in dropped \/ i \in Range(queue)
==============================================================================
